----------------------- MODULE AgpsStateMachine_proofs -----------------------
(***************************************************************************)
(* Proofs about AgpsStateMachine, for any clients and bounds: an interface *)
(* is held only for a subscriber that wants it, and a client that believes *)
(* its connection open is one.                                             *)
(***************************************************************************)
EXTENDS AgpsStateMachine, FiniteSetTheorems, SequenceTheorems, TLAPS

States == {"Released", "Pending", "Acquired", "Releasing"}
Subscribers == [id : Ids, inactive : BOOLEAN]
Ours == {"RequestATL", "RequestWifi", "RequestSuplEs", "ReleaseATL", "ReleaseWifi"}
Events == {"Granted", "Denied", "Released"}
Messages == [what : Ours, who : Ids] \cup [what : Events, who : Nifs]
              \cup {Message("EngineUp", "all")}

Types ==
  /\ service \in Services
  /\ state \in [Nifs -> States]
  /\ subs \in [Nifs -> Seq(Subscribers)]
  /\ requests \in [Nifs -> Seq({"request", "release"})]
  /\ msgs \in Seq(Messages)
  /\ mRetries \in 0..MaxRetries /\ timers \in Nat
  /\ conn \in [Nifs -> {"closed", "opening", "open"}]
  /\ client \in [Ids -> {"idle", "asked", "open", "closing"}]
  /\ dropped \subseteq Nifs
  /\ asks \in 0..MaxAsks /\ losses \in 0..MaxLosses /\ restarts \in 0..MaxRestarts

\* nobody subscribes twice
Single(s) == \A i, j \in DOMAIN s : s[i].id = s[j].id => i = j

\* the subscribers that are active
Wanting(s) == {s[i].id : i \in {j \in DOMAIN s : ~s[j].inactive}}
AllActive(s) == \A i \in DOMAIN s : ~s[i].inactive

\* what the list s of machine n holds in state st
ListFits(n, st, s, flushed) ==
  /\ Single(s)
  /\ flushed => n = "agnss"
  /\ EnforceSingle(n) => Len(s) <= 1
  /\ st \in {"Pending", "Acquired"} /\ ~flushed => Wanting(s) # {}
  /\ st = "Released" \/ n = "agnss" => AllActive(s)
  /\ st = "Released" /\ n # "ds" => s = <<>>
  /\ st = "Releasing" /\ n = "wifi" => Wanting(s) = {}

ListInv == \A n \in Nifs : ListFits(n, state[n], subs[n], n \in dropped)

-----------------------------------------------------------------------------
\* the machines that the clients of a kind reach: an emergency call that
\* fails falls back to agnss
Reached(v) == IF v = "es" THEN {"agnss", "ds"} ELSE {NifOf[v]}

\* the others are left alone
OthersRest ==
  \A n \in Nifs \ Reached(service) :
    /\ state[n] = "Released" /\ subs[n] = <<>>
    /\ requests[n] = <<>> /\ conn[n] = "closed"

\* which kind of client a message can be from
Sender(v, what) ==
  /\ what = "RequestATL" => v \in {"atl", "es"}
  /\ what = "ReleaseATL" => v # "wifi"
  /\ what \in {"RequestWifi", "ReleaseWifi"} => v = "wifi"
  /\ what = "RequestSuplEs" => v = "es"

SendersKnown == \A i \in DOMAIN msgs : Sender(service, msgs[i].what)

\* a modem that has restarted has asked for nothing yet
RestartQuiet ==
  service # "wifi" /\ (\E i \in DOMAIN msgs : msgs[i].what = "EngineUp") =>
    \A c \in Ids : client[c] = "idle"

OpenSubscribed ==
  service # "es" =>
    \A c \in Ids : client[c] = "open" =>
      LET n == NifOf[service] IN state[n] = "Acquired" /\ c \in Wanting(subs[n])

-----------------------------------------------------------------------------
\* a request and the releases of client c in the queue q of a WiFi engine
Requested(q, c) == {i \in DOMAIN q : q[i].what = "RequestWifi" /\ q[i].who = c}
LetGo(q, c) == {i \in DOMAIN q : q[i].what = "ReleaseWifi" /\ q[i].who = c}

\* what a WiFi client can believe, by its messages that are still under way
CallFits(c, b, s, q) ==
  /\ \A i, j \in Requested(q, c) : i = j
  /\ b \in {"idle", "open"} \/ c \in IdsIn(s) => Requested(q, c) = {}
  /\ b = "idle" => c \notin IdsIn(s)
  /\ b = "open" => LetGo(q, c) = {}
  /\ b = "asked" /\ c \in IdsIn(s) => LetGo(q, c) = {}
  /\ b = "asked" => \A i \in Requested(q, c), j \in LetGo(q, c) : j < i

WifiCalls ==
  service = "wifi" =>
    \A c \in Ids : CallFits(c, client[c], subs["wifi"], msgs)

-----------------------------------------------------------------------------
\* what the service reports of WiFi and the machine has not heard yet
Reports(q) == {i \in DOMAIN q : q[i].what \in Events /\ q[i].who = "wifi"}
Silent(q) == Reports(q) = {}
Hearing(q, x) == \E i \in DOMAIN q : Reports(q) = {i} /\ q[i].what = x
HearingBoth(q, x, y) ==
  \E i, j \in DOMAIN q : i < j /\ Reports(q) = {i, j} /\ q[i].what = x /\ q[j].what = y

\* the requests, the connection and the reports between a WiFi machine and
\* its service: an old release may stay unread until the next request
LineFits(st, r, k, q) ==
  \/ st = "Released" /\ r \in {<<>>, <<"release">>} /\ k = "closed" /\ Silent(q)
  \/ /\ st = "Pending"
     /\ \/ r \in {<<"request">>, <<"release", "request">>} /\ k = "closed" /\ Silent(q)
        \/ r = <<>> /\ k = "opening" /\ Silent(q)
        \/ r = <<>> /\ k = "open" /\ Hearing(q, "Granted")
        \/ r = <<>> /\ k = "closed" /\ Hearing(q, "Denied")
        \/ r = <<>> /\ k = "closed" /\ HearingBoth(q, "Granted", "Released")
  \/ /\ st = "Acquired" /\ r = <<>>
     /\ \/ k = "open" /\ Silent(q)
        \/ k = "closed" /\ Hearing(q, "Released")
  \/ /\ st = "Releasing"
     /\ \/ /\ r \in {<<"request", "release">>, <<"release", "request", "release">>}
           /\ k = "closed" /\ Silent(q)
        \/ r = <<"release">> /\ k = "opening" /\ Silent(q)
        \/ r = <<"release">> /\ k = "open" /\ (Silent(q) \/ Hearing(q, "Granted"))
        \/ /\ r \in {<<"release">>, <<>>} /\ k = "closed"
           /\ \/ Hearing(q, "Denied") \/ Hearing(q, "Released")
              \/ HearingBoth(q, "Granted", "Released")

WifiLine ==
  service = "wifi" => LineFits(state["wifi"], requests["wifi"], conn["wifi"], msgs)

\* The inductive invariants: of HeldForSubscriber, and with it of OpenIsHeld.
LInv == Types /\ ListInv
CInv == OthersRest /\ SendersKnown /\ RestartQuiet /\ OpenSubscribed /\ WifiCalls /\ WifiLine

-----------------------------------------------------------------------------
(***************************************************************************)
(* Pick keeps every element at a chosen place, and no other.               *)
(***************************************************************************)
Rank(I, i) == Cardinality({j \in I : j < i})

LEMMA RankBelow ==
  ASSUME NEW n \in Nat, NEW I \in SUBSET (1..n), NEW i \in I
  PROVE  /\ IsFiniteSet(I) /\ Cardinality(I) \in Nat
         /\ Rank(I, i) \in 0..(Cardinality(I) - 1)
         /\ \A k \in I : i < k => Rank(I, i) < Rank(I, k)
<1>1. IsFiniteSet(1..n)
  BY FS_Interval
<1>2. IsFiniteSet(I) /\ Cardinality(I) \in Nat
  BY <1>1, FS_Subset, FS_CardinalityType
<1>3. \A T \in SUBSET I : IsFiniteSet(T) /\ Cardinality(T) \in Nat
  BY <1>2, FS_Subset, FS_CardinalityType
<1>4. Rank(I, i) \in 0..(Cardinality(I) - 1)
  <2>1. {j \in I : j < i} \in SUBSET (I \ {i})
    OBVIOUS
  <2>2. IsFiniteSet(I \ {i}) /\ Cardinality(I \ {i}) = Cardinality(I) - 1
    BY <1>2, FS_RemoveElement
  <2>3. Cardinality({j \in I : j < i}) <= Cardinality(I \ {i})
    BY <2>1, <2>2, FS_Subset
  <2>4. QED
    BY <1>2, <1>3, <2>1, <2>2, <2>3 DEF Rank
<1>5. ASSUME NEW k \in I, i < k PROVE Rank(I, i) < Rank(I, k)
  <2>. DEFINE low == {j \in I : j < i}
  <2>1. IsFiniteSet(low) /\ i \notin low /\ low \in SUBSET I
    BY <1>3
  <2>2. Cardinality(low \cup {i}) = Cardinality(low) + 1
    BY <2>1, FS_AddElement
  <2>3. low \cup {i} \in SUBSET {j \in I : j < k}
    <3>1. i \in Int /\ k \in Int /\ \A j \in I : j \in Int
      OBVIOUS
    <3>2. \A j \in I : j < i => j < k
      BY <1>5, <3>1
    <3>3. QED
      BY <1>5, <3>2
  <2>4. IsFiniteSet({j \in I : j < k}) /\ Cardinality({j \in I : j < k}) \in Nat
    BY <1>3
  <2>5. Cardinality(low \cup {i}) <= Cardinality({j \in I : j < k})
    BY <2>3, <2>4, FS_Subset
  <2>6. Cardinality(low) \in Nat
    BY <1>3, <2>1
  <2>7. QED
    BY <2>2, <2>4, <2>5, <2>6 DEF Rank
<1>6. QED
  BY <1>2, <1>4, <1>5

LEMMA RankInjective ==
  ASSUME NEW n \in Nat, NEW I \in SUBSET (1..n), NEW i \in I, NEW k \in I,
         Rank(I, i) = Rank(I, k)
  PROVE  i = k
<1>1. Rank(I, i) \in 0..(Cardinality(I) - 1) /\ (i < k => Rank(I, i) < Rank(I, k))
  BY RankBelow
<1>2. Rank(I, k) \in 0..(Cardinality(I) - 1) /\ (k < i => Rank(I, k) < Rank(I, i))
  BY RankBelow
<1>3. i \in Int /\ k \in Int
  OBVIOUS
<1>4. QED
  BY <1>1, <1>2, <1>3

LEMMA RanksCount ==
  ASSUME NEW m \in Nat
  PROVE  IsFiniteSet(0..(m - 1)) /\ Cardinality(0..(m - 1)) = m
<1>1. 0 \in Int /\ m - 1 \in Int
  OBVIOUS
<1>2. IsFiniteSet(0..(m - 1))
      /\ Cardinality(0..(m - 1)) = IF 0 > m - 1 THEN 0 ELSE m - 1 - 0 + 1
  BY ONLY <1>1, FS_Interval
<1>3. QED
  BY <1>2

LEMMA PlacesCount ==
  ASSUME NEW m \in Nat
  PROVE  IsFiniteSet(1..m) /\ Cardinality(1..m) = m
<1>1. 1 \in Int /\ m \in Int
  OBVIOUS
<1>2. IsFiniteSet(1..m) /\ Cardinality(1..m) = IF 1 > m THEN 0 ELSE m - 1 + 1
  BY ONLY <1>1, FS_Interval
<1>3. QED
  BY <1>2

\* no rank is left out: otherwise two places would share one
LEMMA RankTaken ==
  ASSUME NEW n \in Nat, NEW I \in SUBSET (1..n), NEW k \in 1..Cardinality(I)
  PROVE  \E i \in I : Rank(I, i) = k - 1
<1>. DEFINE top == Cardinality(I) - 1
            T == (0..top) \ {k - 1}
            f == [i \in I |-> Rank(I, i)]
<1>1. SUFFICES ASSUME \A i \in I : Rank(I, i) # k - 1 PROVE FALSE
  OBVIOUS
<1>2. IsFiniteSet(I) /\ Cardinality(I) \in Nat
  <2>1. IsFiniteSet(1..n)
    BY FS_Interval
  <2>2. QED
    BY <2>1, FS_Subset, FS_CardinalityType
<1>3. IsFiniteSet(0..top) /\ Cardinality(0..top) = Cardinality(I)
  BY <1>2, RanksCount
<1>4. k - 1 \in 0..top
  BY <1>2
<1>5. IsFiniteSet(T) /\ Cardinality(T) = Cardinality(I) - 1
  <2>1. IsFiniteSet(0..top \ {k - 1})
        /\ Cardinality(0..top \ {k - 1}) =
             IF k - 1 \in 0..top THEN Cardinality(0..top) - 1 ELSE Cardinality(0..top)
    BY <1>3, FS_RemoveElement
  <2>2. QED
    BY <1>3, <1>4, <2>1
<1>6. f \in [I -> T]
  BY <1>1, RankBelow
<1>7. Cardinality(T) < Cardinality(I)
  BY <1>2, <1>5
<1>. HIDE DEF T, f
<1>8. \E x, y \in I : x # y /\ f[x] = f[y]
  BY <1>2, <1>5, <1>6, <1>7, FS_PigeonHole
<1>9. QED
  BY <1>8, RankInjective DEF f

\* at lists the m places of I, which Pick reads s at
Lists(at, m, s, I) ==
  /\ at \in [1..m -> I]
  /\ Pick(s, I) = [k \in 1..m |-> s[at[k]]]
  /\ \A i \in I : \E k \in 1..m : at[k] = i
  /\ \A j, k \in 1..m : at[j] = at[k] => j = k

LEMMA PickPlaces ==
  ASSUME NEW s, NEW n \in Nat, NEW I \in SUBSET (1..n)
  PROVE  Cardinality(I) \in Nat /\ \E at : Lists(at, Cardinality(I), s, I)
<1>. DEFINE m == Cardinality(I)
            at == [k \in 1..m |-> CHOOSE i \in I : Rank(I, i) = k - 1]
<1>1. m \in Nat
  <2>1. IsFiniteSet(1..n)
    BY FS_Interval
  <2>2. QED
    BY <2>1, FS_Subset, FS_CardinalityType
<1>2. \A k \in 1..m : at[k] \in I /\ Rank(I, at[k]) = k - 1
  BY RankTaken
<1>3. Pick(s, I) = [k \in 1..m |-> s[at[k]]]
  BY DEF Pick, Rank
<1>. HIDE DEF at
<1>4. \A i \in I : \E k \in 1..m : at[k] = i
  <2>1. SUFFICES ASSUME NEW i \in I PROVE \E k \in 1..m : at[k] = i
    OBVIOUS
  <2>2. Rank(I, i) \in 0..(m - 1)
    BY RankBelow
  <2>3. Rank(I, i) + 1 \in 1..m
    BY <1>1, <2>2
  <2>4. at[Rank(I, i) + 1] \in I /\ Rank(I, at[Rank(I, i) + 1]) = Rank(I, i)
    BY <1>1, <1>2, <2>2, <2>3
  <2>5. QED
    BY <2>3, <2>4, RankInjective
<1>5. \A j, k \in 1..m : at[j] = at[k] => j = k
  <2>1. \A j, k \in 1..m : at[j] = at[k] => j - 1 = k - 1
    BY <1>2
  <2>2. QED
    BY <1>1, <2>1
<1>6. at \in [1..m -> I]
  BY <1>2 DEF at
<1>7. Lists(at, m, s, I)
  BY <1>3, <1>4, <1>5, <1>6 DEF Lists
<1>8. QED
  BY <1>1, <1>7
-----------------------------------------------------------------------------
(***************************************************************************)
(* Lists of subscribers.                                                   *)
(***************************************************************************)
LEMMA PickList ==
  ASSUME NEW s \in Seq(Subscribers), Single(s), NEW I \in SUBSET (DOMAIN s),
         NEW t, t = Pick(s, I)
  PROVE  /\ t \in Seq(Subscribers) /\ Single(t) /\ Len(t) <= Len(s)
         /\ \A k \in DOMAIN t : \E i \in I : t[k] = s[i]
         /\ \A i \in I : \E k \in DOMAIN t : t[k] = s[i]
         /\ t = <<>> <=> I = {}
<1>1. Len(s) \in Nat /\ DOMAIN s = 1..Len(s) /\ \A i \in DOMAIN s : s[i] \in Subscribers
  OBVIOUS
<1>2. I \in SUBSET (1..Len(s))
  BY <1>1
<1>. DEFINE m == Cardinality(I)
<1>3. m \in Nat /\ \E at : Lists(at, m, s, I)
  BY <1>1, <1>2, PickPlaces
<1>. HIDE DEF m
<1>4. PICK at : /\ at \in [1..m -> I]
                /\ Pick(s, I) = [k \in 1..m |-> s[at[k]]]
                /\ \A i \in I : \E k \in 1..m : at[k] = i
                /\ \A j, k \in 1..m : at[j] = at[k] => j = k
  BY <1>3 DEF Lists
<1>5. m <= Len(s)
  <2>1. IsFiniteSet(1..Len(s)) /\ Cardinality(1..Len(s)) = Len(s)
    BY <1>1, PlacesCount
  <2>2. Cardinality(I) <= Cardinality(1..Len(s))
    BY <1>2, <2>1, FS_Subset
  <2>3. QED
    BY <2>1, <2>2 DEF m
<1>6. t = [k \in 1..m |-> s[at[k]]] /\ \A k \in 1..m : at[k] \in I /\ s[at[k]] \in Subscribers
  BY <1>1, <1>4
<1>7. t \in Seq(Subscribers) /\ Len(t) = m /\ DOMAIN t = 1..m
  BY <1>3, <1>6
<1>8. Single(t)
  <2>1. SUFFICES ASSUME NEW j \in 1..m, NEW k \in 1..m, t[j].id = t[k].id
                 PROVE  j = k
    BY <1>7 DEF Single
  <2>2. s[at[j]].id = s[at[k]].id
    BY <1>6, <2>1
  <2>3. at[j] = at[k]
    BY <1>6, <2>2 DEF Single
  <2>4. QED
    BY <1>4, <2>3
<1>9. /\ \A k \in DOMAIN t : \E i \in I : t[k] = s[i]
      /\ \A i \in I : \E k \in DOMAIN t : t[k] = s[i]
  BY <1>4, <1>6, <1>7
<1>10. t = <<>> <=> I = {}
  <2>1. t = <<>> <=> Len(t) = 0
    BY <1>7, EmptySeq
  <2>2. t = <<>> <=> DOMAIN t = {}
    BY <1>3, <1>7, <2>1
  <2>3. QED
    BY <1>9, <2>2
<1>11. QED
  BY <1>5, <1>7, <1>8, <1>9, <1>10

LEMMA ActiveList ==
  ASSUME NEW s \in Seq(Subscribers), Single(s), NEW t, t = Active(s)
  PROVE  /\ t \in Seq(Subscribers) /\ Single(t) /\ Len(t) <= Len(s)
         /\ AllActive(t) /\ IdsIn(t) = Wanting(s) /\ Wanting(t) = Wanting(s)
         /\ t = <<>> <=> Wanting(s) = {}
<1>. DEFINE I == {i \in DOMAIN s : ~s[i].inactive}
<1>1. t = Pick(s, I) /\ I \in SUBSET (DOMAIN s)
  BY DEF Active
<1>2. /\ t \in Seq(Subscribers) /\ Single(t) /\ Len(t) <= Len(s)
      /\ \A k \in DOMAIN t : \E i \in I : t[k] = s[i]
      /\ \A i \in I : \E k \in DOMAIN t : t[k] = s[i]
      /\ t = <<>> <=> I = {}
  BY <1>1, PickList
<1>3. AllActive(t)
  BY <1>2 DEF AllActive
<1>4. IdsIn(t) = Wanting(s)
  <2>1. \A k \in DOMAIN t : t[k].id \in Wanting(s)
    BY <1>2 DEF Wanting
  <2>2. \A i \in I : s[i].id \in IdsIn(t)
    BY <1>2 DEF IdsIn
  <2>3. QED
    BY <2>1, <2>2 DEF IdsIn, Wanting
<1>5. Wanting(t) = IdsIn(t)
  BY <1>3 DEF AllActive, IdsIn, Wanting
<1>6. Wanting(s) = {} <=> I = {}
  BY DEF Wanting
<1>7. QED
  BY <1>2, <1>3, <1>4, <1>5, <1>6

LEMMA AddedList ==
  ASSUME NEW s \in Seq(Subscribers), Single(s), NEW id \in Ids, NEW t, t = addSubscriber(s, id)
  PROVE  /\ t \in Seq(Subscribers) /\ Single(t) /\ t # <<>>
         /\ IdsIn(t) = IdsIn(s) \cup {id}
         /\ Wanting(s) \subseteq Wanting(t) /\ Wanting(t) \subseteq Wanting(s) \cup {id}
         /\ AllActive(s) => AllActive(t) /\ id \in Wanting(t)
         /\ s = <<>> => Len(t) = 1
<1>1. CASE id \in IdsIn(s)
  <2>1. t = s
    BY <1>1 DEF addSubscriber
  <2>2. \E i \in DOMAIN s : s[i].id = id
    BY <1>1 DEF IdsIn
  <2>3. s # <<>>
    <3>1. DOMAIN s = 1..Len(s)
      OBVIOUS
    <3>2. QED
      BY <2>2, <3>1
  <2>4. AllActive(s) => id \in Wanting(s)
    BY <2>2 DEF AllActive, Wanting
  <2>5. QED
    BY <1>1, <2>1, <2>3, <2>4
<1>2. CASE id \notin IdsIn(s)
  <2>. DEFINE x == Subscriber(id, FALSE)
  <2>1. x \in Subscribers /\ x.id = id /\ x.inactive = FALSE
    BY DEF Subscriber, Subscribers
  <2>2. t = <<x>> \o s
    BY <1>2 DEF addSubscriber
  <2>. HIDE DEF x
  <2>3. /\ t \in Seq(Subscribers) /\ Len(t) = Len(s) + 1 /\ Len(s) \in Nat
        /\ DOMAIN t = 1..(Len(s) + 1) /\ DOMAIN s = 1..Len(s)
        /\ t[1] = x /\ \A i \in DOMAIN s : t[i + 1] = s[i]
    BY <2>1, <2>2
  <2>4. \A k \in DOMAIN t : k = 1 \/ (k - 1 \in DOMAIN s /\ t[k] = s[k - 1])
    <3>1. ASSUME NEW k \in DOMAIN t, k # 1
          PROVE  k - 1 \in DOMAIN s /\ t[k] = s[k - 1]
      <4>1. k - 1 \in DOMAIN s /\ (k - 1) + 1 = k
        BY <2>3, <3>1
      <4>2. t[(k - 1) + 1] = s[k - 1]
        BY <2>3, <4>1
      <4>3. QED
        BY <4>1, <4>2
    <3>2. QED
      BY <3>1
  <2>5. \A i \in DOMAIN s : s[i].id # id /\ i + 1 \in DOMAIN t
    BY <1>2, <2>3 DEF IdsIn
  <2>6. Single(t)
    <3>1. SUFFICES ASSUME NEW j \in DOMAIN t, NEW k \in DOMAIN t, t[j].id = t[k].id
                   PROVE  j = k
      BY DEF Single
    <3>2. CASE j = 1 /\ k # 1
      BY <2>1, <2>3, <2>4, <2>5, <3>1, <3>2
    <3>3. CASE j # 1 /\ k = 1
      BY <2>1, <2>3, <2>4, <2>5, <3>1, <3>3
    <3>4. CASE j # 1 /\ k # 1
      <4>1. j - 1 = k - 1
        BY <2>4, <3>1, <3>4 DEF Single
      <4>2. QED
        BY <2>3, <4>1
    <3>5. QED
      BY <3>2, <3>3, <3>4
  <2>7. 1 \in DOMAIN t
    BY <2>3
  <2>8. IdsIn(t) = IdsIn(s) \cup {id}
    <3>1. IdsIn(t) \subseteq IdsIn(s) \cup {id}
      BY <2>1, <2>3, <2>4 DEF IdsIn
    <3>2. id \in IdsIn(t)
      BY <2>1, <2>3, <2>7 DEF IdsIn
    <3>3. IdsIn(s) \subseteq IdsIn(t)
      BY <2>3, <2>5 DEF IdsIn
    <3>4. QED
      BY <3>1, <3>2, <3>3
  <2>9. Wanting(s) \subseteq Wanting(t)
    BY <2>3, <2>5 DEF Wanting
  <2>10. Wanting(t) \subseteq Wanting(s) \cup {id}
    BY <2>1, <2>3, <2>4 DEF Wanting
  <2>11. id \in Wanting(t)
    BY <2>1, <2>3, <2>7 DEF Wanting
  <2>12. AllActive(s) => AllActive(t)
    BY <2>1, <2>3, <2>4 DEF AllActive
  <2>13. t # <<>> /\ (s = <<>> => Len(t) = 1)
    BY <2>3, <2>7
  <2>14. QED
    BY <2>3, <2>6, <2>8, <2>9, <2>10, <2>11, <2>12, <2>13
<1>3. QED
  BY <1>1, <1>2

LEMMA LeftList ==
  ASSUME NEW n \in Nifs, NEW s, s = subs[n], s \in Seq(Subscribers), Single(s),
         NEW id \in Ids, NEW t, t = Left(n, id)
  PROVE  /\ t \in Seq(Subscribers) /\ Single(t) /\ Len(t) <= Len(s)
         /\ Wanting(t) = Wanting(s) \ {id} /\ IdsIn(t) \subseteq IdsIn(s)
         /\ IdsIn(s) \ {id} \subseteq IdsIn(t)
         /\ AllActive(s) /\ ~WaitForClose(n) => AllActive(t)
         /\ id \in IdsIn(s) /\ WaitForClose(n) => t # <<>>
         /\ WaitForClose(n) => IdsIn(t) = IdsIn(s)
<1>1. CASE WaitForClose(n)
  <2>1. t = [i \in DOMAIN s |-> IF s[i].id = id THEN Subscriber(id, TRUE) ELSE s[i]]
    BY <1>1 DEF Left
  <2>2. \A i \in DOMAIN s : s[i] \in Subscribers
    OBVIOUS
  <2>3. Subscriber(id, TRUE) \in Subscribers
        /\ Subscriber(id, TRUE).id = id /\ Subscriber(id, TRUE).inactive = TRUE
    BY DEF Subscriber, Subscribers
  <2>4. DOMAIN s = 1..Len(s) /\ Len(s) \in Nat
    OBVIOUS
  <2>5. t \in Seq(Subscribers) /\ DOMAIN t = DOMAIN s /\ Len(t) = Len(s)
    <3>1. t \in [1..Len(s) -> Subscribers]
      BY <2>1, <2>2, <2>3, <2>4
    <3>2. QED
      BY <2>4, <3>1
  <2>6. \A i \in DOMAIN s :
          /\ t[i].id = s[i].id
          /\ s[i].id = id => t[i].inactive = TRUE
          /\ s[i].id # id => t[i] = s[i]
    BY <2>1, <2>3
  <2>7. Single(t)
    BY <2>5, <2>6 DEF Single
  <2>8. Wanting(t) = Wanting(s) \ {id}
    BY <2>5, <2>6 DEF Wanting
  <2>9. IdsIn(t) = IdsIn(s)
    BY <2>5, <2>6 DEF IdsIn
  <2>10. id \in IdsIn(s) => t # <<>>
    <3>1. id \in IdsIn(s) => DOMAIN t # {}
      BY <2>5 DEF IdsIn
    <3>2. QED
      BY <3>1
  <2>11. QED
    BY <1>1, <2>4, <2>5, <2>7, <2>8, <2>9, <2>10
<1>2. CASE ~WaitForClose(n)
  <2>. DEFINE I == {i \in DOMAIN s : s[i].id # id}
  <2>1. t = Pick(s, I) /\ I \in SUBSET (DOMAIN s)
    BY <1>2 DEF Left
  <2>. HIDE DEF I
  <2>2. /\ t \in Seq(Subscribers) /\ Single(t) /\ Len(t) <= Len(s)
        /\ \A k \in DOMAIN t : \E i \in I : t[k] = s[i]
        /\ \A i \in I : \E k \in DOMAIN t : t[k] = s[i]
    BY ONLY <2>1, s \in Seq(Subscribers), Single(s), PickList
  <2>3. Wanting(t) = Wanting(s) \ {id}
    BY <2>2 DEF I, Wanting
  <2>4. IdsIn(t) \subseteq IdsIn(s) /\ IdsIn(s) \ {id} \subseteq IdsIn(t)
    BY <2>2 DEF I, IdsIn
  <2>5. AllActive(s) => AllActive(t)
    BY <2>1, <2>2 DEF AllActive
  <2>6. QED
    BY <1>2, <2>2, <2>3, <2>4, <2>5
<1>3. QED
  BY <1>1, <1>2
-----------------------------------------------------------------------------
(***************************************************************************)
(* What a handler posts, asks and tells.                                   *)
(***************************************************************************)
QueueTyped == msgs \in Seq(Messages)
RequestsTyped == requests \in [Nifs -> Seq({"request", "release"})]
RetriesTyped == mRetries \in 0..MaxRetries /\ timers \in Nat
ClientTyped == client \in [Ids -> {"idle", "asked", "open", "closing"}]
KeptTyped ==
  /\ service \in Services /\ conn \in [Nifs -> {"closed", "opening", "open"}]
  /\ asks \in 0..MaxAsks /\ losses \in 0..MaxLosses /\ restarts \in 0..MaxRestarts
MachineTyped == state \in [Nifs -> States] /\ subs \in [Nifs -> Seq(Subscribers)]

LEMMA TypesParts ==
  Types <=> /\ QueueTyped /\ RequestsTyped /\ RetriesTyped /\ ClientTyped /\ KeptTyped
            /\ MachineTyped /\ dropped \subseteq Nifs
BY DEF Types, QueueTyped, RequestsTyped, RetriesTyped, ClientTyped, KeptTyped, MachineTyped

LEMMA TypesPartsNext ==
  Types' <=> /\ QueueTyped' /\ RequestsTyped' /\ RetriesTyped' /\ ClientTyped' /\ KeptTyped'
             /\ MachineTyped' /\ (dropped \subseteq Nifs)'
BY DEF Types, QueueTyped, RequestsTyped, RetriesTyped, ClientTyped, KeptTyped, MachineTyped

LEMMA PostTyped ==
  ASSUME QueueTyped, msgs # <<>>, NEW more \in Seq(Messages), Post(more)
  PROVE  QueueTyped'
<1>1. Tail(msgs) \in Seq(Messages)
  BY DEF QueueTyped
<1>2. QED
  BY <1>1 DEF QueueTyped, Post

LEMMA PostNothing ==
  ASSUME QueueTyped, msgs # <<>>, Post(<<>>)
  PROVE  QueueTyped' /\ msgs' = Tail(msgs)
<1>1. Tail(msgs) \in Seq(Messages)
  BY DEF QueueTyped
<1>2. msgs' = Tail(msgs)
  BY <1>1, ConcatEmptySeq DEF Post
<1>3. QED
  BY <1>1, <1>2 DEF QueueTyped

LEMMA AppendTyped ==
  ASSUME QueueTyped, NEW m \in Messages, msgs' = Append(msgs, m)
  PROVE  QueueTyped'
BY DEF QueueTyped

LEMMA FallBackTyped ==
  ASSUME NEW s \in Seq(Subscribers)
  PROVE  /\ FallBack(s) \in Seq(Messages) /\ DOMAIN FallBack(s) = DOMAIN s
         /\ \A i \in DOMAIN s : FallBack(s)[i] = Message("RequestATL", s[i].id)
<1>1. DOMAIN s = 1..Len(s) /\ Len(s) \in Nat /\ \A i \in DOMAIN s : s[i] \in Subscribers
  OBVIOUS
<1>2. \A i \in DOMAIN s : Message("RequestATL", s[i].id) \in Messages
  BY <1>1 DEF Message, Messages, Subscribers, Ours
<1>3. FallBack(s) \in [1..Len(s) -> Messages]
  BY <1>1, <1>2 DEF FallBack
<1>4. QED
  BY <1>1, <1>3 DEF FallBack

LEMMA AskTyped ==
  ASSUME RequestsTyped, NEW n \in Nifs, NEW a \in {"request", "release"}, Ask(n, a)
  PROVE  RequestsTyped'
<1>1. Append(requests[n], a) \in Seq({"request", "release"})
  BY DEF RequestsTyped
<1>2. QED
  BY <1>1 DEF RequestsTyped, Ask

LEMMA ToldTyped ==
  ASSUME ClientTyped, NEW ids, NEW what
  PROVE  Told(ids, what) \in [Ids -> {"idle", "asked", "open", "closing"}]
<1>1. \A c \in {"idle", "asked", "open", "closing"} :
        Heard(c, what) \in {"idle", "asked", "open", "closing"}
  BY DEF Heard
<1>2. QED
  BY <1>1 DEF Told, ClientTyped

LEMMA KeepTyped ==
  ASSUME KeptTyped, Keep
  PROVE  KeptTyped'
BY DEF KeptTyped, Keep, counters

\* the first active subscriber, when there is one
LEMMA FirstActive ==
  ASSUME NEW s \in Seq(Subscribers), Single(s), Wanting(s) # {}
  PROVE  /\ Active(s) # <<>> /\ Active(s)[1] \in Subscribers
         /\ SubSeq(Active(s), 1, 1) \in Seq(Subscribers)
<1>1. Active(s) \in Seq(Subscribers) /\ Active(s) # <<>>
  BY ActiveList
<1>2. 1 \in 1..Len(Active(s)) /\ Len(Active(s)) \in Nat
  BY <1>1, EmptySeq
<1>3. Active(s)[1] \in Subscribers
  BY <1>1, <1>2
<1>4. SubSeq(Active(s), 1, 1) \in Seq(Subscribers)
  BY <1>1, <1>2, SubSeqProperties
<1>5. QED
  BY <1>1, <1>3, <1>4

LEMMA DsRequestTyped ==
  ASSUME QueueTyped, msgs # <<>>, RequestsTyped, RetriesTyped,
         NEW s \in Seq(Subscribers), Single(s), Wanting(s) # {},
         NEW outcome \in Outcomes, DsRequest(s, outcome)
  PROVE  QueueTyped' /\ RequestsTyped' /\ RetriesTyped'
<1>. DEFINE handle == SubSeq(Active(s), 1, 1)
            more == mRetries + 1
<1>1. CASE outcome = "SUCCESS"
  <2>1. Ask("ds", "request") /\ Post(<<>>) /\ UNCHANGED <<mRetries, timers>>
    BY <1>1 DEF DsRequest
  <2>2. QED
    BY <2>1, AskTyped, PostNothing DEF Nifs, RetriesTyped
<1>2. CASE outcome = "BUSY" /\ more <= MaxRetries
  <2>1. mRetries' = more /\ timers' = timers + 1 /\ Post(<<>>) /\ UNCHANGED requests
    BY <1>2 DEF DsRequest
  <2>2. RetriesTyped'
    BY <1>2, <2>1, Bounds DEF Bounds, RetriesTyped
  <2>3. QED
    BY <2>1, <2>2, PostNothing DEF RequestsTyped
<1>3. CASE outcome # "SUCCESS" /\ ~(outcome = "BUSY" /\ more <= MaxRetries)
  <2>1. mRetries' = 0 /\ Post(FallBack(handle)) /\ UNCHANGED <<requests, timers>>
    BY <1>3 DEF DsRequest
  <2>2. handle \in Seq(Subscribers)
    BY FirstActive
  <2>3. FallBack(handle) \in Seq(Messages)
    BY <2>2, FallBackTyped
  <2>4. RetriesTyped'
    BY <2>1, Bounds DEF Bounds, RetriesTyped
  <2>5. QED
    BY <2>1, <2>3, <2>4, PostTyped DEF RequestsTyped
<1>4. QED
  BY <1>1, <1>2, <1>3

\* one machine and its list change
LEMMA MachineStep ==
  ASSUME ListInv, MachineTyped, dropped \subseteq Nifs,
         NEW n \in Nifs, NEW st \in States, NEW s \in Seq(Subscribers),
         state' = [state EXCEPT ![n] = st], subs' = [subs EXCEPT ![n] = s],
         dropped' \in SUBSET Nifs, dropped' \ {n} = dropped \ {n},
         ListFits(n, st, s, n \in dropped')
  PROVE  ListInv' /\ MachineTyped'
<1>1. MachineTyped'
  BY DEF MachineTyped
<1>2. ASSUME NEW m \in Nifs PROVE ListFits(m, state'[m], subs'[m], m \in dropped')
  <2>1. CASE m = n
    BY <2>1 DEF MachineTyped
  <2>2. CASE m # n
    <3>1. state'[m] = state[m] /\ subs'[m] = subs[m] /\ (m \in dropped' <=> m \in dropped)
      BY <2>2 DEF MachineTyped
    <3>2. ListFits(m, state[m], subs[m], m \in dropped)
      BY DEF ListInv
    <3>3. QED
      BY <3>1, <3>2 DEF ListFits
  <2>3. QED
    BY <2>1, <2>2
<1>3. QED
  BY <1>1, <1>2 DEF ListInv

LEMMA MachineKept ==
  ASSUME ListInv, MachineTyped, UNCHANGED <<state, subs, dropped>>
  PROVE  ListInv' /\ MachineTyped'
BY DEF ListInv, MachineTyped
-----------------------------------------------------------------------------
(***************************************************************************)
(* The lists stay fit, one lemma for each handler.                         *)
(***************************************************************************)
LEMMA ListParts ==
  ASSUME LInv
  PROVE  /\ ListInv /\ QueueTyped /\ RequestsTyped /\ RetriesTyped /\ ClientTyped
         /\ KeptTyped /\ MachineTyped /\ dropped \subseteq Nifs
BY TypesParts DEF LInv

LEMMA ListOf ==
  ASSUME LInv, NEW n \in Nifs
  PROVE  /\ subs[n] \in Seq(Subscribers) /\ state[n] \in States /\ Single(subs[n])
         /\ ListFits(n, state[n], subs[n], n \in dropped)
BY ListParts DEF ListInv, MachineTyped, ListFits

\* what the other external processes leave alone
LEMMA MachineUntouched ==
  ASSUME LInv, UNCHANGED <<machine, dropped>>, QueueTyped', RequestsTyped', ClientTyped',
         KeptTyped'
  PROVE  LInv'
<1>1. UNCHANGED <<state, subs, dropped>> /\ UNCHANGED <<mRetries, timers>>
  BY DEF machine
<1>2. RetriesTyped' /\ (dropped \subseteq Nifs)'
  BY <1>1, ListParts DEF RetriesTyped
<1>3. ListInv' /\ MachineTyped'
  BY <1>1, ListParts, MachineKept
<1>4. QED
  BY <1>2, <1>3, TypesPartsNext DEF LInv

LEMMA SubscribeRefusedLists ==
  ASSUME LInv, NEW n \in Nifs, NEW id \in Ids, SubscribeRefused(n, id)
  PROVE  LInv'
<1>1. /\ msgs # <<>> /\ client' = Told({id}, "denied") /\ Post(<<>>)
      /\ UNCHANGED <<machine, requests, dropped>> /\ Keep
  BY DEF SubscribeRefused, Subscribing, Take
<1>2. QueueTyped' /\ KeptTyped' /\ ClientTyped'
  BY <1>1, ListParts, PostNothing, KeepTyped, ToldTyped DEF ClientTyped
<1>3. RequestsTyped'
  BY <1>1, ListParts DEF RequestsTyped
<1>4. QED
  BY <1>1, <1>2, <1>3, MachineUntouched

LEMMA SubscribeReleasedLists ==
  ASSUME LInv, NEW n \in Nifs, NEW id \in Ids, SubscribeReleased(n, id)
  PROVE  LInv'
<1>. DEFINE s == addSubscriber(subs[n], id)
<1>1. /\ msgs # <<>> /\ state[n] = "Released" /\ n # "ds"
      /\ subs' = [subs EXCEPT ![n] = s] /\ SendRequest(n, subs'[n])
      /\ state' = [state EXCEPT ![n] = "Pending"] /\ dropped' = dropped \ {n}
      /\ Post(<<>>) /\ UNCHANGED <<mRetries, timers, client>> /\ Keep
  BY DEF SubscribeReleased, Subscribing, Take
<1>2. subs[n] = <<>> /\ AllActive(subs[n])
  BY <1>1, ListOf DEF ListFits
<1>3. s \in Seq(Subscribers) /\ Single(s) /\ AllActive(s) /\ id \in Wanting(s) /\ Len(s) = 1
  BY <1>2, ListOf, AddedList
<1>4. ListFits(n, "Pending", s, n \in dropped')
  BY <1>1, <1>3 DEF ListFits
<1>5. ListInv' /\ MachineTyped'
  <2>1. dropped' \in SUBSET Nifs /\ dropped' \ {n} = dropped \ {n}
    BY <1>1, ListParts
  <2>. HIDE DEF s
  <2>2. QED
    BY <1>1, <1>3, <1>4, <2>1, ListParts, MachineStep DEF States
<1>6. RequestsTyped'
  <2>1. Ask(n, "request") \/ UNCHANGED requests
    BY <1>1 DEF SendRequest
  <2>2. QED
    BY <2>1, ListParts, AskTyped DEF RequestsTyped
<1>7. QueueTyped' /\ KeptTyped' /\ ClientTyped' /\ RetriesTyped' /\ (dropped \subseteq Nifs)'
  BY <1>1, ListParts, PostNothing, KeepTyped DEF ClientTyped, RetriesTyped
<1>8. QED
  BY <1>5, <1>6, <1>7, TypesPartsNext DEF LInv

LEMMA SubscribeDsLists ==
  ASSUME LInv, NEW id \in Ids, SubscribeDs(id)
  PROVE  LInv'
<1>. DEFINE s == addSubscriber(subs["ds"], id)
<1>1. /\ msgs # <<>> /\ state["ds"] = "Released" /\ subs' = [subs EXCEPT !["ds"] = s]
      /\ UNCHANGED <<client, dropped>> /\ Keep
  BY DEF SubscribeDs, Subscribing, Take
<1>2. PICK outcome \in Outcomes :
        /\ DsRequest(subs'["ds"], outcome)
        /\ state' = [state EXCEPT !["ds"] = IF outcome = "SUCCESS" THEN "Pending" ELSE @]
  BY DEF SubscribeDs
<1>3. "ds" \in Nifs
  BY DEF Nifs
<1>4. AllActive(subs["ds"])
  BY <1>1, <1>3, ListOf DEF ListFits
<1>5. s \in Seq(Subscribers) /\ Single(s) /\ AllActive(s) /\ id \in Wanting(s)
  BY <1>3, <1>4, ListOf, AddedList
<1>6. subs'["ds"] = s
  BY <1>1, <1>3, ListParts DEF MachineTyped
<1>. HIDE DEF s
<1>7. QueueTyped' /\ RequestsTyped' /\ RetriesTyped'
  BY <1>1, <1>2, <1>5, <1>6, ListParts, DsRequestTyped
<1>8. PICK st \in {"Released", "Pending"} : state' = [state EXCEPT !["ds"] = st]
  BY <1>1, <1>2
<1>9. ListFits("ds", st, s, "ds" \in dropped')
  BY <1>1, <1>3, <1>5, ListOf DEF ListFits, EnforceSingle
<1>10. ListInv' /\ MachineTyped'
  <2>1. dropped' \in SUBSET Nifs /\ dropped' \ {"ds"} = dropped \ {"ds"}
    BY <1>1, ListParts
  <2>2. QED
    BY <1>1, <1>3, <1>5, <1>8, <1>9, <2>1, ListParts, MachineStep DEF States
<1>11. KeptTyped' /\ ClientTyped' /\ (dropped \subseteq Nifs)'
  BY <1>1, ListParts, KeepTyped DEF ClientTyped
<1>12. QED
  BY <1>7, <1>10, <1>11, TypesPartsNext DEF LInv

\* a subscriber joins a machine that keeps its state
LEMMA JoinLists ==
  ASSUME LInv, NEW n \in Nifs, NEW id \in Ids, msgs # <<>>,
         state[n] # "Released", ~EnforceSingle(n),
         subs' = [subs EXCEPT ![n] = addSubscriber(@, id)], dropped' = dropped \ {n},
         Post(<<>>), UNCHANGED <<state, mRetries, timers, requests>>, ClientTyped', Keep
  PROVE  LInv'
<1>. DEFINE s == addSubscriber(subs[n], id)
<1>1. /\ s \in Seq(Subscribers) /\ Single(s) /\ IdsIn(s) = IdsIn(subs[n]) \cup {id}
      /\ Wanting(subs[n]) \subseteq Wanting(s) /\ Wanting(s) \subseteq Wanting(subs[n]) \cup {id}
      /\ AllActive(subs[n]) => AllActive(s) /\ id \in Wanting(s)
  BY ListOf, AddedList
<1>2. n \in {"agnss", "ds"}
  BY DEF Nifs, EnforceSingle
<1>3. ListFits(n, state[n], subs[n], n \in dropped)
  BY ListOf
<1>. HIDE DEF s
<1>4. state[n] \in {"Pending", "Acquired"} => Wanting(s) # {}
  <2>1. CASE n = "agnss"
    BY <1>1, <1>3, <2>1 DEF ListFits
  <2>2. CASE n = "ds"
    BY <1>1, <1>3, <2>2 DEF ListFits
  <2>3. QED
    BY <1>2, <2>1, <2>2
<1>5. ListFits(n, state[n], s, n \in dropped')
  BY <1>1, <1>2, <1>3, <1>4 DEF ListFits
<1>6. ListInv' /\ MachineTyped'
  <2>1. dropped' \in SUBSET Nifs /\ dropped' \ {n} = dropped \ {n}
    BY ListParts
  <2>2. state' = [state EXCEPT ![n] = state[n]] /\ state[n] \in States
    BY ListParts DEF MachineTyped
  <2>3. subs' = [subs EXCEPT ![n] = s]
    BY DEF s
  <2>4. QED
    BY <1>1, <1>5, <2>1, <2>2, <2>3, ListParts, MachineStep
<1>7. QueueTyped' /\ KeptTyped' /\ RequestsTyped' /\ RetriesTyped' /\ (dropped \subseteq Nifs)'
  BY ListParts, PostNothing, KeepTyped DEF RequestsTyped, RetriesTyped
<1>8. QED
  BY <1>6, <1>7, TypesPartsNext DEF LInv
LEMMA SubscribeWaitingLists ==
  ASSUME LInv, NEW n \in Nifs, NEW id \in Ids, SubscribeWaiting(n, id)
  PROVE  LInv'
<1>1. /\ msgs # <<>> /\ state[n] # "Released" /\ ~EnforceSingle(n)
      /\ subs' = [subs EXCEPT ![n] = addSubscriber(@, id)] /\ dropped' = dropped \ {n}
      /\ Post(<<>>) /\ UNCHANGED <<state, mRetries, timers, requests>> /\ UNCHANGED client /\ Keep
  BY DEF SubscribeWaiting, Subscribing, Take
<1>2. ClientTyped'
  BY <1>1, ListParts DEF ClientTyped
<1>3. QED
  BY <1>1, <1>2, JoinLists

LEMMA SubscribeAcquiredLists ==
  ASSUME LInv, NEW n \in Nifs, NEW id \in Ids, SubscribeAcquired(n, id)
  PROVE  LInv'
<1>1. /\ msgs # <<>> /\ state[n] # "Released" /\ ~EnforceSingle(n)
      /\ subs' = [subs EXCEPT ![n] = addSubscriber(@, id)] /\ dropped' = dropped \ {n}
      /\ Post(<<>>) /\ UNCHANGED <<state, mRetries, timers, requests>>
      /\ client' = Told({id}, "granted") /\ Keep
  BY DEF SubscribeAcquired, Subscribing, Take
<1>2. ClientTyped'
  BY <1>1, ListParts, ToldTyped DEF ClientTyped
<1>3. QED
  BY <1>1, <1>2, JoinLists

LEMMA NotSubscribedLists ==
  ASSUME LInv, NotSubscribed
  PROVE  LInv'
<1>1. /\ msgs # <<>> /\ Post(<<>>) /\ UNCHANGED <<machine, requests, dropped>> /\ Keep
      /\ client' = Told({First.who}, "closed") \/ UNCHANGED client
  BY DEF NotSubscribed, Take
<1>2. QueueTyped' /\ KeptTyped' /\ ClientTyped' /\ RequestsTyped'
  BY <1>1, ListParts, PostNothing, KeepTyped, ToldTyped DEF ClientTyped, RequestsTyped
<1>3. QED
  BY <1>1, <1>2, MachineUntouched

LEMMA UnsubscribeReleasedLists ==
  ASSUME LInv, NEW n \in Nifs, NEW id \in Ids, UnsubscribeReleased(n, id)
  PROVE  LInv'
<1>1. /\ msgs # <<>> /\ Post(<<>>) /\ UNCHANGED <<machine, requests, dropped>> /\ Keep
      /\ client' = Told({id}, "closed")
  BY DEF UnsubscribeReleased, Unsubscribing, Take
<1>2. QueueTyped' /\ KeptTyped' /\ ClientTyped' /\ RequestsTyped'
  BY <1>1, ListParts, PostNothing, KeepTyped, ToldTyped DEF ClientTyped, RequestsTyped
<1>3. QED
  BY <1>1, <1>2, MachineUntouched

\* the state after a subscriber has left the list s of n behind it
AfterLeave(n, s) ==
  IF s = <<>> THEN "Released"
  ELSE IF state[n] # "Releasing" /\ Wanting(s) = {} THEN "Releasing" ELSE state[n]

LEMMA LeaveIs ==
  ASSUME LInv, NEW n \in Nifs, NEW id \in Ids, Unsubscribe(n, id), NEW s, s = Left(n, id)
  PROVE  /\ msgs # <<>> /\ id \in IdsIn(subs[n]) /\ state[n] # "Released"
         /\ subs' = [subs EXCEPT ![n] = s]
         /\ state' = [state EXCEPT ![n] = AfterLeave(n, s)]
         /\ IF state[n] # "Releasing" /\ Wanting(s) = {}
            THEN Ask(n, "release") ELSE UNCHANGED requests
         /\ client' = IF n = "wifi" THEN client ELSE Told({id}, "closed")
         /\ Post(<<>>) /\ UNCHANGED <<mRetries, timers, dropped>> /\ Keep
<1>1. s \in Seq(Subscribers) /\ Single(s)
  BY ListOf, LeftList
<1>2. Active(s) = <<>> <=> Wanting(s) = {}
  BY <1>1, ActiveList
<1>3. /\ msgs # <<>> /\ id \in IdsIn(subs[n]) /\ state[n] # "Released"
      /\ subs' = [subs EXCEPT ![n] = s]
      /\ state' = [state EXCEPT ![n] =
                     CASE subs'[n] = <<>> -> "Released"
                       [] subs'[n] # <<>> /\ (state[n] # "Releasing" /\ Active(s) = <<>>) ->
                            "Releasing"
                       [] OTHER -> @]
      /\ IF state[n] # "Releasing" /\ Active(s) = <<>>
         THEN Ask(n, "release") ELSE UNCHANGED requests
      /\ client' = IF n = "wifi" THEN client ELSE Told({id}, "closed")
      /\ Post(<<>>) /\ UNCHANGED <<mRetries, timers, dropped>> /\ Keep
  BY DEF Unsubscribe, Leave, Unsubscribing, Take
<1>4. subs'[n] = s
  BY <1>3, ListParts DEF MachineTyped
<1>5. state' = [state EXCEPT ![n] = AfterLeave(n, s)]
  BY <1>2, <1>3, <1>4 DEF AfterLeave
<1>6. QED
  BY <1>2, <1>3, <1>5

LEMMA UnsubscribeLists ==
  ASSUME LInv, NEW n \in Nifs, NEW id \in Ids, Unsubscribe(n, id)
  PROVE  LInv'
<1>. DEFINE s == Left(n, id)
            st == AfterLeave(n, s)
<1>1. /\ s \in Seq(Subscribers) /\ Single(s) /\ Len(s) <= Len(subs[n])
      /\ Wanting(s) = Wanting(subs[n]) \ {id}
      /\ AllActive(subs[n]) /\ ~WaitForClose(n) => AllActive(s)
  BY ListOf, LeftList
<1>2. /\ msgs # <<>> /\ state[n] # "Released"
      /\ subs' = [subs EXCEPT ![n] = s] /\ state' = [state EXCEPT ![n] = st]
      /\ Ask(n, "release") \/ UNCHANGED requests
      /\ client' = IF n = "wifi" THEN client ELSE Told({id}, "closed")
      /\ Post(<<>>) /\ UNCHANGED <<mRetries, timers, dropped>> /\ Keep
  BY LeaveIs
<1>3. ListFits(n, state[n], subs[n], n \in dropped) /\ state[n] \in States
      /\ subs[n] \in Seq(Subscribers)
  BY ListOf
<1>4. Len(s) \in Nat /\ Len(subs[n]) \in Nat
  BY <1>1, <1>3
<1>. HIDE DEF s
<1>5. ListFits(n, st, s, n \in dropped')
  <2>1. /\ Single(s)
        /\ n \in dropped' => n = "agnss"
        /\ EnforceSingle(n) => Len(s) <= 1
    BY <1>1, <1>2, <1>3, <1>4 DEF ListFits
  <2>2. st \in {"Pending", "Acquired"} => Wanting(s) # {}
    BY DEF AfterLeave
  <2>3. st = "Released" => s = <<>>
    BY <1>2 DEF AfterLeave
  <2>4. s = <<>> => AllActive(s)
    BY DEF AllActive
  <2>5. n = "agnss" => AllActive(s)
    BY <1>1, <1>3 DEF ListFits, WaitForClose
  <2>6. st = "Releasing" /\ n = "wifi" => Wanting(s) = {}
    BY <1>1, <1>3 DEF AfterLeave, ListFits
  <2>7. QED
    BY <2>1, <2>2, <2>3, <2>4, <2>5, <2>6 DEF ListFits
<1>6. ListInv' /\ MachineTyped'
  <2>1. dropped' \in SUBSET Nifs /\ dropped' \ {n} = dropped \ {n}
    BY <1>2, ListParts
  <2>2. st \in States
    BY <1>3 DEF AfterLeave, States
  <2>. HIDE DEF st
  <2>3. QED
    BY <1>1, <1>2, <1>5, <2>1, <2>2, ListParts, MachineStep
<1>7. RequestsTyped'
  BY <1>2, ListParts, AskTyped DEF RequestsTyped
<1>8. ClientTyped'
  BY <1>2, ListParts, ToldTyped DEF ClientTyped
<1>9. QueueTyped' /\ KeptTyped' /\ RetriesTyped' /\ (dropped \subseteq Nifs)'
  BY <1>2, ListParts, PostNothing, KeepTyped DEF RetriesTyped
<1>10. QED
  BY <1>6, <1>7, <1>8, <1>9, TypesPartsNext DEF LInv

LEMMA GrantedLists ==
  ASSUME LInv, NEW n \in Nifs, Granted(n)
  PROVE  LInv'
<1>1. /\ msgs # <<>> /\ Post(<<>>) /\ Keep
      /\ UNCHANGED <<subs, mRetries, timers, requests, dropped>>
      /\ \/ /\ state[n] = "Pending" /\ state' = [state EXCEPT ![n] = "Acquired"]
            /\ client' = Told(IdsIn(Active(subs[n])), "granted")
         \/ UNCHANGED <<state, client>>
  BY DEF Granted, Take
<1>2. ListInv' /\ MachineTyped'
  <2>1. CASE UNCHANGED state
    BY <1>1, <2>1, ListParts, MachineKept
  <2>2. CASE state[n] = "Pending" /\ state' = [state EXCEPT ![n] = "Acquired"]
    <3>1. ListFits(n, "Acquired", subs[n], n \in dropped')
      BY <1>1, <2>2, ListOf DEF ListFits
    <3>2. subs' = [subs EXCEPT ![n] = subs[n]] /\ subs[n] \in Seq(Subscribers)
      BY <1>1, ListParts DEF MachineTyped
    <3>3. dropped' \in SUBSET Nifs /\ dropped' \ {n} = dropped \ {n}
      BY <1>1, ListParts
    <3>4. QED
      BY <2>2, <3>1, <3>2, <3>3, ListParts, MachineStep DEF States
  <2>3. QED
    BY <1>1, <2>1, <2>2
<1>3. ClientTyped'
  BY <1>1, ListParts, ToldTyped DEF ClientTyped
<1>4. /\ QueueTyped' /\ KeptTyped' /\ RetriesTyped' /\ RequestsTyped'
      /\ (dropped \subseteq Nifs)'
  BY <1>1, ListParts, PostNothing, KeepTyped DEF RetriesTyped, RequestsTyped
<1>5. QED
  BY <1>2, <1>3, <1>4, TypesPartsNext DEF LInv

\* a machine that is left Released and empty
LEMMA EmptiedLists ==
  ASSUME LInv, NEW n \in Nifs,
         state' = [state EXCEPT ![n] = "Released"], subs' = [subs EXCEPT ![n] = <<>>],
         dropped' = dropped \ {n}, QueueTyped', RequestsTyped', RetriesTyped', ClientTyped',
         KeptTyped'
  PROVE  LInv'
<1>1. <<>> \in Seq(Subscribers) /\ Single(<<>>) /\ AllActive(<<>>) /\ Len(<<>>) = 0
  BY DEF Single, AllActive
<1>2. ListFits(n, "Released", <<>>, n \in dropped')
  BY <1>1 DEF ListFits
<1>3. dropped' \in SUBSET Nifs /\ dropped' \ {n} = dropped \ {n}
  BY ListParts
<1>4. ListInv' /\ MachineTyped'
  BY <1>1, <1>2, <1>3, ListParts, MachineStep DEF States
<1>5. QED
  BY <1>3, <1>4, TypesPartsNext DEF LInv

LEMMA ReleasedAcquiredLists ==
  ASSUME LInv, NEW n \in Nifs, ReleasedAcquired(n)
  PROVE  LInv'
<1>1. /\ msgs # <<>> /\ Post(<<>>) /\ Keep /\ UNCHANGED <<mRetries, timers, requests>>
      /\ state' = [state EXCEPT ![n] = "Released"] /\ subs' = [subs EXCEPT ![n] = <<>>]
      /\ client' = (IF n = "ds" THEN client ELSE Told(IdsIn(subs[n]), "closed"))
      /\ dropped' = dropped \ {n}
  BY DEF ReleasedAcquired, Take
<1>2. ClientTyped'
  BY <1>1, ListParts, ToldTyped DEF ClientTyped
<1>3. QueueTyped' /\ KeptTyped' /\ RetriesTyped' /\ RequestsTyped'
  BY <1>1, ListParts, PostNothing, KeepTyped DEF RetriesTyped, RequestsTyped
<1>4. QED
  BY <1>1, <1>2, <1>3, EmptiedLists

LEMMA DeniedPendingLists ==
  ASSUME LInv, NEW n \in Nifs, DeniedPending(n)
  PROVE  LInv'
<1>1. /\ msgs # <<>> /\ Keep /\ UNCHANGED <<timers, requests>>
      /\ state' = [state EXCEPT ![n] = "Released"] /\ subs' = [subs EXCEPT ![n] = <<>>]
      /\ dropped' = dropped \ {n}
      /\ \/ mRetries' = 0 /\ Post(FallBack(subs[n])) /\ UNCHANGED client
         \/ Post(<<>>) /\ client' = Told(IdsIn(subs[n]), "denied") /\ UNCHANGED mRetries
  BY DEF DeniedPending, Take
<1>2. ClientTyped'
  BY <1>1, ListParts, ToldTyped DEF ClientTyped
<1>3. RetriesTyped'
  BY <1>1, ListParts, Bounds DEF Bounds, RetriesTyped
<1>4. QueueTyped'
  BY <1>1, ListOf, ListParts, FallBackTyped, PostTyped, PostNothing
<1>5. KeptTyped' /\ RequestsTyped'
  BY <1>1, ListParts, KeepTyped DEF RequestsTyped
<1>6. QED
  BY <1>1, <1>2, <1>3, <1>4, <1>5, EmptiedLists

LEMMA UnexpectedEventLists ==
  ASSUME LInv, NEW n \in Nifs, UnexpectedEvent(n)
  PROVE  LInv'
<1>1. /\ msgs # <<>> /\ Post(<<>>) /\ UNCHANGED <<machine, requests, client, dropped>> /\ Keep
  BY DEF UnexpectedEvent, Take
<1>2. QueueTyped' /\ KeptTyped' /\ ClientTyped' /\ RequestsTyped'
  BY <1>1, ListParts, PostNothing, KeepTyped DEF ClientTyped, RequestsTyped
<1>3. QED
  BY <1>1, <1>2, MachineUntouched
\* the rest of ReleasedReleasing for an emergency call, and for the others
AskedAgain(n, s) ==
  IF s = <<>>
  THEN Post(<<>>) /\ UNCHANGED <<mRetries, timers, requests>>
  ELSE \/ n = "ds" /\ \E outcome \in Outcomes : DsRequest(s, outcome)
       \/ n # "ds" /\ Ask(n, "request") /\ Post(<<>>) /\ UNCHANGED <<mRetries, timers>>

LEMMA ReleasingIs ==
  ASSUME NEW n, ReleasedReleasing(n), NEW s, s = Active(subs[n])
  PROVE  /\ msgs # <<>> /\ state[n] = "Releasing" /\ First.who = n
         /\ Take("Released") \/ Take("Denied")
         /\ subs' = [subs EXCEPT ![n] = s]
         /\ state' = [state EXCEPT ![n] = IF s = <<>> THEN "Released" ELSE "Pending"]
         /\ client' = IF n = "ds" THEN client
                      ELSE Told(IdsIn(Inactive(subs[n])),
                                IF First.what = "Denied" THEN "denied" ELSE "closed")
         /\ AskedAgain(n, s) /\ UNCHANGED dropped /\ Keep
BY DEF ReleasedReleasing, Take, AskedAgain

LEMMA ReleasedReleasingLists ==
  ASSUME LInv, NEW n \in Nifs, ReleasedReleasing(n)
  PROVE  LInv'
<1>. DEFINE s == Active(subs[n])
            st == IF s = <<>> THEN "Released" ELSE "Pending"
<1>1. /\ msgs # <<>> /\ state[n] = "Releasing"
      /\ subs' = [subs EXCEPT ![n] = s] /\ state' = [state EXCEPT ![n] = st]
      /\ client' = (IF n = "ds" THEN client
                    ELSE Told(IdsIn(Inactive(subs[n])),
                              IF First.what = "Denied" THEN "denied" ELSE "closed"))
      /\ AskedAgain(n, s) /\ UNCHANGED dropped /\ Keep
  BY ReleasingIs
<1>2. /\ s \in Seq(Subscribers) /\ Single(s) /\ Len(s) <= Len(subs[n])
      /\ AllActive(s) /\ Wanting(s) = Wanting(subs[n])
      /\ s = <<>> <=> Wanting(subs[n]) = {}
  BY ListOf, ActiveList
<1>3. ListFits(n, "Releasing", subs[n], n \in dropped) /\ subs[n] \in Seq(Subscribers)
  BY <1>1, ListOf
<1>. HIDE DEF s
<1>4. ListFits(n, st, s, n \in dropped')
  BY <1>1, <1>2, <1>3 DEF ListFits, EnforceSingle
<1>5. ListInv' /\ MachineTyped'
  <2>1. dropped' \in SUBSET Nifs /\ dropped' \ {n} = dropped \ {n}
    BY <1>1, ListParts
  <2>2. st \in States
    BY DEF States
  <2>. HIDE DEF st
  <2>3. QED
    BY <1>1, <1>2, <1>4, <2>1, <2>2, ListParts, MachineStep
<1>6. QueueTyped' /\ RequestsTyped' /\ RetriesTyped'
  <2>1. CASE s = <<>>
    BY <1>1, <2>1, ListParts, PostNothing DEF AskedAgain, RequestsTyped, RetriesTyped
  <2>2. CASE s # <<>> /\ n # "ds"
    BY <1>1, <2>2, ListParts, PostNothing, AskTyped DEF AskedAgain, RetriesTyped
  <2>3. CASE s # <<>> /\ n = "ds"
    <3>1. PICK outcome \in Outcomes : DsRequest(s, outcome)
      BY <1>1, <2>3 DEF AskedAgain
    <3>2. QED
      BY <1>1, <1>2, <2>3, <3>1, ListParts, DsRequestTyped
  <2>4. QED
    BY <2>1, <2>2, <2>3
<1>7. ClientTyped'
  BY <1>1, ListParts, ToldTyped DEF ClientTyped
<1>8. KeptTyped' /\ (dropped \subseteq Nifs)'
  BY <1>1, ListParts, KeepTyped
<1>9. QED
  BY <1>5, <1>6, <1>7, <1>8, TypesPartsNext DEF LInv

LEMMA EngineUpLists ==
  ASSUME LInv, loc_eng_handle_engine_up
  PROVE  LInv'
<1>1. /\ msgs # <<>> /\ Post(<<>>) /\ Keep
      /\ subs' = [subs EXCEPT !["agnss"] = <<>>]
      /\ dropped' = (IF state["agnss"] = "Released" THEN dropped ELSE dropped \cup {"agnss"})
      /\ UNCHANGED <<state, mRetries, timers, requests, client>>
  BY DEF loc_eng_handle_engine_up, Take
<1>2. "agnss" \in Nifs
  BY DEF Nifs
<1>3. <<>> \in Seq(Subscribers) /\ Single(<<>>) /\ AllActive(<<>>) /\ Len(<<>>) = 0
  BY DEF Single, AllActive
<1>4. ListFits("agnss", state["agnss"], <<>>, "agnss" \in dropped')
  BY <1>1, <1>3 DEF ListFits
<1>5. ListInv' /\ MachineTyped'
  <2>1. dropped' \in SUBSET Nifs /\ dropped' \ {"agnss"} = dropped \ {"agnss"}
    BY <1>1, <1>2, ListParts
  <2>2. state' = [state EXCEPT !["agnss"] = state["agnss"]] /\ state["agnss"] \in States
    BY <1>1, <1>2, ListParts DEF MachineTyped
  <2>3. QED
    BY <1>1, <1>2, <1>3, <1>4, <2>1, <2>2, ListParts, MachineStep
<1>6. /\ QueueTyped' /\ KeptTyped' /\ RetriesTyped' /\ RequestsTyped' /\ ClientTyped'
      /\ (dropped \subseteq Nifs)'
  BY <1>1, <1>2, ListParts, PostNothing, KeepTyped DEF RetriesTyped, RequestsTyped, ClientTyped
<1>7. QED
  BY <1>5, <1>6, TypesPartsNext DEF LInv

\* the message that a timer posts, if anyone still waits for it
Resubscribe ==
  LET s == Active(subs["ds"])
  IN  IF s = <<>> THEN <<>> ELSE <<Message("RequestSuplEs", s[1].id)>>

LEMMA ResubscribeTyped ==
  ASSUME LInv
  PROVE  /\ Resubscribe \in Seq(Messages)
         /\ subs["ds"] = <<>> => Resubscribe = <<>>
<1>1. "ds" \in Nifs
  BY DEF Nifs
<1>2. subs["ds"] \in Seq(Subscribers) /\ Single(subs["ds"])
  BY <1>1, ListOf
<1>3. Active(subs["ds"]) # <<>> => Active(subs["ds"])[1] \in Subscribers
  BY <1>2, ActiveList, FirstActive
<1>4. Active(subs["ds"]) # <<>> =>
        Message("RequestSuplEs", Active(subs["ds"])[1].id) \in Messages
  BY <1>3 DEF Message, Messages, Subscribers, Ours
<1>5. subs["ds"] = <<>> => Active(subs["ds"]) = <<>>
  <2>1. subs["ds"] = <<>> => Wanting(subs["ds"]) = {}
    BY DEF Wanting
  <2>2. Active(subs["ds"]) = <<>> <=> Wanting(subs["ds"]) = {}
    BY <1>2, ActiveList
  <2>3. QED
    BY <2>1, <2>2
<1>6. QED
  BY <1>4, <1>5 DEF Resubscribe

LEMMA RetryLists ==
  ASSUME LInv, retryCallback
  PROVE  LInv'
<1>1. /\ timers > 0 /\ timers' = timers - 1 /\ msgs' = msgs \o Resubscribe
      /\ UNCHANGED <<state, subs, mRetries, requests, client, dropped>> /\ Keep
  BY DEF retryCallback, Resubscribe
<1>2. QueueTyped'
  BY <1>1, ListParts, ResubscribeTyped DEF QueueTyped
<1>3. RetriesTyped'
  BY <1>1, ListParts DEF RetriesTyped
<1>4. ListInv' /\ MachineTyped'
  BY <1>1, ListParts, MachineKept
<1>5. KeptTyped' /\ RequestsTyped' /\ ClientTyped' /\ (dropped \subseteq Nifs)'
  BY <1>1, ListParts, KeepTyped DEF RequestsTyped, ClientTyped
<1>6. QED
  BY <1>2, <1>3, <1>4, <1>5, TypesPartsNext DEF LInv

-----------------------------------------------------------------------------
(* The clients, the services and the modem do not touch the machines.      *)
LEMMA MessageTyped ==
  /\ \A what \in Ours, c \in Ids : Message(what, c) \in Messages
  /\ \A what \in Events, n \in Nifs : Message(what, n) \in Messages
  /\ Message("EngineUp", "all") \in Messages
BY DEF Message, Messages

LEMMA ClientLists ==
  ASSUME LInv, NEW c \in Ids, ClientAsks(c) \/ ClientReleases(c)
  PROVE  LInv'
<1>1. /\ UNCHANGED <<machine, dropped>> /\ UNCHANGED requests
      /\ UNCHANGED <<service, conn, losses, restarts>>
      /\ asks' = asks \/ (asks < MaxAsks /\ asks' = asks + 1)
      /\ \E b \in {"asked", "closing"} : client' = [client EXCEPT ![c] = b]
      /\ \E what \in Ours : msgs' = Append(msgs, Message(what, c))
  <2>1. CASE ClientAsks(c)
    <3>1. (CASE service = "atl" -> "RequestATL" [] service = "wifi" -> "RequestWifi"
              [] service = "es" -> "RequestSuplEs") \in Ours
      BY ListParts DEF KeptTyped, Services, Ours
    <3>2. QED
      BY <2>1, <3>1 DEF ClientAsks
  <2>2. CASE ClientReleases(c)
    BY <2>2 DEF ClientReleases, Ours, counters
  <2>3. QED
    BY <2>1, <2>2
<1>2. QueueTyped'
  BY <1>1, ListParts, MessageTyped, AppendTyped
<1>3. RequestsTyped' /\ ClientTyped' /\ KeptTyped'
  BY <1>1, ListParts, Bounds DEF Bounds, RequestsTyped, ClientTyped, KeptTyped
<1>4. QED
  BY <1>1, <1>2, <1>3, MachineUntouched

LEMMA ServiceLists ==
  ASSUME LInv, NEW n \in Nifs, Service(n) \/ ConnectionLost(n)
  PROVE  LInv'
<1>1. /\ UNCHANGED <<machine, dropped>> /\ UNCHANGED <<service, client, asks, restarts>>
      /\ losses' = losses \/ (losses < MaxLosses /\ losses' = losses + 1)
      /\ \/ UNCHANGED requests
         \/ requests[n] # <<>> /\ requests' = [requests EXCEPT ![n] = Tail(@)]
      /\ UNCHANGED conn \/ \E k \in {"closed", "opening", "open"} : conn' = [conn EXCEPT ![n] = k]
      /\ UNCHANGED msgs \/ \E what \in Events : msgs' = Append(msgs, Message(what, n))
  <2>1. CASE ServiceTakesRequest(n)
    BY <2>1 DEF ServiceTakesRequest, Events, counters
  <2>2. CASE \E ok \in BOOLEAN : ServiceAnswers(n, ok)
    BY <2>2 DEF ServiceAnswers, loc_eng_agps_open, loc_eng_agps_closed,
                loc_eng_agps_open_failed, Events, counters
  <2>3. CASE ServiceCloses(n)
    BY <2>3 DEF ServiceCloses, loc_eng_agps_closed, Events, counters
  <2>4. CASE ConnectionLost(n)
    BY <2>4 DEF ConnectionLost, loc_eng_agps_closed, Events
  <2>5. QED
    BY <2>1, <2>2, <2>3, <2>4 DEF Service
<1>2. QueueTyped'
  BY <1>1, ListParts, MessageTyped, AppendTyped DEF QueueTyped
<1>3. RequestsTyped'
  <2>1. requests[n] # <<>> => Tail(requests[n]) \in Seq({"request", "release"})
    BY ListParts DEF RequestsTyped
  <2>2. QED
    BY <1>1, <2>1, ListParts DEF RequestsTyped
<1>4. ClientTyped' /\ KeptTyped'
  BY <1>1, ListParts, Bounds DEF Bounds, ClientTyped, KeptTyped
<1>5. QED
  BY <1>1, <1>2, <1>3, <1>4, MachineUntouched

LEMMA RestartLists ==
  ASSUME LInv, ModemRestarts
  PROVE  LInv'
<1>1. /\ restarts < MaxRestarts /\ restarts' = restarts + 1
      /\ msgs' = Append(msgs, Message("EngineUp", "all"))
      /\ client' = (IF service = "wifi" THEN client ELSE [c \in Ids |-> "idle"])
      /\ UNCHANGED <<machine, dropped>> /\ UNCHANGED <<service, requests, conn, asks, losses>>
  BY DEF ModemRestarts
<1>2. QueueTyped'
  BY <1>1, ListParts, MessageTyped, AppendTyped
<1>3. RequestsTyped' /\ ClientTyped' /\ KeptTyped'
  BY <1>1, ListParts, Bounds DEF Bounds, RequestsTyped, ClientTyped, KeptTyped
<1>4. QED
  BY <1>1, <1>2, <1>3, MachineUntouched

LEMMA InitialLists ==
  ASSUME Init
  PROVE  LInv
<1>1. QueueTyped /\ RequestsTyped /\ RetriesTyped /\ ClientTyped /\ KeptTyped /\ MachineTyped
      /\ dropped \subseteq Nifs
  BY Bounds DEF Init, Bounds, QueueTyped, RequestsTyped, RetriesTyped, ClientTyped, KeptTyped,
                MachineTyped, States
<1>2. Single(<<>>) /\ AllActive(<<>>) /\ Len(<<>>) = 0
  BY DEF Single, AllActive
<1>3. \A n \in Nifs : ListFits(n, "Released", <<>>, FALSE)
  BY <1>2 DEF ListFits
<1>4. ListInv
  <2>1. \A n \in Nifs : state[n] = "Released" /\ subs[n] = <<>> /\ (n \in dropped <=> FALSE)
    BY DEF Init
  <2>2. QED
    BY <1>3, <2>1 DEF ListFits, ListInv
<1>5. QED
  BY <1>1, <1>4, TypesParts DEF LInv

\* A step of the message task, by its handlers.
LEMMA MsgTaskLists ==
  ASSUME LInv, MsgTask
  PROVE  LInv'
<1>1. ASSUME NEW id \in Ids, SubscribeDs(id) PROVE LInv'
  BY <1>1, SubscribeDsLists
<1>2. ASSUME NEW id \in Ids, NEW n \in Nifs,
             \/ SubscribeRefused(n, id) \/ SubscribeReleased(n, id) \/ SubscribeWaiting(n, id)
             \/ SubscribeAcquired(n, id) \/ UnsubscribeReleased(n, id) \/ Unsubscribe(n, id)
      PROVE  LInv'
  BY <1>2, SubscribeRefusedLists, SubscribeReleasedLists, SubscribeWaitingLists,
     SubscribeAcquiredLists, UnsubscribeReleasedLists, UnsubscribeLists
<1>3. CASE NotSubscribed
  BY <1>3, NotSubscribedLists
<1>4. ASSUME NEW n \in Nifs,
             \/ Granted(n) \/ ReleasedAcquired(n) \/ ReleasedReleasing(n) \/ DeniedPending(n)
             \/ UnexpectedEvent(n)
      PROVE  LInv'
  BY <1>4, GrantedLists, ReleasedAcquiredLists, ReleasedReleasingLists, DeniedPendingLists,
     UnexpectedEventLists
<1>5. CASE loc_eng_handle_engine_up
  BY <1>5, EngineUpLists
<1>6. QED
  BY <1>1, <1>2, <1>3, <1>4, <1>5 DEF MsgTask

LEMMA StepLists == LInv /\ [Next]_vars => LInv'
<1>. SUFFICES ASSUME LInv, [Next]_vars PROVE LInv'
  OBVIOUS
<1>1. CASE MsgTask
  BY <1>1, MsgTaskLists
<1>2. CASE retryCallback
  BY <1>2, RetryLists
<1>3. ASSUME NEW n \in Nifs, Service(n) \/ ConnectionLost(n) PROVE LInv'
  BY <1>3, ServiceLists
<1>4. ASSUME NEW c \in Ids, ClientAsks(c) \/ ClientReleases(c) PROVE LInv'
  BY <1>4, ClientLists
<1>5. CASE ModemRestarts
  BY <1>5, RestartLists
<1>6. CASE UNCHANGED vars
  <2>1. /\ UNCHANGED <<machine, dropped>>
        /\ UNCHANGED <<service, msgs, requests, conn, client, counters>>
    BY <1>6 DEF vars
  <2>2. QueueTyped' /\ RequestsTyped' /\ ClientTyped' /\ KeptTyped'
    BY <2>1, ListParts DEF QueueTyped, RequestsTyped, ClientTyped, KeptTyped, counters
  <2>3. QED
    BY <2>1, <2>2, MachineUntouched
<1>7. QED
  BY <1>1, <1>2, <1>3, <1>4, <1>5, <1>6 DEF Next

LEMMA ListsHold == Spec => []LInv
<1>1. Init => LInv
  BY InitialLists
<1>2. QED
  BY <1>1, StepLists, PTL DEF Spec

(* An interface is waited for or held only for a subscriber that wants it  *)
(* (loc_eng_agps.cpp:352-365, 451-464), unless a modem restart flushed the *)
(* list, and agnss and wifi are never Released with subscribers (261-265). *)
THEOREM HeldAlwaysForSubscriber == Spec => []HeldForSubscriber
<1>1. LInv => HeldForSubscriber
  <2>. SUFFICES ASSUME LInv PROVE HeldForSubscriber
    OBVIOUS
  <2>1. ASSUME NEW n \in Nifs
        PROVE  /\ \A i \in DOMAIN subs[n] : subs[n][i] \in [id : Ids, inactive : BOOLEAN]
               /\ \A i, j \in DOMAIN subs[n] : subs[n][i].id = subs[n][j].id => i = j
               /\ EnforceSingle(n) => Len(subs[n]) <= 1
               /\ \A i \in DOMAIN requests[n] : requests[n][i] \in {"request", "release"}
    <3>1. \A i \in DOMAIN subs[n] : subs[n][i] \in Subscribers
      BY ListOf
    <3>2. requests[n] \in Seq({"request", "release"})
      BY ListParts DEF RequestsTyped
    <3>3. QED
      BY <3>1, <3>2, ListOf DEF ListFits, Single, Subscribers
  <2>2. TypeOK
    BY <2>1, ListParts
       DEF TypeOK, RetriesTyped, ClientTyped, KeptTyped, MachineTyped, States
  <2>3. ASSUME NEW n \in Nifs \ dropped, state[n] \in {"Pending", "Acquired"}
        PROVE  hasActiveSubscribers(n)
    <3>1. Wanting(subs[n]) # {}
      BY <2>3, ListOf DEF ListFits
    <3>2. QED
      BY <3>1, ListOf, FirstActive DEF hasActiveSubscribers
  <2>4. \A n \in {"agnss", "wifi"} : state[n] = "Released" => subs[n] = <<>>
    <3>1. {"agnss", "wifi"} \subseteq Nifs
      BY DEF Nifs
    <3>2. QED
      BY <3>1, ListOf DEF ListFits
  <2>5. QED
    BY <2>2, <2>3, <2>4 DEF HeldForSubscriber
<1>2. QED
  BY <1>1, ListsHold, PTL

-----------------------------------------------------------------------------
(***************************************************************************)
(* Places in the queue.                                                    *)
(***************************************************************************)
LEMMA TailPlaces ==
  ASSUME NEW q \in Seq(Messages), q # <<>>
  PROVE  /\ Tail(q) \in Seq(Messages) /\ 1 \in DOMAIN q /\ Head(q) = q[1]
         /\ \A i \in DOMAIN Tail(q) : i + 1 \in DOMAIN q /\ Tail(q)[i] = q[i + 1]
         /\ \A i \in DOMAIN q : i # 1 => i - 1 \in DOMAIN Tail(q) /\ Tail(q)[i - 1] = q[i]
<1>1. /\ Tail(q) \in Seq(Messages) /\ Len(q) \in Nat /\ Len(q) # 0 /\ Len(Tail(q)) = Len(q) - 1
      /\ DOMAIN q = 1..Len(q) /\ DOMAIN Tail(q) = 1..Len(Tail(q)) /\ Head(q) = q[1]
      /\ \A i \in 1..Len(Tail(q)) : Tail(q)[i] = q[i + 1]
  BY EmptySeq
<1>2. \A i \in DOMAIN Tail(q) : i + 1 \in DOMAIN q /\ Tail(q)[i] = q[i + 1]
  BY <1>1
<1>3. ASSUME NEW i \in DOMAIN q, i # 1
      PROVE  i - 1 \in DOMAIN Tail(q) /\ Tail(q)[i - 1] = q[i]
  <2>1. i - 1 \in DOMAIN Tail(q) /\ (i - 1) + 1 = i
    BY <1>1, <1>3
  <2>2. Tail(q)[i - 1] = q[(i - 1) + 1]
    BY <1>2, <2>1
  <2>3. QED
    BY <2>1, <2>2
<1>4. QED
  BY <1>1, <1>2, <1>3

LEMMA AppendPlaces ==
  ASSUME NEW q \in Seq(Messages), NEW m \in Messages
  PROVE  /\ Append(q, m) \in Seq(Messages)
         /\ Len(q) + 1 \in DOMAIN Append(q, m) /\ Append(q, m)[Len(q) + 1] = m
         /\ \A i \in DOMAIN Append(q, m) : i \in DOMAIN q \/ i = Len(q) + 1
         /\ \A i \in DOMAIN q :
              i \in DOMAIN Append(q, m) /\ Append(q, m)[i] = q[i] /\ i < Len(q) + 1
OBVIOUS

LEMMA ConcatPlaces ==
  ASSUME NEW q \in Seq(Messages), NEW r \in Seq(Messages)
  PROVE  \A i \in DOMAIN (q \o r) :
           \/ i \in DOMAIN q /\ (q \o r)[i] = q[i]
           \/ \E j \in DOMAIN r : (q \o r)[i] = r[j]
<1>1. /\ Len(q) \in Nat /\ Len(r) \in Nat /\ DOMAIN (q \o r) = 1..(Len(q) + Len(r))
      /\ DOMAIN q = 1..Len(q) /\ DOMAIN r = 1..Len(r)
      /\ \A i \in 1..(Len(q) + Len(r)) :
           (q \o r)[i] = IF i <= Len(q) THEN q[i] ELSE r[i - Len(q)]
  OBVIOUS
<1>2. \A i \in 1..(Len(q) + Len(r)) : ~(i <= Len(q)) => i - Len(q) \in 1..Len(r)
  BY <1>1
<1>3. QED
  BY <1>1, <1>2

\* What a step adds to the queue: nothing, or messages that a client of the
\* engine can send.
FreshIn(q, r) ==
  \A i \in DOMAIN r :
    \/ \E j \in DOMAIN q : r[i] = q[j]
    \/ Sender(service, r[i].what) /\ r[i].what # "EngineUp"

\* the machines that the clients do not reach are left alone, or emptied
Apart ==
  /\ service' = service
  /\ \A m \in Nifs \ Reached(service) :
       /\ state'[m] = state[m] /\ subs'[m] \in {subs[m], <<>>}
       /\ requests'[m] = requests[m] /\ conn'[m] = conn[m]

IdleStay == \A c \in Ids : client[c] = "idle" => client'[c] = "idle"

LEMMA ApartRest ==
  ASSUME OthersRest, Apart
  PROVE  OthersRest'
<1>1. Reached(service)' = Reached(service)
  BY DEF Apart, Reached
<1>2. QED
  BY <1>1 DEF Apart, OthersRest

LEMMA FreshSenders ==
  ASSUME SendersKnown, service' = service, FreshIn(msgs, msgs')
  PROVE  SendersKnown'
BY DEF SendersKnown, FreshIn

LEMMA FreshQuiet ==
  ASSUME RestartQuiet, service' = service, FreshIn(msgs, msgs'), IdleStay
  PROVE  RestartQuiet'
<1>1. SUFFICES ASSUME service # "wifi", NEW i \in DOMAIN msgs', msgs'[i].what = "EngineUp",
                      NEW c \in Ids
               PROVE  client'[c] = "idle"
  BY DEF RestartQuiet
<1>2. PICK j \in DOMAIN msgs : msgs'[i] = msgs[j]
  BY <1>1 DEF FreshIn
<1>3. client[c] = "idle"
  BY <1>1, <1>2 DEF RestartQuiet
<1>4. QED
  BY <1>3 DEF IdleStay

LEMMA ToldIdle ==
  ASSUME ClientTyped, NEW ids, NEW what, client' = Told(ids, what)
  PROVE  IdleStay
BY DEF Told, Heard, IdleStay, ClientTyped

LEMMA FreshPost ==
  ASSUME QueueTyped, msgs # <<>>, NEW more \in Seq(Messages), Post(more),
         \A i \in DOMAIN more : Sender(service, more[i].what) /\ more[i].what # "EngineUp"
  PROVE  FreshIn(msgs, msgs')
<1>1. /\ Tail(msgs) \in Seq(Messages)
      /\ \A i \in DOMAIN Tail(msgs) : i + 1 \in DOMAIN msgs /\ Tail(msgs)[i] = msgs[i + 1]
  BY TailPlaces DEF QueueTyped
<1>2. \A i \in DOMAIN (Tail(msgs) \o more) :
        \/ i \in DOMAIN Tail(msgs) /\ (Tail(msgs) \o more)[i] = Tail(msgs)[i]
        \/ \E j \in DOMAIN more : (Tail(msgs) \o more)[i] = more[j]
  BY <1>1, ConcatPlaces
<1>3. ASSUME NEW i \in DOMAIN msgs'
      PROVE  \/ \E j \in DOMAIN msgs : msgs'[i] = msgs[j]
             \/ Sender(service, msgs'[i].what) /\ msgs'[i].what # "EngineUp"
  <2>1. CASE i \in DOMAIN Tail(msgs) /\ msgs'[i] = Tail(msgs)[i]
    BY <1>1, <2>1
  <2>2. CASE \E j \in DOMAIN more : msgs'[i] = more[j]
    BY <2>2
  <2>3. QED
    BY <1>2, <2>1, <2>2 DEF Post
<1>4. QED
  BY <1>3 DEF FreshIn

LEMMA FreshNothing ==
  ASSUME QueueTyped, msgs # <<>>, Post(<<>>)
  PROVE  FreshIn(msgs, msgs')
<1>1. <<>> \in Seq(Messages) /\ DOMAIN <<>> = {}
  OBVIOUS
<1>2. QED
  BY <1>1, FreshPost

LEMMA FreshAppend ==
  ASSUME QueueTyped, NEW m \in Messages, msgs' = Append(msgs, m), Sender(service, m.what),
         m.what # "EngineUp"
  PROVE  FreshIn(msgs, msgs')
BY AppendPlaces DEF QueueTyped, FreshIn

\* the list of the emergency machine holds someone only for a client of its own
LEMMA EmergencyOnly ==
  ASSUME LInv, OthersRest
  PROVE  /\ subs["ds"] # <<>> \/ state["ds"] # "Released" => service = "es"
         /\ \A n \in Nifs :
              \/ subs[n] # <<>> \/ state[n] # "Released" \/ requests[n] # <<>> \/ conn[n] # "closed"
              => n \in Reached(service)
<1>1. service \in Services /\ "ds" \in Nifs
  BY ListParts DEF KeptTyped, Nifs
<1>2. "ds" \in Reached(service) => service = "es"
  BY <1>1 DEF Reached, NifOf, Services
<1>3. QED
  BY <1>1, <1>2 DEF OthersRest

-----------------------------------------------------------------------------
(***************************************************************************)
(* The interfaces that nobody reaches rest, a message is from a client of  *)
(* the kind that sends it, and a restarted modem has asked for nothing.    *)
(***************************************************************************)
Alone == OthersRest /\ SendersKnown /\ RestartQuiet

LEMMA AloneStep ==
  ASSUME Alone, Apart, FreshIn(msgs, msgs'), IdleStay
  PROVE  Alone'
BY ApartRest, FreshSenders, FreshQuiet DEF Alone, Apart

\* a step on the machine n, which its client reaches
LEMMA ApartOne ==
  ASSUME LInv, NEW n \in Nifs, n \in Reached(service), service' = service,
         UNCHANGED state \/ \E st : state' = [state EXCEPT ![n] = st],
         UNCHANGED subs \/ \E s : subs' = [subs EXCEPT ![n] = s],
         UNCHANGED requests \/ \E r : requests' = [requests EXCEPT ![n] = r],
         UNCHANGED conn \/ \E k : conn' = [conn EXCEPT ![n] = k]
  PROVE  Apart
<1>1. /\ state \in [Nifs -> States] /\ subs \in [Nifs -> Seq(Subscribers)]
      /\ requests \in [Nifs -> Seq({"request", "release"})]
      /\ conn \in [Nifs -> {"closed", "opening", "open"}]
  BY ListParts DEF MachineTyped, RequestsTyped, KeptTyped
<1>2. SUFFICES ASSUME NEW m \in Nifs \ Reached(service)
               PROVE  /\ state'[m] = state[m] /\ subs'[m] = subs[m]
                      /\ requests'[m] = requests[m] /\ conn'[m] = conn[m]
  BY DEF Apart
<1>3. m # n
  OBVIOUS
<1>4. QED
  BY <1>1, <1>3

LEMMA ApartNone ==
  ASSUME UNCHANGED <<service, state, subs, requests, conn>>
  PROVE  Apart
BY DEF Apart

LEMMA SubscribingReaches ==
  ASSUME LInv, Alone, NEW n \in Nifs, NEW id \in Ids, Subscribing(n, id)
  PROVE  msgs # <<>> /\ n \in Reached(service) /\ (n = "ds" => service = "es")
<1>1. msgs # <<>> /\ 1 \in DOMAIN msgs /\ First = msgs[1]
  BY ListParts, TailPlaces DEF Subscribing, Take, QueueTyped, First
<1>2. Sender(service, First.what) /\ service \in Services
  BY <1>1, ListParts DEF Alone, SendersKnown, KeptTyped
<1>3. QED
  BY <1>1, <1>2 DEF Subscribing, Take, Sender, Reached, NifOf, Services

LEMMA UnsubscribingReaches ==
  ASSUME LInv, Alone, NEW n \in Nifs, NEW id \in Ids, Unsubscribing(n, id)
  PROVE  msgs # <<>> /\ n \in Reached(service)
<1>1. msgs # <<>> /\ IdsIn(subs[n]) # {}
  BY DEF Unsubscribing, Take
<1>2. subs[n] # <<>>
  BY <1>1 DEF IdsIn
<1>3. QED
  BY <1>1, <1>2, EmergencyOnly DEF Alone

LEMMA DsRequestFresh ==
  ASSUME QueueTyped, msgs # <<>>, service = "es",
         NEW s \in Seq(Subscribers), Single(s), Wanting(s) # {},
         NEW outcome \in Outcomes, DsRequest(s, outcome)
  PROVE  /\ FreshIn(msgs, msgs')
         /\ UNCHANGED requests \/ \E r : requests' = [requests EXCEPT !["ds"] = r]
<1>. DEFINE handle == SubSeq(Active(s), 1, 1)
<1>1. CASE Post(<<>>) /\ (Ask("ds", "request") \/ UNCHANGED requests)
  BY <1>1, FreshNothing DEF Ask
<1>2. CASE Post(FallBack(handle)) /\ UNCHANGED requests
  <2>1. handle \in Seq(Subscribers)
    BY FirstActive
  <2>. HIDE DEF handle
  <2>2. /\ FallBack(handle) \in Seq(Messages)
        /\ \A i \in DOMAIN FallBack(handle) : FallBack(handle)[i].what = "RequestATL"
    <3>1. \A i \in DOMAIN handle : Message("RequestATL", handle[i].id).what = "RequestATL"
      BY DEF Message
    <3>2. QED
      BY <2>1, <3>1, FallBackTyped
  <2>3. Sender(service, "RequestATL")
    BY DEF Sender
  <2>4. QED
    BY <1>2, <2>2, <2>3, FreshPost
<1>3. QED
  BY <1>1, <1>2 DEF DsRequest

LEMMA SubscribeAlone ==
  ASSUME LInv, Alone, NEW n \in Nifs, NEW id \in Ids,
         \/ SubscribeRefused(n, id) \/ SubscribeReleased(n, id) \/ SubscribeWaiting(n, id)
         \/ SubscribeAcquired(n, id)
  PROVE  Alone'
<1>1. /\ Subscribing(n, id) /\ Post(<<>>) /\ Keep
      /\ UNCHANGED state \/ \E st : state' = [state EXCEPT ![n] = st]
      /\ UNCHANGED subs \/ \E s : subs' = [subs EXCEPT ![n] = s]
      /\ UNCHANGED requests \/ \E r : requests' = [requests EXCEPT ![n] = r]
      /\ UNCHANGED client \/ \E ids, what : client' = Told(ids, what)
  BY DEF SubscribeRefused, SubscribeReleased, SubscribeWaiting, SubscribeAcquired, SendRequest,
         Ask, machine
<1>2. msgs # <<>> /\ n \in Reached(service)
  BY <1>1, SubscribingReaches
<1>3. service' = service /\ conn' = conn
  BY <1>1 DEF Keep
<1>4. Apart
  BY <1>1, <1>2, <1>3, ApartOne
<1>5. FreshIn(msgs, msgs') /\ IdleStay
  BY <1>1, <1>2, ListParts, FreshNothing, ToldIdle DEF IdleStay
<1>6. QED
  BY <1>4, <1>5, AloneStep

LEMMA SubscribeDsAlone ==
  ASSUME LInv, Alone, NEW id \in Ids, SubscribeDs(id)
  PROVE  Alone'
<1>. DEFINE s == addSubscriber(subs["ds"], id)
<1>1. /\ Subscribing("ds", id) /\ state["ds"] = "Released" /\ Keep
      /\ subs' = [subs EXCEPT !["ds"] = s] /\ UNCHANGED client
  BY DEF SubscribeDs
<1>2. PICK outcome \in Outcomes :
        /\ DsRequest(subs'["ds"], outcome)
        /\ state' = [state EXCEPT !["ds"] = IF outcome = "SUCCESS" THEN "Pending" ELSE @]
  BY DEF SubscribeDs
<1>3. "ds" \in Nifs
  BY DEF Nifs
<1>4. msgs # <<>> /\ "ds" \in Reached(service) /\ service = "es"
  BY <1>1, <1>3, SubscribingReaches
<1>5. AllActive(subs["ds"])
  BY <1>1, <1>3, ListOf DEF ListFits
<1>6. s \in Seq(Subscribers) /\ Single(s) /\ id \in Wanting(s)
  BY <1>3, <1>5, ListOf, AddedList
<1>7. subs'["ds"] = s
  BY <1>1, <1>3, ListParts DEF MachineTyped
<1>. HIDE DEF s
<1>8. /\ FreshIn(msgs, msgs')
      /\ UNCHANGED requests \/ \E r : requests' = [requests EXCEPT !["ds"] = r]
  BY <1>2, <1>4, <1>6, <1>7, ListParts, DsRequestFresh
<1>9. service' = service /\ conn' = conn /\ IdleStay
  BY <1>1 DEF Keep, IdleStay
<1>10. \E st : state' = [state EXCEPT !["ds"] = st]
  BY <1>2
<1>11. Apart
  BY <1>1, <1>3, <1>4, <1>8, <1>9, <1>10, ApartOne
<1>12. QED
  BY <1>8, <1>9, <1>11, AloneStep

LEMMA NotSubscribedAlone ==
  ASSUME LInv, Alone, NotSubscribed
  PROVE  Alone'
<1>1. /\ msgs # <<>> /\ Post(<<>>) /\ Keep /\ UNCHANGED <<state, subs, requests>>
      /\ client' = Told({First.who}, "closed") \/ UNCHANGED client
  BY DEF NotSubscribed, Take, machine
<1>2. Apart
  BY <1>1, ApartNone DEF Keep
<1>3. FreshIn(msgs, msgs') /\ IdleStay
  BY <1>1, ListParts, FreshNothing, ToldIdle DEF IdleStay
<1>4. QED
  BY <1>2, <1>3, AloneStep

LEMMA UnsubscribeAlone ==
  ASSUME LInv, Alone, NEW n \in Nifs, NEW id \in Ids,
         UnsubscribeReleased(n, id) \/ Unsubscribe(n, id)
  PROVE  Alone'
<1>1. /\ Unsubscribing(n, id) /\ Post(<<>>) /\ Keep
      /\ UNCHANGED state \/ \E st : state' = [state EXCEPT ![n] = st]
      /\ UNCHANGED subs \/ \E s : subs' = [subs EXCEPT ![n] = s]
      /\ UNCHANGED requests \/ \E r : requests' = [requests EXCEPT ![n] = r]
      /\ UNCHANGED client \/ \E ids, what : client' = Told(ids, what)
  <2>1. CASE UnsubscribeReleased(n, id)
    BY <2>1 DEF UnsubscribeReleased, machine
  <2>2. CASE Unsubscribe(n, id)
    <3>1. Unsubscribing(n, id)
      BY <2>2 DEF Unsubscribe, Leave
    <3>2. QED
      BY <2>2, <3>1, LeaveIs DEF Ask
  <2>3. QED
    BY <2>1, <2>2
<1>2. msgs # <<>> /\ n \in Reached(service)
  BY <1>1, UnsubscribingReaches
<1>3. service' = service /\ conn' = conn
  BY <1>1 DEF Keep
<1>4. Apart
  BY <1>1, <1>2, <1>3, ApartOne
<1>5. FreshIn(msgs, msgs') /\ IdleStay
  BY <1>1, <1>2, ListParts, FreshNothing, ToldIdle DEF IdleStay
<1>6. QED
  BY <1>4, <1>5, AloneStep

\* what a report of a service changes
LEMMA EventAlone ==
  ASSUME LInv, Alone, NEW n \in Nifs,
         \/ Granted(n) \/ ReleasedAcquired(n) \/ ReleasedReleasing(n) \/ DeniedPending(n)
         \/ UnexpectedEvent(n)
  PROVE  Alone'
<1>1. /\ msgs # <<>> /\ Keep
      /\ UNCHANGED state \/ \E st : state' = [state EXCEPT ![n] = st]
      /\ UNCHANGED subs \/ \E s : subs' = [subs EXCEPT ![n] = s]
      /\ UNCHANGED client \/ \E ids, what : client' = Told(ids, what)
      /\ state[n] # "Released" \/ UNCHANGED <<state, subs, requests>>
  BY DEF Granted, ReleasedAcquired, ReleasedReleasing, DeniedPending, UnexpectedEvent, Take,
         machine
<1>2. service' = service /\ conn' = conn /\ IdleStay
  BY <1>1, ListParts, ToldIdle DEF Keep, IdleStay
<1>3. /\ FreshIn(msgs, msgs')
      /\ UNCHANGED requests \/ \E r : requests' = [requests EXCEPT ![n] = r]
  <2>1. CASE Post(<<>>) /\ (Ask(n, "request") \/ UNCHANGED requests)
    BY <1>1, <2>1, ListParts, FreshNothing DEF Ask
  <2>2. CASE DeniedPending(n) /\ Post(FallBack(subs[n])) /\ n = "ds" /\ subs[n] # <<>>
    <3>1. service = "es"
      BY <2>2, EmergencyOnly DEF Alone
    <3>2. /\ FallBack(subs[n]) \in Seq(Messages) /\ DOMAIN FallBack(subs[n]) = DOMAIN subs[n]
          /\ \A i \in DOMAIN subs[n] :
               FallBack(subs[n])[i] = Message("RequestATL", subs[n][i].id)
      BY ListOf, FallBackTyped
    <3>3. \A i \in DOMAIN FallBack(subs[n]) : FallBack(subs[n])[i].what = "RequestATL"
      <4>1. \A i \in DOMAIN subs[n] : Message("RequestATL", subs[n][i].id).what = "RequestATL"
        BY DEF Message
      <4>2. QED
        BY <3>2, <4>1
    <3>4. FreshIn(msgs, msgs')
      BY <1>1, <2>2, <3>1, <3>2, <3>3, ListParts, FreshPost DEF Sender
    <3>5. QED
      BY <2>2, <3>4 DEF DeniedPending
  <2>3. CASE ReleasedReleasing(n) /\ n = "ds" /\ Active(subs[n]) # <<>>
    <3>1. PICK outcome \in Outcomes : DsRequest(Active(subs[n]), outcome)
      BY <2>3 DEF ReleasedReleasing
    <3>2. service = "es"
      BY <2>3, EmergencyOnly DEF Alone, ReleasedReleasing
    <3>3. /\ Active(subs[n]) \in Seq(Subscribers) /\ Single(Active(subs[n]))
          /\ Wanting(Active(subs[n])) # {}
      BY <2>3, ListOf, ActiveList
    <3>4. QED
      BY <1>1, <2>3, <3>1, <3>2, <3>3, ListParts, DsRequestFresh
  <2>4. QED
    BY <2>1, <2>2, <2>3
       DEF Granted, ReleasedAcquired, ReleasedReleasing, DeniedPending, UnexpectedEvent, machine
<1>4. Apart
  <2>1. CASE n \in Reached(service)
    BY <1>1, <1>2, <1>3, <2>1, ApartOne
  <2>2. CASE n \notin Reached(service)
    <3>1. state[n] = "Released"
      BY <2>2 DEF Alone, OthersRest
    <3>2. QED
      BY <1>1, <1>2, <3>1, ApartNone
  <2>3. QED
    BY <2>1, <2>2
<1>5. QED
  BY <1>2, <1>3, <1>4, AloneStep

LEMMA EngineUpAlone ==
  ASSUME LInv, Alone, loc_eng_handle_engine_up
  PROVE  Alone'
<1>1. /\ msgs # <<>> /\ Post(<<>>) /\ Keep
      /\ subs' = [subs EXCEPT !["agnss"] = <<>>]
      /\ UNCHANGED <<state, requests, client>>
  BY DEF loc_eng_handle_engine_up, Take
<1>2. Apart
  BY <1>1, ListParts DEF Apart, Keep, MachineTyped
<1>3. FreshIn(msgs, msgs') /\ IdleStay
  BY <1>1, ListParts, FreshNothing DEF IdleStay
<1>4. QED
  BY <1>2, <1>3, AloneStep

LEMMA RetryAlone ==
  ASSUME LInv, Alone, retryCallback
  PROVE  Alone'
<1>1. msgs' = msgs \o Resubscribe /\ UNCHANGED <<state, subs, requests, client>> /\ Keep
  BY DEF retryCallback, Resubscribe
<1>2. Apart
  BY <1>1, ApartNone DEF Keep
<1>3. ASSUME NEW j \in DOMAIN Resubscribe
      PROVE  Sender(service, Resubscribe[j].what) /\ Resubscribe[j].what # "EngineUp"
  <2>1. Resubscribe # <<>>
    BY <1>3
  <2>2. service = "es"
    BY <2>1, ResubscribeTyped, EmergencyOnly DEF Alone
  <2>3. Resubscribe[j].what = "RequestSuplEs"
    BY <1>3, <2>1 DEF Resubscribe, Message
  <2>4. QED
    BY <2>2, <2>3 DEF Sender
<1>4. msgs \in Seq(Messages) /\ Resubscribe \in Seq(Messages)
  BY ListParts, ResubscribeTyped DEF QueueTyped
<1>5. FreshIn(msgs, msgs')
  <2>. HIDE DEF Resubscribe
  <2>1. \A i \in DOMAIN (msgs \o Resubscribe) :
          \/ i \in DOMAIN msgs /\ (msgs \o Resubscribe)[i] = msgs[i]
          \/ \E j \in DOMAIN Resubscribe : (msgs \o Resubscribe)[i] = Resubscribe[j]
    BY <1>4, ConcatPlaces
  <2>2. QED
    BY <1>1, <1>3, <2>1 DEF FreshIn
<1>6. QED
  BY <1>1, <1>2, <1>5, AloneStep DEF IdleStay

LEMMA ServiceAlone ==
  ASSUME LInv, Alone, NEW n \in Nifs, Service(n) \/ ConnectionLost(n)
  PROVE  Alone'
<1>1. /\ UNCHANGED <<service, state, subs, client>>
      /\ requests[n] # <<>> \/ conn[n] # "closed"
      /\ UNCHANGED requests \/ \E r : requests' = [requests EXCEPT ![n] = r]
      /\ UNCHANGED conn \/ \E k : conn' = [conn EXCEPT ![n] = k]
      /\ UNCHANGED msgs \/ \E what \in Events : msgs' = Append(msgs, Message(what, n))
  <2>1. CASE ServiceTakesRequest(n)
    BY <2>1 DEF ServiceTakesRequest, Events, machine
  <2>2. CASE \E ok \in BOOLEAN : ServiceAnswers(n, ok)
    BY <2>2 DEF ServiceAnswers, loc_eng_agps_open, loc_eng_agps_closed,
                loc_eng_agps_open_failed, Events, machine
  <2>3. CASE ServiceCloses(n)
    BY <2>3 DEF ServiceCloses, loc_eng_agps_closed, Events, machine
  <2>4. CASE ConnectionLost(n)
    BY <2>4 DEF ConnectionLost, loc_eng_agps_closed, Events, machine
  <2>5. QED
    BY <2>1, <2>2, <2>3, <2>4 DEF Service
<1>2. n \in Reached(service)
  BY <1>1, EmergencyOnly DEF Alone
<1>3. Apart
  BY <1>1, <1>2, ApartOne
<1>4. FreshIn(msgs, msgs')
  <2>1. CASE UNCHANGED msgs
    BY <2>1 DEF FreshIn
  <2>2. ASSUME NEW what \in Events, msgs' = Append(msgs, Message(what, n))
        PROVE  FreshIn(msgs, msgs')
    <3>1. Message(what, n) \in Messages /\ Message(what, n).what = what
      BY MessageTyped DEF Message
    <3>2. Sender(service, what) /\ what # "EngineUp"
      BY DEF Events, Sender
    <3>3. QED
      BY <2>2, <3>1, <3>2, ListParts, FreshAppend
  <2>3. QED
    BY <1>1, <2>1, <2>2
<1>5. QED
  BY <1>1, <1>3, <1>4, AloneStep DEF IdleStay

LEMMA ClientAlone ==
  ASSUME LInv, Alone, NEW c \in Ids, ClientAsks(c) \/ ClientReleases(c)
  PROVE  Alone'
<1>1. UNCHANGED <<service, state, subs, requests, conn>>
  BY DEF ClientAsks, ClientReleases, machine
<1>2. service \in Services
  BY ListParts DEF KeptTyped
<1>3. PICK what \in Ours : /\ msgs' = Append(msgs, Message(what, c))
                          /\ Sender(service, what)
  BY <1>2 DEF ClientAsks, ClientReleases, Ours, Sender, Services
<1>4. /\ Message(what, c) \in Messages /\ Message(what, c).what = what
      /\ what # "EngineUp"
  BY MessageTyped DEF Message, Ours
<1>5. FreshIn(msgs, msgs')
  BY <1>3, <1>4, ListParts, FreshAppend
<1>6. OthersRest' /\ SendersKnown'
  BY <1>1, <1>5, ApartNone, ApartRest, FreshSenders DEF Alone
<1>7. RestartQuiet'
  <2>1. CASE service = "wifi"
    BY <1>1, <2>1 DEF RestartQuiet
  <2>2. CASE service # "wifi" /\ ClientReleases(c)
    <3>1. \A i \in DOMAIN msgs : msgs[i].what # "EngineUp"
      BY <2>2 DEF Alone, RestartQuiet, ClientReleases
    <3>2. QED
      BY <1>1, <1>5, <3>1 DEF FreshIn, RestartQuiet
  <2>3. CASE service # "wifi" /\ ClientAsks(c)
    <3>1. \A i \in DOMAIN msgs : msgs[i] # Message("EngineUp", "all")
      BY <2>3 DEF ClientAsks, ToSet
    <3>2. \A i \in DOMAIN msgs : msgs[i] \in Messages
      BY ListParts DEF QueueTyped
    <3>3. \A m \in Messages : m.what = "EngineUp" => m = Message("EngineUp", "all")
      BY DEF Messages, Message, Ours, Events
    <3>4. QED
      BY <1>1, <1>5, <3>1, <3>2, <3>3 DEF FreshIn, RestartQuiet
  <2>4. QED
    BY <2>1, <2>2, <2>3
<1>8. QED
  BY <1>6, <1>7 DEF Alone

LEMMA RestartAlone ==
  ASSUME LInv, Alone, ModemRestarts
  PROVE  Alone'
<1>1. /\ UNCHANGED <<service, state, subs, requests, conn>>
      /\ msgs' = Append(msgs, Message("EngineUp", "all"))
      /\ client' = (IF service = "wifi" THEN client ELSE [c \in Ids |-> "idle"])
  BY DEF ModemRestarts, machine
<1>2. RestartQuiet'
  BY <1>1 DEF RestartQuiet
<1>3. SendersKnown'
  <2>1. /\ Message("EngineUp", "all") \in Messages
        /\ Message("EngineUp", "all").what = "EngineUp"
    BY MessageTyped DEF Message
  <2>2. \A i \in DOMAIN msgs' : (i \in DOMAIN msgs /\ msgs'[i] = msgs[i])
                              \/ msgs'[i] = Message("EngineUp", "all")
    BY <1>1, <2>1, ListParts, AppendPlaces DEF QueueTyped
  <2>3. Sender(service, "EngineUp")
    BY DEF Sender
  <2>4. QED
    BY <1>1, <2>1, <2>2, <2>3 DEF Alone, SendersKnown
<1>4. OthersRest'
  BY <1>1, ApartNone, ApartRest DEF Alone
<1>5. QED
  BY <1>2, <1>3, <1>4 DEF Alone

LEMMA StepAlone ==
  ASSUME LInv, Alone, [Next]_vars
  PROVE  Alone'
<1>1. ASSUME NEW id \in Ids, NEW n \in Nifs,
             \/ SubscribeRefused(n, id) \/ SubscribeReleased(n, id) \/ SubscribeWaiting(n, id)
             \/ SubscribeAcquired(n, id) \/ UnsubscribeReleased(n, id) \/ Unsubscribe(n, id)
      PROVE  Alone'
  BY <1>1, SubscribeAlone, UnsubscribeAlone
<1>2. ASSUME NEW n \in Nifs,
             \/ Granted(n) \/ ReleasedAcquired(n) \/ ReleasedReleasing(n) \/ DeniedPending(n)
             \/ UnexpectedEvent(n)
      PROVE  Alone'
  BY <1>2, EventAlone
<1>3. CASE MsgTask
  BY <1>1, <1>2, <1>3, SubscribeDsAlone, NotSubscribedAlone, EngineUpAlone DEF MsgTask
<1>4. CASE \E c \in Ids : ClientAsks(c) \/ ClientReleases(c)
  BY <1>4, ClientAlone
<1>5. CASE \E n \in Nifs : Service(n) \/ ConnectionLost(n)
  BY <1>5, ServiceAlone
<1>6. CASE UNCHANGED vars
  <2>1. UNCHANGED <<service, state, subs, requests, conn, msgs, client>>
    BY <1>6 DEF vars, machine
  <2>2. Apart /\ IdleStay /\ FreshIn(msgs, msgs')
    BY <2>1, ApartNone DEF IdleStay, FreshIn
  <2>3. QED
    BY <2>2, AloneStep
<1>7. QED
  BY <1>3, <1>4, <1>5, <1>6, RetryAlone, RestartAlone DEF Next

-----------------------------------------------------------------------------
(***************************************************************************)
(* A client that believes its connection open subscribes to it.            *)
(***************************************************************************)
LEMMA ToldOpen ==
  ASSUME ClientTyped, NEW ids, NEW what, client' = Told(ids, what)
  PROVE  \A c \in Ids : client'[c] = "open" =>
           /\ what # "granted" => client[c] = "open"
           /\ what = "closed" => c \notin ids
           /\ client[c] = "open" \/ c \in ids
BY DEF Told, Heard, ClientTyped

LEMMA OpenKept ==
  ASSUME OpenSubscribed, UNCHANGED <<service, state, subs>>,
         \A c \in Ids : client'[c] = "open" => client[c] = "open"
  PROVE  OpenSubscribed'
BY DEF OpenSubscribed

\* of the machines, a client whose call cannot fall back reaches one
LEMMA OpenOf ==
  ASSUME LInv, OpenSubscribed, service # "es", NEW n \in Nifs, n \in Reached(service)
  PROVE  /\ n = NifOf[service]
         /\ \A c \in Ids : client[c] = "open" =>
              state[n] = "Acquired" /\ c \in Wanting(subs[n])
BY DEF OpenSubscribed, Reached

LEMMA OpenAgain ==
  ASSUME LInv, service' = service, NEW n \in Nifs, n \in Reached(service),
         service # "es" =>
           \A c \in Ids : client'[c] = "open" =>
             state'[n] = "Acquired" /\ c \in Wanting(subs'[n])
  PROVE  OpenSubscribed'
BY DEF OpenSubscribed, Reached

LEMMA SubscribeOpen ==
  ASSUME LInv, Alone, OpenSubscribed, NEW n \in Nifs, NEW id \in Ids,
         \/ SubscribeRefused(n, id) \/ SubscribeReleased(n, id) \/ SubscribeWaiting(n, id)
  PROVE  OpenSubscribed'
<1>1. CASE SubscribeRefused(n, id)
  <2>1. client' = Told({id}, "denied") /\ UNCHANGED <<service, state, subs>>
    BY <1>1 DEF SubscribeRefused, machine, Keep
  <2>2. \A c \in Ids : client'[c] = "open" => client[c] = "open"
    BY <2>1, ListParts, ToldOpen
  <2>3. QED
    BY <2>1, <2>2, OpenKept
<1>2. CASE SubscribeReleased(n, id) \/ SubscribeWaiting(n, id)
  <2>1. Subscribing(n, id) /\ UNCHANGED client /\ state[n] # "Acquired" /\ service' = service
    BY <1>2 DEF SubscribeReleased, SubscribeWaiting, Keep
  <2>2. n \in Reached(service)
    BY <2>1, SubscribingReaches
  <2>3. service # "es" => \A c \in Ids : client'[c] # "open"
    BY <2>1, <2>2, OpenOf
  <2>4. QED
    BY <2>1, <2>2, <2>3, OpenAgain
<1>3. QED
  BY <1>1, <1>2

LEMMA SubscribeAcquiredOpen ==
  ASSUME LInv, Alone, OpenSubscribed, NEW n \in Nifs, NEW id \in Ids, SubscribeAcquired(n, id)
  PROVE  OpenSubscribed'
<1>. DEFINE s == addSubscriber(subs[n], id)
<1>1. /\ Subscribing(n, id) /\ state[n] = "Acquired" /\ ~EnforceSingle(n)
      /\ client' = Told({id}, "granted") /\ UNCHANGED state /\ Keep
      /\ subs' = [subs EXCEPT ![n] = s]
  BY DEF SubscribeAcquired
<1>2. n \in Reached(service) /\ service' = service
  BY <1>1, SubscribingReaches DEF Keep
<1>3. service # "es" => n = "agnss"
  BY <1>1, <1>2, ListParts DEF Reached, NifOf, Services, KeptTyped, EnforceSingle
<1>4. n = "agnss" => AllActive(subs[n])
  BY ListOf DEF ListFits
<1>5. Wanting(subs[n]) \subseteq Wanting(s) /\ (AllActive(subs[n]) => id \in Wanting(s))
  BY ListOf, AddedList
<1>6. subs'[n] = s /\ state'[n] = "Acquired"
  BY <1>1, ListParts DEF MachineTyped
<1>. HIDE DEF s
<1>7. ASSUME service # "es", NEW c \in Ids, client'[c] = "open"
      PROVE  state'[n] = "Acquired" /\ c \in Wanting(subs'[n])
  <2>1. client[c] = "open" \/ c = id
    BY <1>1, <1>7, ListParts, ToldOpen
  <2>2. client[c] = "open" => c \in Wanting(subs[n])
    BY <1>2, <1>7, OpenOf
  <2>3. QED
    BY <1>3, <1>4, <1>5, <1>6, <1>7, <2>1, <2>2
<1>8. QED
  BY <1>2, <1>7, OpenAgain

LEMMA UnsubscribeOpen ==
  ASSUME LInv, Alone, OpenSubscribed, WifiCalls, NEW n \in Nifs, NEW id \in Ids,
         Unsubscribe(n, id)
  PROVE  OpenSubscribed'
<1>. DEFINE s == Left(n, id)
<1>1. /\ Wanting(s) = Wanting(subs[n]) \ {id} /\ s \in Seq(Subscribers) /\ Single(s)
  BY ListOf, LeftList
<1>2. /\ subs' = [subs EXCEPT ![n] = s]
      /\ state' = [state EXCEPT ![n] = AfterLeave(n, s)]
      /\ client' = (IF n = "wifi" THEN client ELSE Told({id}, "closed"))
      /\ Keep
  BY LeaveIs
<1>3. Unsubscribing(n, id) /\ n \in Reached(service) /\ service' = service
  BY <1>2, UnsubscribingReaches DEF Unsubscribe, Leave, Keep
<1>4. subs'[n] = s /\ state'[n] = AfterLeave(n, s)
  BY <1>2, ListParts DEF MachineTyped
<1>. HIDE DEF s
<1>5. ASSUME service # "es", NEW c \in Ids, client'[c] = "open"
      PROVE  state'[n] = "Acquired" /\ c \in Wanting(subs'[n])
  <2>1. client[c] = "open" /\ c # id
    <3>1. CASE n # "wifi"
      BY <1>2, <1>5, <3>1, ListParts, ToldOpen
    <3>2. CASE n = "wifi"
      <4>1. service = "wifi"
        BY <1>3, <1>5, <3>2, ListParts DEF Reached, NifOf, Services, KeptTyped
      <4>2. CallFits(c, client[c], subs["wifi"], msgs) /\ client[c] = "open"
        BY <1>2, <1>5, <3>2, <4>1 DEF WifiCalls
      <4>3. LetGo(msgs, c) = {}
        BY <4>2 DEF CallFits
      <4>4. 1 \in DOMAIN msgs /\ First = msgs[1]
        BY <1>3, ListParts, TailPlaces DEF Unsubscribing, Take, QueueTyped, First
      <4>5. msgs[1].what = "ReleaseWifi" /\ msgs[1].who = id
        BY <1>3, <3>2, <4>4 DEF Unsubscribing, Take
      <4>6. QED
        BY <4>2, <4>3, <4>4, <4>5 DEF LetGo
    <3>3. QED
      BY <3>1, <3>2
  <2>2. state[n] = "Acquired" /\ c \in Wanting(subs[n])
    BY <1>3, <1>5, <2>1, OpenOf
  <2>3. c \in Wanting(s) /\ s # <<>>
    BY <1>1, <2>1, <2>2 DEF Wanting
  <2>4. QED
    BY <1>4, <2>2, <2>3 DEF AfterLeave
<1>6. QED
  BY <1>3, <1>5, OpenAgain

LEMMA EventOpen ==
  ASSUME LInv, Alone, OpenSubscribed, NEW n \in Nifs,
         \/ Granted(n) \/ ReleasedAcquired(n) \/ ReleasedReleasing(n) \/ DeniedPending(n)
         \/ UnexpectedEvent(n)
  PROVE  OpenSubscribed'
<1>1. CASE UNCHANGED <<state, subs, client>>
  <2>1. service' = service
    BY DEF Granted, ReleasedAcquired, ReleasedReleasing, DeniedPending, UnexpectedEvent, Keep
  <2>2. QED
    BY <1>1, <2>1, OpenKept
<1>2. CASE ~UNCHANGED <<state, subs, client>>
  <2>1. state[n] # "Released" /\ service' = service
    BY <1>2 DEF Granted, ReleasedAcquired, ReleasedReleasing, DeniedPending, UnexpectedEvent,
                Keep, machine
  <2>2. n \in Reached(service)
    BY <2>1, EmergencyOnly DEF Alone
  <2>3. ASSUME service # "es", NEW c \in Ids, client'[c] = "open"
        PROVE  state'[n] = "Acquired" /\ c \in Wanting(subs'[n])
    <3>1. n # "ds"
      BY <2>2, <2>3, ListParts DEF Reached, NifOf, Services, KeptTyped
    <3>2. client[c] = "open" => state[n] = "Acquired" /\ c \in Wanting(subs[n])
      BY <2>2, <2>3, OpenOf
    <3>3. CASE Granted(n)
      <4>1. /\ state[n] = "Pending" /\ state' = [state EXCEPT ![n] = "Acquired"]
            /\ client' = Told(IdsIn(Active(subs[n])), "granted") /\ UNCHANGED subs
        BY <1>2, <3>3 DEF Granted
      <4>2. c \in IdsIn(Active(subs[n]))
        BY <2>3, <3>2, <4>1, ListParts, ToldOpen
      <4>3. c \in Wanting(subs[n])
        BY <4>2, ListOf, ActiveList
      <4>4. QED
        BY <4>1, <4>3, ListParts DEF MachineTyped
    <3>4. CASE ReleasedAcquired(n)
      <4>1. client' = Told(IdsIn(subs[n]), "closed")
        BY <3>1, <3>4 DEF ReleasedAcquired
      <4>2. client[c] = "open" /\ c \notin IdsIn(subs[n])
        BY <2>3, <4>1, ListParts, ToldOpen
      <4>3. QED
        BY <3>2, <4>2 DEF IdsIn, Wanting
    <3>5. CASE ReleasedReleasing(n) \/ DeniedPending(n)
      <4>1. state[n] # "Acquired"
            /\ \E ids : client' = Told(ids, "closed") \/ client' = Told(ids, "denied")
        <5>1. CASE ReleasedReleasing(n)
          BY <3>1, <5>1 DEF ReleasedReleasing
        <5>2. CASE DeniedPending(n)
          BY <3>1, <5>2 DEF DeniedPending
        <5>3. QED
          BY <3>5, <5>1, <5>2
      <4>2. client[c] = "open"
        BY <2>3, <4>1, ListParts, ToldOpen
      <4>3. QED
        BY <3>2, <4>1, <4>2
    <3>6. QED
      BY <1>2, <3>3, <3>4, <3>5 DEF UnexpectedEvent, machine
  <2>4. QED
    BY <2>1, <2>2, <2>3, OpenAgain
<1>3. QED
  BY <1>1, <1>2

LEMMA EngineUpOpen ==
  ASSUME LInv, Alone, OpenSubscribed, loc_eng_handle_engine_up
  PROVE  OpenSubscribed'
<1>1. /\ Take("EngineUp") /\ subs' = [subs EXCEPT !["agnss"] = <<>>]
      /\ UNCHANGED <<service, state, client>>
  BY DEF loc_eng_handle_engine_up, Keep
<1>2. CASE service = "wifi"
  BY <1>1, <1>2, ListParts DEF OpenSubscribed, NifOf, MachineTyped, Nifs
<1>3. CASE service # "wifi"
  <2>1. 1 \in DOMAIN msgs /\ msgs[1].what = "EngineUp"
    BY <1>1, ListParts, TailPlaces DEF Take, QueueTyped, First
  <2>2. \A c \in Ids : client[c] = "idle"
    BY <1>3, <2>1 DEF Alone, RestartQuiet
  <2>3. QED
    BY <1>1, <2>2 DEF OpenSubscribed
<1>4. QED
  BY <1>2, <1>3

LEMMA OthersOpen ==
  ASSUME LInv, Alone, OpenSubscribed,
         \/ NotSubscribed \/ retryCallback \/ ModemRestarts \/ UNCHANGED vars
         \/ \E n \in Nifs, id \in Ids : UnsubscribeReleased(n, id)
         \/ \E c \in Ids : ClientAsks(c) \/ ClientReleases(c)
         \/ \E n \in Nifs : Service(n) \/ ConnectionLost(n)
  PROVE  OpenSubscribed'
<1>1. /\ UNCHANGED <<service, state, subs>>
      /\ \/ UNCHANGED client \/ client' = [c \in Ids |-> "idle"]
         \/ \E ids : client' = Told(ids, "closed")
         \/ \E c \in Ids, b \in {"asked", "closing"} : client' = [client EXCEPT ![c] = b]
  <2>1. CASE NotSubscribed \/ retryCallback \/ ModemRestarts \/ UNCHANGED vars
    BY <2>1 DEF NotSubscribed, retryCallback, ModemRestarts, Keep, machine, vars
  <2>2. CASE \E n \in Nifs, id \in Ids : UnsubscribeReleased(n, id)
    BY <2>2 DEF UnsubscribeReleased, Keep, machine
  <2>3. CASE \E c \in Ids : ClientAsks(c) \/ ClientReleases(c)
    BY <2>3 DEF ClientAsks, ClientReleases, machine
  <2>4. CASE \E n \in Nifs : Service(n) \/ ConnectionLost(n)
    BY <2>4 DEF Service, ServiceTakesRequest, ServiceAnswers, ServiceCloses, ConnectionLost,
                machine
  <2>5. QED
    BY <2>1, <2>2, <2>3, <2>4
<1>2. \A c \in Ids : client'[c] = "open" => client[c] = "open"
  <2>1. CASE UNCHANGED client \/ client' = [c \in Ids |-> "idle"]
    BY <2>1
  <2>2. CASE \E ids : client' = Told(ids, "closed")
    BY <2>2, ListParts, ToldOpen
  <2>3. CASE \E c \in Ids, b \in {"asked", "closing"} : client' = [client EXCEPT ![c] = b]
    BY <2>3, ListParts DEF ClientTyped
  <2>4. QED
    BY <1>1, <2>1, <2>2, <2>3
<1>3. QED
  BY <1>1, <1>2, OpenKept

LEMMA StepOpen ==
  ASSUME LInv, Alone, OpenSubscribed, WifiCalls, [Next]_vars
  PROVE  OpenSubscribed'
<1>1. ASSUME NEW n \in Nifs, NEW id \in Ids,
             \/ SubscribeRefused(n, id) \/ SubscribeReleased(n, id) \/ SubscribeWaiting(n, id)
             \/ SubscribeAcquired(n, id) \/ UnsubscribeReleased(n, id) \/ Unsubscribe(n, id)
      PROVE  OpenSubscribed'
  BY <1>1, SubscribeOpen, SubscribeAcquiredOpen, UnsubscribeOpen, OthersOpen
<1>2. ASSUME NEW id \in Ids, SubscribeDs(id) PROVE OpenSubscribed'
  <2>1. Subscribing("ds", id) /\ "ds" \in Nifs /\ service' = service
    BY <1>2 DEF SubscribeDs, Nifs, Keep
  <2>2. service = "es"
    BY <2>1, SubscribingReaches
  <2>3. QED
    BY <2>1, <2>2 DEF OpenSubscribed
<1>3. ASSUME NEW n \in Nifs,
             \/ Granted(n) \/ ReleasedAcquired(n) \/ ReleasedReleasing(n) \/ DeniedPending(n)
             \/ UnexpectedEvent(n)
      PROVE  OpenSubscribed'
  BY <1>3, EventOpen
<1>4. CASE MsgTask
  BY <1>1, <1>2, <1>3, <1>4, EngineUpOpen, OthersOpen DEF MsgTask
<1>5. CASE ~MsgTask
  BY <1>5, OthersOpen DEF Next
<1>6. QED
  BY <1>4, <1>5

-----------------------------------------------------------------------------
(***************************************************************************)
(* The queue of a WiFi engine: when its first message is taken and when    *)
(* one is added behind it.                                                 *)
(***************************************************************************)
\* m is a report of the WiFi service
IsReport(m) == m.what \in Events /\ m.who = "wifi"

\* whatever q has still to report, p has
Carries(q, p) ==
  /\ Silent(q) => Silent(p)
  /\ \A x : Hearing(q, x) => Hearing(p, x)
  /\ \A x, y : HearingBoth(q, x, y) => HearingBoth(p, x, y)

\* the messages of client c in p are some of those in q, d places before
Thins(q, p, c) ==
  \E d \in {0, 1} :
    /\ \A i \in Requested(p, c) : i + d \in Requested(q, c)
    /\ \A i \in LetGo(p, c) : i + d \in LetGo(q, c)

LEMMA LineCarried ==
  ASSUME NEW st, NEW r, NEW k, NEW q, NEW p, LineFits(st, r, k, q), Carries(q, p)
  PROVE  LineFits(st, r, k, p)
BY DEF LineFits, Carries

LEMMA TailReports ==
  ASSUME NEW q \in Seq(Messages), q # <<>>
  PROVE  /\ Reports(q) \in SUBSET Nat /\ \A i \in Reports(q) : i = 1 \/ 1 < i
         /\ \A i \in Reports(Tail(q)) :
              i \in Nat /\ i + 1 \in Reports(q) /\ Tail(q)[i].what = q[i + 1].what
         /\ \A i \in Reports(q) : i # 1 =>
              i - 1 \in Reports(Tail(q)) /\ Tail(q)[i - 1].what = q[i].what
         /\ 1 \in Reports(q) <=> IsReport(Head(q))
         /\ 1 \in DOMAIN q /\ Head(q) = q[1]
<1>1. /\ Tail(q) \in Seq(Messages) /\ 1 \in DOMAIN q /\ Head(q) = q[1]
      /\ \A i \in DOMAIN Tail(q) : i + 1 \in DOMAIN q /\ Tail(q)[i] = q[i + 1]
      /\ \A i \in DOMAIN q : i # 1 => i - 1 \in DOMAIN Tail(q) /\ Tail(q)[i - 1] = q[i]
  BY TailPlaces
<1>2. /\ \A i \in DOMAIN q : i \in Nat /\ (i = 1 \/ 1 < i)
      /\ \A i \in DOMAIN Tail(q) : i \in Nat
  BY <1>1
<1>3. /\ \A i \in Reports(Tail(q)) :
           i \in Nat /\ i + 1 \in Reports(q) /\ Tail(q)[i].what = q[i + 1].what
      /\ \A i \in Reports(q) : i # 1 =>
           i - 1 \in Reports(Tail(q)) /\ Tail(q)[i - 1].what = q[i].what
      /\ 1 \in Reports(q) <=> IsReport(Head(q))
  BY <1>1, <1>2 DEF Reports, IsReport
<1>4. QED
  BY <1>1, <1>2, <1>3 DEF Reports

\* another message leaves the queue
LEMMA TailCarries ==
  ASSUME NEW q \in Seq(Messages), q # <<>>, ~IsReport(Head(q))
  PROVE  Carries(q, Tail(q))
<1>. DEFINE p == Tail(q)
<1>1. /\ Reports(q) \in SUBSET Nat /\ \A i \in Reports(q) : i # 1
      /\ \A i \in Reports(p) :
           i \in Nat /\ i + 1 \in Reports(q) /\ p[i].what = q[i + 1].what
      /\ \A i \in Reports(q) : i - 1 \in Reports(p) /\ p[i - 1].what = q[i].what
  <2>1. Reports(q) \in SUBSET Nat /\ (1 \in Reports(q) <=> IsReport(Head(q)))
    BY TailReports
  <2>2. \A i \in Reports(q) : i # 1
    BY <2>1
  <2>3. \A i \in Reports(p) :
          i \in Nat /\ i + 1 \in Reports(q) /\ p[i].what = q[i + 1].what
    BY TailReports
  <2>4. \A i \in Reports(q) :
          i # 1 => i - 1 \in Reports(p) /\ p[i - 1].what = q[i].what
    BY TailReports
  <2>5. QED
    BY <2>1, <2>2, <2>3, <2>4
<1>2. Reports(p) \subseteq DOMAIN p /\ Reports(q) \subseteq DOMAIN q
  BY DEF Reports
<1>. HIDE DEF p
<1>3. Silent(q) => Silent(p)
  BY <1>1 DEF Silent
<1>4. ASSUME NEW x, Hearing(q, x) PROVE Hearing(p, x)
  <2>1. PICK i \in DOMAIN q : Reports(q) = {i} /\ q[i].what = x
    BY <1>4 DEF Hearing
  <2>2. i \in Nat /\ i - 1 \in Reports(p) /\ p[i - 1].what = x
    BY <1>1, <2>1
  <2>3. \A j \in Reports(p) : j \in Nat /\ j + 1 = i
    BY <1>1, <2>1
  <2>4. Reports(p) = {i - 1}
    BY <2>2, <2>3
  <2>5. QED
    BY <1>2, <2>2, <2>4 DEF Hearing
<1>5. ASSUME NEW x, NEW y, HearingBoth(q, x, y) PROVE HearingBoth(p, x, y)
  <2>1. PICK i \in DOMAIN q, j \in DOMAIN q :
          i < j /\ Reports(q) = {i, j} /\ q[i].what = x /\ q[j].what = y
    BY <1>5 DEF HearingBoth
  <2>2. /\ i \in Nat /\ i - 1 \in Reports(p) /\ p[i - 1].what = x
        /\ j \in Nat /\ j - 1 \in Reports(p) /\ p[j - 1].what = y
    BY <1>1, <2>1
  <2>3. i - 1 < j - 1
    BY <2>1, <2>2
  <2>4. \A m \in Reports(p) : m = i - 1 \/ m = j - 1
    <3>1. \A m \in Reports(p) : m \in Nat /\ (m + 1 = i \/ m + 1 = j)
      BY <1>1, <2>1
    <3>2. QED
      BY <2>2, <3>1
  <2>5. Reports(p) = {i - 1, j - 1}
    BY <2>2, <2>4
  <2>6. QED
    BY <1>2, <2>2, <2>3, <2>5 DEF HearingBoth
<1>6. QED
  BY <1>3, <1>4, <1>5 DEF Carries, p

\* the first report is heard
LEMMA HeadHeard ==
  ASSUME NEW q \in Seq(Messages), q # <<>>, IsReport(Head(q))
  PROVE  /\ ~Silent(q)
         /\ \A x : Hearing(q, x) => Head(q).what = x /\ Silent(Tail(q))
         /\ \A x, y : HearingBoth(q, x, y) => Head(q).what = x /\ Hearing(Tail(q), y)
<1>. DEFINE p == Tail(q)
<1>1. /\ Reports(q) \in SUBSET Nat /\ 1 \in Reports(q) /\ Head(q) = q[1]
      /\ \A i \in Reports(q) : i = 1 \/ 1 < i
      /\ \A i \in Reports(p) :
           i \in Nat /\ i + 1 \in Reports(q) /\ p[i].what = q[i + 1].what
      /\ \A i \in Reports(q) : i # 1 => i - 1 \in Reports(p) /\ p[i - 1].what = q[i].what
  BY TailReports
<1>2. Reports(p) \subseteq DOMAIN p /\ \A i \in Reports(p) : i # 0
  <2>1. Reports(p) \subseteq DOMAIN p
    BY DEF Reports
  <2>2. Tail(q) \in Seq(Messages)
    OBVIOUS
  <2>3. QED
    BY <2>1, <2>2
<1>. HIDE DEF p
<1>3. ~Silent(q)
  BY <1>1 DEF Silent
<1>4. ASSUME NEW x, Hearing(q, x) PROVE Head(q).what = x /\ Silent(p)
  <2>1. PICK i \in DOMAIN q : Reports(q) = {i} /\ q[i].what = x
    BY <1>4 DEF Hearing
  <2>2. i = 1
    BY <1>1, <2>1
  <2>3. \A j \in Reports(p) : j = 0
    BY <1>1, <2>1, <2>2
  <2>4. QED
    BY <1>1, <1>2, <2>1, <2>2, <2>3 DEF Silent
<1>5. ASSUME NEW x, NEW y, HearingBoth(q, x, y) PROVE Head(q).what = x /\ Hearing(p, y)
  <2>1. PICK i \in DOMAIN q, j \in DOMAIN q :
          i < j /\ Reports(q) = {i, j} /\ q[i].what = x /\ q[j].what = y
    BY <1>5 DEF HearingBoth
  <2>2. i = 1 /\ j # 1 /\ j \in Nat
    BY <1>1, <2>1
  <2>3. j - 1 \in Reports(p) /\ p[j - 1].what = y
    BY <1>1, <2>1, <2>2
  <2>4. \A m \in Reports(p) : m = j - 1
    <3>1. \A m \in Reports(p) : m + 1 = 1 \/ m + 1 = j
      BY <1>1, <2>1, <2>2
    <3>2. QED
      BY <1>1, <1>2, <2>2, <3>1
  <2>5. QED
    BY <1>1, <1>2, <2>1, <2>2, <2>3, <2>4 DEF Hearing
<1>6. QED
  BY <1>3, <1>4, <1>5 DEF p

LEMMA AppendCarries ==
  ASSUME NEW q \in Seq(Messages), NEW m \in Messages, ~IsReport(m)
  PROVE  Carries(q, Append(q, m))
<1>. DEFINE p == Append(q, m)
<1>1. /\ \A i \in DOMAIN p : i \in DOMAIN q \/ i = Len(q) + 1
      /\ p[Len(q) + 1] = m
      /\ \A i \in DOMAIN q : i \in DOMAIN p /\ p[i] = q[i]
  BY AppendPlaces
<1>. HIDE DEF p
<1>2. Reports(p) = Reports(q)
  BY <1>1 DEF Reports, IsReport
<1>3. Silent(q) => Silent(p)
  BY <1>2 DEF Silent
<1>4. \A x : Hearing(q, x) => Hearing(p, x)
  BY <1>1, <1>2 DEF Hearing
<1>5. \A x, y : HearingBoth(q, x, y) => HearingBoth(p, x, y)
  BY <1>1, <1>2 DEF HearingBoth
<1>6. QED
  BY <1>3, <1>4, <1>5 DEF Carries, p

\* the service reports
LEMMA AppendHeard ==
  ASSUME NEW q \in Seq(Messages), NEW m \in Messages, IsReport(m)
  PROVE  /\ Silent(q) => Hearing(Append(q, m), m.what)
         /\ \A x : Hearing(q, x) => HearingBoth(Append(q, m), x, m.what)
<1>. DEFINE p == Append(q, m)
            e == Len(q) + 1
<1>1. /\ \A i \in DOMAIN p : i \in DOMAIN q \/ i = e
      /\ e \in DOMAIN p /\ p[e] = m
      /\ \A i \in DOMAIN q : i \in DOMAIN p /\ p[i] = q[i] /\ i < e
  BY AppendPlaces
<1>. HIDE DEF p, e
<1>2. Reports(p) = Reports(q) \cup {e}
  BY <1>1 DEF Reports, IsReport
<1>3. Silent(q) => Hearing(p, m.what)
  BY <1>1, <1>2 DEF Silent, Hearing
<1>4. ASSUME NEW x, Hearing(q, x) PROVE HearingBoth(p, x, m.what)
  <2>1. PICK i \in DOMAIN q : Reports(q) = {i} /\ q[i].what = x
    BY <1>4 DEF Hearing
  <2>2. Reports(p) = {i, e}
    BY <1>2, <2>1
  <2>3. i \in DOMAIN p /\ i < e /\ p[i].what = x /\ p[e].what = m.what
    BY <1>1, <2>1
  <2>4. QED
    BY <1>1, <2>2, <2>3 DEF HearingBoth
<1>5. QED
  BY <1>3, <1>4 DEF p

LEMMA TailThins ==
  ASSUME NEW q \in Seq(Messages), q # <<>>, NEW c
  PROVE  Thins(q, Tail(q), c)
<1>1. \A i \in DOMAIN Tail(q) : i + 1 \in DOMAIN q /\ Tail(q)[i] = q[i + 1]
  BY TailPlaces
<1>2. /\ \A i \in Requested(Tail(q), c) : i + 1 \in Requested(q, c)
      /\ \A i \in LetGo(Tail(q), c) : i + 1 \in LetGo(q, c)
  BY <1>1 DEF Requested, LetGo
<1>3. QED
  BY <1>2 DEF Thins

LEMMA AppendThins ==
  ASSUME NEW q \in Seq(Messages), NEW m \in Messages, NEW c,
         ~(m.what \in {"RequestWifi", "ReleaseWifi"} /\ m.who = c)
  PROVE  Thins(q, Append(q, m), c)
<1>. DEFINE p == Append(q, m)
<1>1. /\ \A i \in DOMAIN p : i \in DOMAIN q \/ i = Len(q) + 1
      /\ p[Len(q) + 1] = m /\ \A i \in DOMAIN q : p[i] = q[i]
  BY AppendPlaces
<1>2. DOMAIN q \subseteq Nat
  OBVIOUS
<1>. HIDE DEF p
<1>3. /\ \A i \in Requested(p, c) : i + 0 \in Requested(q, c)
      /\ \A i \in LetGo(p, c) : i + 0 \in LetGo(q, c)
  BY <1>1, <1>2 DEF Requested, LetGo
<1>4. QED
  BY <1>3 DEF Thins, p

LEMMA CallThinned ==
  ASSUME NEW c, NEW b, NEW s, NEW t, NEW q \in Seq(Messages), NEW p \in Seq(Messages),
         CallFits(c, b, s, q), Thins(q, p, c), c \in IdsIn(t) => c \in IdsIn(s)
  PROVE  CallFits(c, b, t, p)
<1>1. PICK d \in {0, 1} : /\ \A i \in Requested(p, c) : i + d \in Requested(q, c)
                         /\ \A i \in LetGo(p, c) : i + d \in LetGo(q, c)
  BY DEF Thins
<1>2. Requested(p, c) \subseteq Nat /\ LetGo(p, c) \subseteq Nat
  <2>1. DOMAIN p \subseteq Nat
    OBVIOUS
  <2>2. QED
    BY <2>1 DEF Requested, LetGo
<1>3. /\ Requested(q, c) = {} => Requested(p, c) = {}
      /\ LetGo(q, c) = {} => LetGo(p, c) = {}
  BY <1>1
<1>4. \A i, j \in Requested(p, c) : i = j
  <2>1. \A i, j \in Requested(p, c) : i + d = j + d
    BY <1>1 DEF CallFits
  <2>2. QED
    BY <1>2, <2>1
<1>5. b = "asked" => \A i \in Requested(p, c), j \in LetGo(p, c) : j < i
  <2>1. b = "asked" => \A i \in Requested(p, c), j \in LetGo(p, c) : j + d < i + d
    BY <1>1 DEF CallFits
  <2>2. QED
    BY <1>2, <2>1
<1>6. QED
  BY <1>3, <1>4, <1>5 DEF CallFits

-----------------------------------------------------------------------------
(***************************************************************************)
(* What can happen between a WiFi machine and its service.                 *)
(***************************************************************************)
LEMMA LineGranted ==
  ASSUME NEW st, NEW r, NEW k, NEW q \in Seq(Messages), q # <<>>,
         IsReport(Head(q)), Head(q).what = "Granted", LineFits(st, r, k, q)
  PROVE  LineFits(IF st = "Pending" THEN "Acquired" ELSE st, r, k, Tail(q))
<1>1. /\ ~Silent(q)
      /\ \A x : Hearing(q, x) => x = "Granted" /\ Silent(Tail(q))
      /\ \A x, y : HearingBoth(q, x, y) => x = "Granted" /\ Hearing(Tail(q), y)
  BY HeadHeard
<1>2. QED
  BY <1>1 DEF LineFits

LEMMA LineGone ==
  ASSUME NEW st, NEW r, NEW k, NEW q \in Seq(Messages), q # <<>>,
         IsReport(Head(q)), Head(q).what \in {"Released", "Denied"}, LineFits(st, r, k, q)
  PROVE  /\ LineFits("Released", r, k, Tail(q))
         /\ st # "Released"
         /\ st = "Acquired" => Head(q).what = "Released"
         /\ st = "Pending" => Head(q).what = "Denied"
<1>1. /\ ~Silent(q)
      /\ \A x : Hearing(q, x) => x = Head(q).what /\ Silent(Tail(q))
      /\ \A x, y : HearingBoth(q, x, y) => x = Head(q).what
  BY HeadHeard
<1>2. QED
  BY <1>1 DEF LineFits

Asks == {"request", "release"}

LEMMA AppendOne ==
  ASSUME NEW a \in Asks, NEW b \in Asks
  PROVE  Append(<<a>>, b) = <<a, b>>
<1>. DEFINE s == Append(<<a>>, b)
            t == <<a, b>>
<1>1. s \in Seq(Asks) /\ t \in Seq(Asks)
  OBVIOUS
<1>2. Len(s) = 2 /\ Len(t) = 2 /\ s[1] = t[1] /\ s[2] = t[2]
  OBVIOUS
<1>3. \A i \in 1..2 : s[i] = t[i]
  BY <1>2
<1>. HIDE DEF s, t
<1>4. s = t
  BY <1>1, <1>2, <1>3, SeqEqual
<1>5. QED
  BY <1>4 DEF s, t

LEMMA AppendTwo ==
  ASSUME NEW a \in Asks, NEW b \in Asks, NEW c \in Asks
  PROVE  Append(<<a, b>>, c) = <<a, b, c>>
<1>. DEFINE s == Append(<<a, b>>, c)
            t == <<a, b, c>>
<1>1. s \in Seq(Asks) /\ t \in Seq(Asks)
  OBVIOUS
<1>2. Len(s) = 3 /\ Len(t) = 3 /\ s[1] = t[1] /\ s[2] = t[2] /\ s[3] = t[3]
  OBVIOUS
<1>3. \A i \in 1..3 : s[i] = t[i]
  BY <1>2
<1>. HIDE DEF s, t
<1>4. s = t
  BY <1>1, <1>2, <1>3, SeqEqual
<1>5. QED
  BY <1>4 DEF s, t

LEMMA LineAsked ==
  ASSUME NEW r, NEW k, NEW q, NEW p, LineFits("Released", r, k, q), Carries(q, p)
  PROVE  LineFits("Pending", Append(r, "request"), k, p)
<1>1. r \in {<<>>, <<"release">>} /\ k = "closed" /\ Silent(p)
  BY DEF LineFits, Carries
<1>2. Append(<<>>, "request") = <<"request">>
      /\ Append(<<"release">>, "request") = <<"release", "request">>
  BY AppendOne DEF Asks
<1>3. QED
  BY <1>1, <1>2 DEF LineFits

LEMMA LineLeft ==
  ASSUME NEW st \in {"Pending", "Acquired"}, NEW r, NEW k, NEW q, NEW p,
         LineFits(st, r, k, q), Carries(q, p)
  PROVE  LineFits("Releasing", Append(r, "release"), k, p)
<1>1. LineFits(st, r, k, p)
  BY LineCarried
<1>2. /\ Append(<<>>, "release") = <<"release">>
      /\ Append(<<"request">>, "release") = <<"request", "release">>
      /\ Append(<<"release", "request">>, "release") = <<"release", "request", "release">>
  BY AppendOne, AppendTwo DEF Asks
<1>3. CASE st = "Pending"
  <2>1. CASE r \in {<<"request">>, <<"release", "request">>} /\ k = "closed" /\ Silent(p)
    BY <1>2, <2>1 DEF LineFits
  <2>2. CASE r = <<>>
    BY <1>1, <1>2, <1>3, <2>2 DEF LineFits
  <2>3. QED
    BY <1>1, <1>3, <2>1, <2>2 DEF LineFits
<1>4. CASE st = "Acquired"
  BY <1>1, <1>2, <1>4 DEF LineFits
<1>5. QED
  BY <1>3, <1>4

LEMMA Lines ==
  /\ Head(<<"request">>) = "request" /\ Tail(<<"request">>) = <<>>
  /\ Head(<<"release">>) = "release" /\ Tail(<<"release">>) = <<>>
  /\ Head(<<"release", "request">>) = "release"
  /\ Tail(<<"release", "request">>) = <<"request">>
  /\ Head(<<"request", "release">>) = "request"
  /\ Tail(<<"request", "release">>) = <<"release">>
  /\ Head(<<"release", "request", "release">>) = "release"
  /\ Tail(<<"release", "request", "release">>) = <<"request", "release">>
OBVIOUS

LEMMA LineTaken ==
  ASSUME NEW st, NEW r, NEW k, NEW q, LineFits(st, r, k, q), r # <<>>, Head(r) = "request"
  PROVE  k = "closed" /\ LineFits(st, Tail(r), "opening", q)
<1>1. CASE st = "Pending" /\ r = <<"request">> /\ k = "closed" /\ Silent(q)
  BY <1>1, Lines DEF LineFits
<1>2. CASE st = "Releasing" /\ r = <<"request", "release">> /\ k = "closed" /\ Silent(q)
  BY <1>2, Lines DEF LineFits
<1>3. QED
  BY <1>1, <1>2, Lines DEF LineFits

LEMMA LineAnswered ==
  ASSUME NEW st, NEW r, NEW q \in Seq(Messages), LineFits(st, r, "opening", q),
         NEW m \in Messages, IsReport(m)
  PROVE  /\ m.what = "Granted" => LineFits(st, r, "open", Append(q, m))
         /\ m.what = "Denied" => LineFits(st, r, "closed", Append(q, m))
<1>1. /\ Silent(q)
      /\ \/ st = "Pending" /\ r = <<>>
         \/ st = "Releasing" /\ r = <<"release">>
  BY DEF LineFits
<1>2. Hearing(Append(q, m), m.what)
  BY <1>1, AppendHeard
<1>3. QED
  BY <1>1, <1>2 DEF LineFits

LEMMA LineClosed ==
  ASSUME NEW st, NEW r, NEW k, NEW q \in Seq(Messages), LineFits(st, r, k, q),
         r # <<>>, Head(r) = "release"
  PROVE  /\ k = "closed" => LineFits(st, Tail(r), "closed", q)
         /\ k # "closed" => \A m \in Messages : IsReport(m) /\ m.what = "Released" =>
              LineFits(st, Tail(r), "closed", Append(q, m))
<1>1. CASE k = "closed"
  <2>1. \/ st = "Released" /\ r = <<"release">> /\ Silent(q)
        \/ st = "Pending" /\ r = <<"release", "request">> /\ Silent(q)
        \/ st = "Releasing" /\ r = <<"release", "request", "release">> /\ Silent(q)
        \/ /\ st = "Releasing" /\ r = <<"release">>
           /\ \/ Hearing(q, "Denied") \/ Hearing(q, "Released")
              \/ HearingBoth(q, "Granted", "Released")
    BY <1>1, Lines DEF LineFits
  <2>2. QED
    BY <1>1, <2>1, Lines DEF LineFits
<1>2. CASE k # "closed"
  <2>1. st = "Releasing" /\ r = <<"release">> /\ (Silent(q) \/ Hearing(q, "Granted"))
    BY <1>2, Lines DEF LineFits
  <2>2. SUFFICES ASSUME NEW m \in Messages, IsReport(m), m.what = "Released"
                 PROVE  LineFits(st, Tail(r), "closed", Append(q, m))
    BY <1>2
  <2>3. Hearing(Append(q, m), "Released") \/ HearingBoth(Append(q, m), "Granted", "Released")
    BY <2>1, <2>2, AppendHeard
  <2>4. QED
    BY <2>1, <2>3, Lines DEF LineFits
<1>3. QED
  BY <1>1, <1>2

LEMMA LineLost ==
  ASSUME NEW st, NEW r, NEW q \in Seq(Messages), LineFits(st, r, "open", q),
         NEW m \in Messages, IsReport(m), m.what = "Released"
  PROVE  LineFits(st, r, "closed", Append(q, m))
<1>1. \/ st = "Pending" /\ r = <<>> /\ Hearing(q, "Granted")
      \/ st = "Acquired" /\ r = <<>> /\ Silent(q)
      \/ st = "Releasing" /\ r = <<"release">> /\ (Silent(q) \/ Hearing(q, "Granted"))
  BY DEF LineFits
<1>2. /\ Silent(q) => Hearing(Append(q, m), "Released")
      /\ Hearing(q, "Granted") => HearingBoth(Append(q, m), "Granted", "Released")
  BY AppendHeard
<1>3. QED
  BY <1>1, <1>2 DEF LineFits
-----------------------------------------------------------------------------
(***************************************************************************)
(* The steps of a WiFi engine.                                             *)
(***************************************************************************)
Wifi == WifiCalls /\ WifiLine

LEMMA ServiceKept ==
  ASSUME [Next]_vars
  PROVE  service' = service
<1>1. CASE MsgTask
  <2>1. ASSUME NEW n, NEW id,
               \/ SubscribeDs(id) \/ SubscribeRefused(n, id) \/ SubscribeReleased(n, id)
               \/ SubscribeWaiting(n, id) \/ SubscribeAcquired(n, id)
        PROVE  Keep
    BY <2>1 DEF SubscribeDs, SubscribeRefused, SubscribeReleased, SubscribeWaiting,
                SubscribeAcquired
  <2>2. ASSUME NEW n, NEW id, UnsubscribeReleased(n, id) \/ Unsubscribe(n, id)
        PROVE  Keep
    BY <2>2 DEF UnsubscribeReleased, Unsubscribe, Leave
  <2>3. ASSUME NEW n,
               \/ Granted(n) \/ ReleasedAcquired(n) \/ ReleasedReleasing(n)
               \/ DeniedPending(n) \/ UnexpectedEvent(n)
        PROVE  Keep
    BY <2>3 DEF Granted, ReleasedAcquired, ReleasedReleasing, DeniedPending, UnexpectedEvent
  <2>4. CASE NotSubscribed \/ loc_eng_handle_engine_up
    BY <2>4 DEF NotSubscribed, loc_eng_handle_engine_up, Keep
  <2>5. MsgTask => Keep \/ NotSubscribed \/ loc_eng_handle_engine_up
    BY <2>1, <2>2, <2>3 DEF MsgTask
  <2>6. QED
    BY <1>1, <2>4, <2>5 DEF Keep
<1>2. CASE \E n \in Nifs : Service(n) \/ ConnectionLost(n)
  BY <1>2 DEF Service, ServiceTakesRequest, ServiceAnswers, ServiceCloses, ConnectionLost
<1>3. CASE \E c \in Ids : ClientAsks(c) \/ ClientReleases(c)
  BY <1>3 DEF ClientAsks, ClientReleases
<1>4. CASE retryCallback \/ ModemRestarts \/ UNCHANGED vars
  BY <1>4 DEF retryCallback, ModemRestarts, Keep, vars
<1>5. QED
  BY <1>1, <1>2, <1>3, <1>4 DEF Next

LEMMA WifiNow ==
  ASSUME LInv, service = "wifi", Alone, Wifi
  PROVE  /\ \A c \in Ids : CallFits(c, client[c], subs["wifi"], msgs)
         /\ LineFits(state["wifi"], requests["wifi"], conn["wifi"], msgs)
         /\ \A n \in Nifs : n # "wifi" =>
              state[n] = "Released" /\ subs[n] = <<>> /\ requests[n] = <<>> /\ conn[n] = "closed"
         /\ "wifi" \in Nifs
         /\ \A n \in Nifs : n \in Reached(service) <=> n = "wifi"
         /\ \A i \in DOMAIN msgs : Sender("wifi", msgs[i].what)
<1>1. Reached(service) = {"wifi"}
  BY DEF Reached, NifOf
<1>2. QED
  BY <1>1 DEF Wifi, WifiCalls, WifiLine, Alone, OthersRest, SendersKnown, Nifs

LEMMA HeadPlace ==
  ASSUME LInv, msgs # <<>>
  PROVE  /\ msgs \in Seq(Messages) /\ 1 \in DOMAIN msgs /\ First = msgs[1] /\ First = Head(msgs)
         /\ Tail(msgs) \in Seq(Messages)
BY ListParts, TailPlaces DEF QueueTyped, First

LEMMA PassedOn ==
  ASSUME LInv, service = "wifi", Alone, Wifi, service' = service, UNCHANGED client,
         state'["wifi"] = state["wifi"], subs'["wifi"] = subs["wifi"],
         requests'["wifi"] = requests["wifi"], conn'["wifi"] = conn["wifi"],
         \/ UNCHANGED msgs
         \/ msgs # <<>> /\ Post(<<>>) /\ ~IsReport(First)
         \/ msgs' = Append(msgs, Message("EngineUp", "all"))
  PROVE  Wifi'
<1>1. msgs \in Seq(Messages)
  BY ListParts DEF QueueTyped
<1>2. msgs' \in Seq(Messages) /\ Carries(msgs, msgs') /\ \A c \in Ids : Thins(msgs, msgs', c)
  <2>1. CASE UNCHANGED msgs
    <3>1. \A c : Thins(msgs, msgs, c)
      <4>1. DOMAIN msgs \subseteq Nat
        BY <1>1
      <4>2. \A c : /\ \A i \in Requested(msgs, c) : i + 0 \in Requested(msgs, c)
                   /\ \A i \in LetGo(msgs, c) : i + 0 \in LetGo(msgs, c)
        BY <4>1 DEF Requested, LetGo
      <4>3. QED
        BY <4>2 DEF Thins
    <3>2. QED
      BY <1>1, <2>1, <3>1 DEF Carries
  <2>2. CASE msgs # <<>> /\ Post(<<>>) /\ ~IsReport(First)
    BY <1>1, <2>2, ListParts, PostNothing, HeadPlace, TailCarries, TailThins
  <2>3. CASE msgs' = Append(msgs, Message("EngineUp", "all"))
    <3>1. Message("EngineUp", "all") \in Messages
          /\ Message("EngineUp", "all").what = "EngineUp"
      BY MessageTyped DEF Message
    <3>2. ~IsReport(Message("EngineUp", "all"))
      BY <3>1 DEF IsReport, Events
    <3>3. QED
      BY <1>1, <2>3, <3>1, <3>2, AppendPlaces, AppendCarries, AppendThins
  <2>4. QED
    BY <2>1, <2>2, <2>3
<1>3. LineFits(state["wifi"], requests["wifi"], conn["wifi"], msgs')
  BY <1>2, WifiNow, LineCarried
<1>4. \A c \in Ids : CallFits(c, client[c], subs["wifi"], msgs')
  BY <1>1, <1>2, WifiNow, CallThinned
<1>5. QED
  BY <1>3, <1>4 DEF Wifi, WifiCalls, WifiLine

LEMMA ReportSent ==
  \A what \in Events :
    /\ Message(what, "wifi") \in Messages /\ IsReport(Message(what, "wifi"))
    /\ Message(what, "wifi").what = what
<1>1. ASSUME NEW what \in Events
      PROVE  /\ Message(what, "wifi") \in Messages
             /\ Message(what, "wifi").what = what /\ Message(what, "wifi").who = "wifi"
  BY MessageTyped DEF Message, Nifs
<1>2. QED
  BY <1>1 DEF IsReport

\* the calls, when the list loses subscribers at most and the queue thins
LEMMA CallsKept ==
  ASSUME LInv, service = "wifi", Alone, Wifi, service' = service, UNCHANGED client,
         msgs' \in Seq(Messages), \A c \in Ids : Thins(msgs, msgs', c),
         IdsIn(subs'["wifi"]) \subseteq IdsIn(subs["wifi"])
  PROVE  WifiCalls'
<1>1. msgs \in Seq(Messages)
  BY ListParts DEF QueueTyped
<1>2. \A c \in Ids : CallFits(c, client[c], subs'["wifi"], msgs')
  BY <1>1, WifiNow, CallThinned
<1>3. QED
  BY <1>2 DEF WifiCalls

LEMMA ServiceWifi ==
  ASSUME LInv, service = "wifi", Alone, Wifi, NEW n \in Nifs, Service(n) \/ ConnectionLost(n)
  PROVE  Wifi'
<1>. DEFINE st == state["wifi"]
            r == requests["wifi"]
            k == conn["wifi"]
            m(what) == Message(what, "wifi")
<1>1. requests[n] # <<>> \/ conn[n] # "closed"
  BY DEF Service, ServiceTakesRequest, ServiceAnswers, ServiceCloses, ConnectionLost
<1>2. n = "wifi" /\ "wifi" \in Nifs /\ LineFits(st, r, k, msgs)
  BY <1>1, WifiNow
<1>3. /\ msgs \in Seq(Messages) /\ requests \in [Nifs -> Seq({"request", "release"})]
      /\ conn \in [Nifs -> {"closed", "opening", "open"}]
  BY ListParts DEF QueueTyped, RequestsTyped, KeptTyped
<1>4. /\ UNCHANGED <<service, state, subs, client>>
      /\ \/ UNCHANGED msgs
         \/ \E what \in Events : msgs' = Append(msgs, m(what))
      /\ LineFits(st, requests'["wifi"], conn'["wifi"], msgs')
  <2>1. CASE ServiceTakesRequest(n)
    <3>1. /\ r # <<>> /\ Head(r) = "request" /\ requests' = [requests EXCEPT !["wifi"] = Tail(@)]
          /\ UNCHANGED <<service, state, subs, client>>
      BY <1>2, <2>1 DEF ServiceTakesRequest, machine
    <3>2. k = "closed" /\ LineFits(st, Tail(r), "opening", msgs)
      BY <1>2, <3>1, LineTaken
    <3>3. conn' = [conn EXCEPT !["wifi"] = "opening"] /\ UNCHANGED msgs
      BY <1>2, <2>1, <3>2 DEF ServiceTakesRequest
    <3>4. requests'["wifi"] = Tail(r) /\ conn'["wifi"] = "opening"
      BY <1>2, <1>3, <3>1, <3>3
    <3>5. QED
      BY <3>1, <3>2, <3>3, <3>4
  <2>2. CASE ServiceAnswers(n, TRUE)
    <3>1. /\ k = "opening" /\ conn' = [conn EXCEPT !["wifi"] = "open"]
          /\ msgs' = Append(msgs, m("Granted"))
          /\ UNCHANGED <<service, state, subs, client, requests>>
      BY <1>2, <2>2 DEF ServiceAnswers, loc_eng_agps_open, machine
    <3>2. LineFits(st, r, "open", Append(msgs, m("Granted")))
      BY <1>2, <1>3, <3>1, ReportSent, LineAnswered DEF Events
    <3>3. conn'["wifi"] = "open" /\ "Granted" \in Events
      BY <1>2, <1>3, <3>1 DEF Events
    <3>4. QED
      BY <3>1, <3>2, <3>3
  <2>3. CASE ServiceAnswers(n, FALSE)
    <3>1. /\ k = "opening" /\ conn' = [conn EXCEPT !["wifi"] = "closed"]
          /\ msgs' = Append(msgs, m("Denied"))
          /\ UNCHANGED <<service, state, subs, client, requests>>
      BY <1>2, <2>3 DEF ServiceAnswers, loc_eng_agps_open_failed, machine
    <3>2. LineFits(st, r, "closed", Append(msgs, m("Denied")))
      BY <1>2, <1>3, <3>1, ReportSent, LineAnswered DEF Events
    <3>3. conn'["wifi"] = "closed" /\ "Denied" \in Events
      BY <1>2, <1>3, <3>1 DEF Events
    <3>4. QED
      BY <3>1, <3>2, <3>3
  <2>4. CASE ServiceCloses(n)
    <3>1. /\ r # <<>> /\ Head(r) = "release" /\ requests' = [requests EXCEPT !["wifi"] = Tail(@)]
          /\ conn' = [conn EXCEPT !["wifi"] = "closed"]
          /\ \/ k # "closed" /\ msgs' = Append(msgs, m("Released"))
             \/ k = "closed" /\ UNCHANGED msgs
          /\ UNCHANGED <<service, state, subs, client>>
      BY <1>2, <2>4 DEF ServiceCloses, loc_eng_agps_closed, machine
    <3>2. LineFits(st, Tail(r), "closed", msgs')
      BY <1>2, <1>3, <3>1, ReportSent, LineClosed DEF Events
    <3>3. requests'["wifi"] = Tail(r) /\ conn'["wifi"] = "closed" /\ "Released" \in Events
      BY <1>2, <1>3, <3>1 DEF Events
    <3>4. QED
      BY <3>1, <3>2, <3>3
  <2>5. CASE ConnectionLost(n)
    <3>1. /\ k = "open" /\ conn' = [conn EXCEPT !["wifi"] = "closed"]
          /\ msgs' = Append(msgs, m("Released"))
          /\ UNCHANGED <<service, state, subs, client, requests>>
      BY <1>2, <2>5 DEF ConnectionLost, loc_eng_agps_closed, machine
    <3>2. LineFits(st, r, "closed", Append(msgs, m("Released")))
      BY <1>2, <1>3, <3>1, ReportSent, LineLost DEF Events
    <3>3. conn'["wifi"] = "closed" /\ "Released" \in Events
      BY <1>2, <1>3, <3>1 DEF Events
    <3>4. QED
      BY <3>1, <3>2, <3>3
  <2>6. QED
    BY <2>1, <2>2, <2>3, <2>4, <2>5 DEF Service
<1>5. WifiLine'
  BY <1>4 DEF WifiLine
<1>6. WifiCalls'
  <2>1. CASE UNCHANGED msgs
    BY <1>4, <2>1 DEF Wifi, WifiCalls
  <2>2. ASSUME NEW what \in Events, msgs' = Append(msgs, m(what))
        PROVE  WifiCalls'
    <3>1. m(what) \in Messages /\ m(what).what = what
      BY ReportSent
    <3>2. what \notin {"RequestWifi", "ReleaseWifi"}
      BY DEF Events
    <3>3. msgs' \in Seq(Messages) /\ \A c \in Ids : Thins(msgs, msgs', c)
      BY <1>3, <2>2, <3>1, <3>2, AppendPlaces, AppendThins
    <3>4. QED
      BY <1>4, <3>3, CallsKept
  <2>3. QED
    BY <1>4, <2>1, <2>2
<1>7. QED
  BY <1>5, <1>6 DEF Wifi

\* client c, whose request is handled now
LEMMA RequestNow ==
  ASSUME NEW c, NEW b, NEW s, NEW q \in Seq(Messages), q # <<>>, CallFits(c, b, s, q),
         1 \in Requested(q, c)
  PROVE  /\ Requested(Tail(q), c) = {} /\ c \notin IdsIn(s)
         /\ b \notin {"idle", "open"}
         /\ b = "asked" => LetGo(Tail(q), c) = {}
<1>1. /\ \A i \in DOMAIN Tail(q) : i \in Nat /\ i # 0 /\ i + 1 \in DOMAIN q /\ Tail(q)[i] = q[i + 1]
      /\ DOMAIN q \subseteq Nat \ {0}
  <2>1. Tail(q) \in Seq(Messages)
    OBVIOUS
  <2>2. QED
    BY <2>1, TailPlaces
<1>2. /\ \A i \in Requested(Tail(q), c) : i \in Nat /\ i # 0 /\ i + 1 \in Requested(q, c)
      /\ \A i \in LetGo(Tail(q), c) : i \in Nat /\ i + 1 \in LetGo(q, c)
  BY <1>1 DEF Requested, LetGo
<1>3. Requested(Tail(q), c) = {}
  <2>1. \A i \in Requested(Tail(q), c) : i + 1 = 1
    BY <1>2 DEF CallFits
  <2>2. QED
    BY <1>2, <2>1
<1>4. b = "asked" => LetGo(Tail(q), c) = {}
  <2>1. b = "asked" => \A i \in LetGo(Tail(q), c) : i + 1 < 1
    BY <1>2 DEF CallFits
  <2>2. QED
    BY <1>2, <2>1
<1>5. QED
  BY <1>3, <1>4 DEF CallFits

LEMMA SubscribeWifi ==
  ASSUME LInv, service = "wifi", Alone, Wifi, NEW n \in Nifs, NEW id \in Ids,
         \/ SubscribeRefused(n, id) \/ SubscribeReleased(n, id) \/ SubscribeWaiting(n, id)
         \/ SubscribeAcquired(n, id)
  PROVE  Wifi'
<1>. DEFINE s == addSubscriber(subs["wifi"], id)
<1>1. Subscribing(n, id) /\ Post(<<>>) /\ Keep
  BY DEF SubscribeRefused, SubscribeReleased, SubscribeWaiting, SubscribeAcquired
<1>2. n = "wifi" /\ msgs # <<>> /\ service' = service /\ conn' = conn
  BY <1>1, SubscribingReaches, WifiNow DEF Keep
<1>3. First.what = "RequestWifi" /\ First.who = id
  BY <1>1, <1>2 DEF Subscribing, Take
<1>4. /\ msgs \in Seq(Messages) /\ First = Head(msgs) /\ msgs' = Tail(msgs)
      /\ msgs' \in Seq(Messages) /\ 1 \in Requested(msgs, id)
  BY <1>1, <1>2, <1>3, ListParts, HeadPlace, PostNothing DEF Requested
<1>5. Carries(msgs, msgs') /\ \A c \in Ids : Thins(msgs, msgs', c)
  <2>1. ~IsReport(First)
    BY <1>3 DEF IsReport, Events
  <2>2. QED
    BY <1>2, <1>4, <2>1, TailCarries, TailThins
<1>6. /\ Requested(msgs', id) = {} /\ id \notin IdsIn(subs["wifi"])
      /\ client[id] \in {"asked", "closing"}
      /\ client[id] = "asked" => LetGo(msgs', id) = {}
  <2>1. CallFits(id, client[id], subs["wifi"], msgs)
    BY WifiNow
  <2>2. /\ Requested(msgs', id) = {} /\ id \notin IdsIn(subs["wifi"])
        /\ client[id] \notin {"idle", "open"}
        /\ client[id] = "asked" => LetGo(msgs', id) = {}
    BY <1>2, <1>4, <2>1, RequestNow
  <2>3. client[id] \in {"idle", "asked", "open", "closing"}
    BY ListParts DEF ClientTyped
  <2>4. QED
    BY <2>2, <2>3
<1>7. \A c \in Ids : CallFits(c, client[c], subs["wifi"], msgs')
  BY <1>4, <1>5, WifiNow, CallThinned
<1>8. CASE SubscribeRefused(n, id)
  <2>1. client' = Told({id}, "denied") /\ UNCHANGED <<state, subs, requests>>
    BY <1>8 DEF SubscribeRefused, machine
  <2>2. LineFits(state["wifi"], requests["wifi"], conn["wifi"], msgs')
    BY <1>5, WifiNow, LineCarried
  <2>3. client'[id] = "idle" /\ \A c \in Ids : c # id => client'[c] = client[c]
    BY <1>6, <2>1 DEF Told, Heard
  <2>4. CallFits(id, "idle", subs["wifi"], msgs')
    BY <1>6 DEF CallFits
  <2>5. QED
    BY <1>2, <1>7, <2>1, <2>2, <2>3, <2>4 DEF Wifi, WifiCalls, WifiLine
<1>9. CASE SubscribeReleased(n, id)
  <2>1. /\ state["wifi"] = "Released" /\ UNCHANGED client
        /\ subs' = [subs EXCEPT !["wifi"] = s] /\ SendRequest("wifi", subs'["wifi"])
        /\ state' = [state EXCEPT !["wifi"] = "Pending"]
    BY <1>2, <1>9 DEF SubscribeReleased
  <2>2. subs["wifi"] = <<>> /\ "wifi" \in Nifs
    BY <1>2, <2>1, ListOf DEF ListFits
  <2>3. /\ s \in Seq(Subscribers) /\ Single(s) /\ IdsIn(s) = IdsIn(subs["wifi"]) \cup {id}
        /\ Wanting(s) # {}
    <3>1. AllActive(subs["wifi"])
      BY <2>2 DEF AllActive
    <3>2. QED
      BY <2>2, <3>1, ListOf, AddedList
  <2>. HIDE DEF s
  <2>4. state'["wifi"] = "Pending" /\ subs'["wifi"] = s
    BY <2>1, <2>2, ListParts DEF MachineTyped
  <2>5. requests'["wifi"] = Append(requests["wifi"], "request")
    <3>1. Active(s) # <<>>
      BY <2>3, ActiveList
    <3>2. requests' = [requests EXCEPT !["wifi"] = Append(@, "request")]
      BY <2>1, <2>4, <3>1 DEF SendRequest, Ask
    <3>3. QED
      BY <2>2, <3>2, ListParts DEF RequestsTyped
  <2>6. LineFits("Pending", requests'["wifi"], conn["wifi"], msgs')
    BY <1>5, <2>1, <2>5, WifiNow, LineAsked
  <2>7. ASSUME NEW c \in Ids PROVE CallFits(c, client[c], s, msgs')
    <3>1. CASE c = id
      BY <1>6, <1>7, <2>3, <3>1 DEF CallFits
    <3>2. CASE c # id
      <4>1. CallFits(c, client[c], subs["wifi"], msgs')
        BY <1>7
      <4>2. c \in IdsIn(s) <=> c \in IdsIn(subs["wifi"])
        BY <2>3, <3>2
      <4>3. QED
        BY <4>1, <4>2 DEF CallFits
    <3>3. QED
      BY <3>1, <3>2
  <2>8. QED
    BY <1>2, <2>1, <2>4, <2>6, <2>7 DEF Wifi, WifiCalls, WifiLine
<1>10. ~(SubscribeWaiting(n, id) \/ SubscribeAcquired(n, id))
  BY <1>2 DEF SubscribeWaiting, SubscribeAcquired, EnforceSingle
<1>11. QED
  BY <1>8, <1>9, <1>10

LEMMA UnsubscribeWifi ==
  ASSUME LInv, service = "wifi", Alone, Wifi, NEW n \in Nifs, NEW id \in Ids,
         Unsubscribe(n, id)
  PROVE  Wifi'
<1>. DEFINE s == Left("wifi", id)
            st == AfterLeave("wifi", s)
<1>1. Unsubscribing(n, id)
  BY DEF Unsubscribe, Leave
<1>2. n = "wifi" /\ "wifi" \in Nifs /\ msgs # <<>>
  BY <1>1, UnsubscribingReaches, WifiNow
<1>3. /\ subs' = [subs EXCEPT !["wifi"] = s] /\ state["wifi"] # "Released"
      /\ state' = [state EXCEPT !["wifi"] = st]
      /\ IF state["wifi"] # "Releasing" /\ Wanting(s) = {}
         THEN Ask("wifi", "release") ELSE UNCHANGED requests
      /\ UNCHANGED client /\ Post(<<>>) /\ service' = service /\ conn' = conn
      /\ id \in IdsIn(subs["wifi"])
  BY <1>2, LeaveIs DEF Keep
<1>4. /\ s \in Seq(Subscribers) /\ IdsIn(s) = IdsIn(subs["wifi"]) /\ s # <<>>
      /\ Wanting(s) = Wanting(subs["wifi"]) \ {id}
  BY <1>2, <1>3, ListOf, LeftList DEF WaitForClose
<1>5. state["wifi"] # "Releasing" => Wanting(s) = {}
  <2>1. Len(subs["wifi"]) <= 1 /\ subs["wifi"] \in Seq(Subscribers)
    BY <1>2, ListOf DEF ListFits, EnforceSingle
  <2>2. \A i, j \in DOMAIN subs["wifi"] : i = j
    <3>1. DOMAIN subs["wifi"] = 1..Len(subs["wifi"]) /\ Len(subs["wifi"]) \in Nat
      BY <2>1
    <3>2. QED
      BY <2>1, <3>1
  <2>3. Wanting(subs["wifi"]) \subseteq {id}
    BY <1>3, <2>2 DEF IdsIn, Wanting
  <2>4. QED
    BY <1>4, <2>3
<1>6. /\ subs'["wifi"] = s
      /\ state'["wifi"] = "Releasing"
      /\ requests'["wifi"] = IF state["wifi"] = "Releasing" THEN requests["wifi"]
                             ELSE Append(requests["wifi"], "release")
  BY <1>2, <1>3, <1>4, <1>5, ListParts DEF MachineTyped, RequestsTyped, AfterLeave, Ask
<1>. HIDE DEF s
<1>7. First.what = "ReleaseWifi"
  BY <1>1, <1>2 DEF Unsubscribing, Take
<1>8. /\ msgs \in Seq(Messages) /\ msgs' = Tail(msgs) /\ msgs' \in Seq(Messages)
      /\ Carries(msgs, msgs') /\ \A c \in Ids : Thins(msgs, msgs', c)
  <2>1. ~IsReport(Head(msgs))
    BY <1>2, <1>7, HeadPlace DEF IsReport, Events
  <2>2. msgs \in Seq(Messages) /\ msgs' = Tail(msgs) /\ msgs' \in Seq(Messages)
    BY <1>2, <1>3, ListParts, HeadPlace, PostNothing
  <2>3. QED
    BY <1>2, <2>1, <2>2, TailCarries, TailThins
<1>9. LineFits("Releasing", requests'["wifi"], conn["wifi"], msgs')
  <2>1. CASE state["wifi"] = "Releasing"
    BY <1>6, <1>8, <2>1, WifiNow, LineCarried
  <2>2. CASE state["wifi"] \in {"Pending", "Acquired"}
    BY <1>6, <1>8, <2>2, WifiNow, LineLeft
  <2>3. QED
    BY <1>2, <1>3, <2>1, <2>2, ListOf DEF States
<1>10. WifiCalls'
  BY <1>3, <1>4, <1>6, <1>8, CallsKept
<1>11. QED
  BY <1>3, <1>6, <1>9, <1>10 DEF Wifi, WifiLine

\* the subscribers are told that it is over, and leave
LEMMA GoneCalls ==
  ASSUME LInv, service = "wifi", Alone, Wifi, service' = service,
         NEW ids, NEW what \in {"closed", "denied"}, client' = Told(ids, what),
         ids \subseteq IdsIn(subs["wifi"]), subs'["wifi"] = <<>>,
         msgs' \in Seq(Messages), \A c \in Ids : Thins(msgs, msgs', c)
  PROVE  WifiCalls'
<1>1. msgs \in Seq(Messages) /\ client \in [Ids -> {"idle", "asked", "open", "closing"}]
  BY ListParts DEF QueueTyped, ClientTyped
<1>2. IdsIn(<<>>) = {}
  BY DEF IdsIn
<1>3. SUFFICES ASSUME NEW c \in Ids PROVE CallFits(c, client'[c], <<>>, msgs')
  BY DEF WifiCalls
<1>4. CallFits(c, client[c], <<>>, msgs') /\ CallFits(c, client[c], subs["wifi"], msgs')
  BY <1>1, <1>2, WifiNow, CallThinned
<1>5. CASE c \notin ids \/ client'[c] = client[c]
  BY <1>4, <1>5 DEF Told
<1>6. CASE c \in ids /\ client'[c] # client[c]
  <2>1. client'[c] = "idle"
    BY <1>1, <1>6 DEF Told, Heard
  <2>2. Requested(msgs', c) = {}
    BY <1>4, <1>6 DEF CallFits
  <2>3. QED
    BY <1>2, <2>1, <2>2 DEF CallFits
<1>7. QED
  BY <1>5, <1>6

LEMMA EventWifi ==
  ASSUME LInv, service = "wifi", Alone, Wifi, NEW n \in Nifs,
         \/ Granted(n) \/ ReleasedAcquired(n) \/ ReleasedReleasing(n) \/ DeniedPending(n)
         \/ UnexpectedEvent(n)
  PROVE  Wifi'
<1>1. /\ msgs # <<>> /\ First.who = n /\ First.what \in Events /\ service' = service
      /\ conn' = conn
  BY DEF Granted, ReleasedAcquired, ReleasedReleasing, DeniedPending, UnexpectedEvent, Take,
         Events, Keep
<1>2. CASE n # "wifi"
  <2>1. state[n] = "Released"
    BY <1>2, WifiNow
  <2>2. UNCHANGED <<state, subs, requests, client>> /\ Post(<<>>)
    BY <2>1 DEF Granted, ReleasedAcquired, ReleasedReleasing, DeniedPending, UnexpectedEvent,
                machine
  <2>3. ~IsReport(First)
    BY <1>1, <1>2 DEF IsReport
  <2>4. QED
    BY <1>1, <2>2, <2>3, PassedOn
<1>3. CASE n = "wifi"
  <2>. DEFINE st == state["wifi"]
  <2>1. IsReport(Head(msgs)) /\ First = Head(msgs) /\ msgs \in Seq(Messages) /\ "wifi" \in Nifs
    BY <1>1, <1>3, HeadPlace DEF IsReport
  <2>2. LineFits(st, requests["wifi"], conn["wifi"], msgs)
    BY WifiNow
  <2>3. \A c \in Ids : Thins(msgs, Tail(msgs), c)
    BY <1>1, <2>1, TailThins
  <2>4. CASE Granted(n)
    <3>1. /\ First.what = "Granted" /\ UNCHANGED <<subs, requests>> /\ Post(<<>>)
          /\ IF st = "Pending"
             THEN /\ state' = [state EXCEPT !["wifi"] = "Acquired"]
                  /\ client' = Told(IdsIn(Active(subs["wifi"])), "granted")
             ELSE UNCHANGED <<state, client>>
      BY <1>3, <2>4 DEF Granted, Take
    <3>2. msgs' = Tail(msgs) /\ msgs' \in Seq(Messages)
      BY <1>1, <3>1, ListParts, PostNothing, HeadPlace
    <3>3. state'["wifi"] = (IF st = "Pending" THEN "Acquired" ELSE st)
      BY <2>1, <3>1, ListParts DEF MachineTyped
    <3>4. WifiLine'
      BY <1>1, <2>1, <2>2, <3>1, <3>2, <3>3, LineGranted DEF WifiLine
    <3>5. CASE st # "Pending"
      <4>1. WifiCalls'
        BY <1>1, <2>3, <3>1, <3>2, <3>5, CallsKept
      <4>2. QED
        BY <3>4, <4>1 DEF Wifi
    <3>6. CASE st = "Pending"
      <4>1. Wanting(subs["wifi"]) = IdsIn(Active(subs["wifi"]))
        BY <2>1, ListOf, ActiveList
      <4>2. ASSUME NEW c \in Ids PROVE CallFits(c, client'[c], subs["wifi"], msgs')
        <5>1. CallFits(c, client[c], subs["wifi"], msgs')
          BY <2>1, <2>3, <3>2, WifiNow, CallThinned
        <5>2. CASE client'[c] = client[c]
          BY <5>1, <5>2
        <5>3. CASE client'[c] # client[c]
          <6>1. client'[c] = "open" /\ client[c] = "asked" /\ c \in Wanting(subs["wifi"])
            BY <3>1, <3>6, <4>1, <5>3, ListParts DEF Told, Heard, ClientTyped
          <6>2. c \in IdsIn(subs["wifi"])
            BY <6>1 DEF Wanting, IdsIn
          <6>3. QED
            BY <5>1, <6>1, <6>2 DEF CallFits
        <5>4. QED
          BY <5>2, <5>3
      <4>3. QED
        BY <1>1, <3>1, <3>4, <4>2 DEF Wifi, WifiCalls
    <3>7. QED
      BY <3>5, <3>6
  <2>5. CASE First.what \in {"Released", "Denied"}
    <3>1. /\ LineFits("Released", requests["wifi"], conn["wifi"], Tail(msgs))
          /\ st # "Released"
          /\ st = "Acquired" => First.what = "Released"
          /\ st = "Pending" => First.what = "Denied"
      BY <1>1, <2>1, <2>2, <2>5, LineGone
    <3>2. /\ state' = [state EXCEPT !["wifi"] = "Released"]
          /\ subs' = [subs EXCEPT !["wifi"] = <<>>]
          /\ UNCHANGED requests /\ Post(<<>>)
          /\ \E ids \in SUBSET IdsIn(subs["wifi"]), what \in {"closed", "denied"} :
               client' = Told(ids, what)
      <4>1. CASE ReleasedAcquired(n)
        <5>1. client' = Told(IdsIn(subs["wifi"]), "closed")
          BY <1>3, <4>1 DEF ReleasedAcquired
        <5>2. QED
          BY <1>3, <4>1, <5>1 DEF ReleasedAcquired
      <4>2. CASE DeniedPending(n)
        <5>1. client' = Told(IdsIn(subs["wifi"]), "denied") /\ Post(<<>>)
          BY <1>3, <4>2 DEF DeniedPending
        <5>2. QED
          BY <1>3, <4>2, <5>1 DEF DeniedPending
      <4>3. CASE ReleasedReleasing(n)
        <5>1. /\ st = "Releasing"
              /\ subs' = [subs EXCEPT !["wifi"] = Active(subs["wifi"])]
              /\ state' = [state EXCEPT !["wifi"] =
                             IF Active(subs["wifi"]) = <<>> THEN "Released" ELSE "Pending"]
              /\ client' = Told(IdsIn(Inactive(subs["wifi"])),
                                IF First.what = "Denied" THEN "denied" ELSE "closed")
              /\ AskedAgain("wifi", Active(subs["wifi"]))
          BY <1>3, <4>3, ReleasingIs
        <5>2. subs["wifi"] \in Seq(Subscribers) /\ Single(subs["wifi"])
          BY <2>1, ListOf
        <5>3. Wanting(subs["wifi"]) = {}
          BY <2>1, <5>1, ListOf DEF ListFits
        <5>4. Active(subs["wifi"]) = <<>>
          BY <5>3, <5>2, ActiveList
        <5>5. IdsIn(Inactive(subs["wifi"])) \subseteq IdsIn(subs["wifi"])
          <6>. DEFINE I == {i \in DOMAIN subs["wifi"] : subs["wifi"][i].inactive}
                      t == Inactive(subs["wifi"])
          <6>1. t = Pick(subs["wifi"], I) /\ I \in SUBSET (DOMAIN subs["wifi"])
            BY DEF Inactive
          <6>. HIDE DEF I, t
          <6>2. \A k \in DOMAIN t : \E i \in I : t[k] = subs["wifi"][i]
            BY <5>2, <6>1, PickList
          <6>3. QED
            BY <6>1, <6>2 DEF IdsIn, t
        <5>6. QED
          BY <5>1, <5>4, <5>5 DEF AskedAgain
      <4>4. ~UnexpectedEvent(n)
        BY <1>3, <3>1 DEF UnexpectedEvent, Take
      <4>5. ~Granted(n)
        BY <2>5 DEF Granted, Take
      <4>6. QED
        BY <4>1, <4>2, <4>3, <4>4, <4>5
    <3>3. msgs' = Tail(msgs) /\ msgs' \in Seq(Messages)
      BY <1>1, <3>2, ListParts, PostNothing, HeadPlace
    <3>4. state'["wifi"] = "Released" /\ subs'["wifi"] = <<>>
      BY <2>1, <3>2, ListParts DEF MachineTyped
    <3>5. WifiLine'
      BY <1>1, <3>1, <3>2, <3>3, <3>4 DEF WifiLine
    <3>6. WifiCalls'
      BY <1>1, <2>3, <3>2, <3>3, <3>4, GoneCalls
    <3>7. QED
      BY <3>5, <3>6 DEF Wifi
  <2>6. QED
    BY <1>1, <2>4, <2>5
       DEF ReleasedAcquired, ReleasedReleasing, DeniedPending, UnexpectedEvent, Take
<1>4. QED
  BY <1>2, <1>3

LEMMA ClientWifi ==
  ASSUME LInv, service = "wifi", Alone, Wifi, NEW c \in Ids, ClientAsks(c) \/ ClientReleases(c)
  PROVE  Wifi'
<1>. DEFINE what == IF ClientAsks(c) THEN "RequestWifi" ELSE "ReleaseWifi"
            m == Message(what, c)
            p == Append(msgs, m)
            e == Len(msgs) + 1
<1>1. /\ UNCHANGED <<service, state, subs, requests, conn>> /\ msgs' = p
      /\ client' = [client EXCEPT ![c] = IF ClientAsks(c) THEN "asked" ELSE "closing"]
      /\ IF ClientAsks(c) THEN client[c] = "idle" ELSE client[c] \in {"asked", "open"}
  <2>1. CASE ClientAsks(c)
    BY <2>1 DEF ClientAsks, machine
  <2>2. CASE ~ClientAsks(c)
    BY <2>2 DEF ClientReleases, machine
  <2>3. QED
    BY <2>1, <2>2
<1>2. m \in Messages /\ m.what = what /\ m.who = c /\ what \notin Events
  BY MessageTyped DEF Message, Ours, Events
<1>3. msgs \in Seq(Messages)
  BY ListParts DEF QueueTyped
<1>. HIDE DEF m
<1>4. /\ p \in Seq(Messages) /\ e \in DOMAIN p /\ p[e] = m
      /\ \A i \in DOMAIN p : i \in DOMAIN msgs \/ i = e
      /\ \A i \in DOMAIN msgs : i \in DOMAIN p /\ p[i] = msgs[i] /\ i < e
  BY <1>2, <1>3, AppendPlaces
<1>5. LineFits(state["wifi"], requests["wifi"], conn["wifi"], p)
  <2>1. Carries(msgs, p)
    BY <1>2, <1>3, AppendCarries DEF IsReport
  <2>2. QED
    BY <2>1, WifiNow, LineCarried
<1>6. ASSUME NEW x \in Ids, x # c
      PROVE  CallFits(x, client'[x], subs["wifi"], p)
  <2>1. client'[x] = client[x]
    BY <1>1, <1>6
  <2>2. Thins(msgs, p, x)
    BY <1>2, <1>3, <1>6, AppendThins
  <2>3. CallFits(x, client[x], subs["wifi"], msgs)
    BY WifiNow
  <2>. HIDE DEF p
  <2>4. QED
    BY <1>3, <1>4, <2>1, <2>2, <2>3, CallThinned
<1>7. CallFits(c, client'[c], subs["wifi"], p)
  <2>1. CallFits(c, client[c], subs["wifi"], msgs)
    BY WifiNow
  <2>2. client \in [Ids -> {"idle", "asked", "open", "closing"}]
    BY ListParts DEF ClientTyped
  <2>3. CASE ClientAsks(c)
    <3>1. client[c] = "idle" /\ client'[c] = "asked" /\ what = "RequestWifi"
      BY <1>1, <2>2, <2>3
    <3>2. Requested(msgs, c) = {} /\ c \notin IdsIn(subs["wifi"])
      BY <2>1, <3>1 DEF CallFits
    <3>. HIDE DEF p, e, what
    <3>3. Requested(p, c) = {e}
      BY <1>2, <1>4, <3>1, <3>2 DEF Requested
    <3>4. \A j \in LetGo(p, c) : j < e
      BY <1>2, <1>4, <3>1 DEF LetGo
    <3>5. QED
      BY <3>1, <3>2, <3>3, <3>4 DEF CallFits
  <2>4. CASE ~ClientAsks(c)
    <3>1. client'[c] = "closing" /\ what = "ReleaseWifi"
      BY <1>1, <2>2, <2>4
    <3>. HIDE DEF p, e, what
    <3>2. Requested(p, c) = Requested(msgs, c)
      BY <1>2, <1>4, <3>1 DEF Requested
    <3>3. QED
      BY <2>1, <3>1, <3>2 DEF CallFits
  <2>5. QED
    BY <2>3, <2>4
<1>8. \A x \in Ids : CallFits(x, client'[x], subs["wifi"], p)
  BY <1>6, <1>7
<1>. HIDE DEF p
<1>9. QED
  BY <1>1, <1>5, <1>8 DEF Wifi, WifiCalls, WifiLine

\* the steps that neither the WiFi machine nor a WiFi client takes part in
LEMMA OthersWifi ==
  ASSUME LInv, service = "wifi", Alone, Wifi,
         \/ NotSubscribed \/ loc_eng_handle_engine_up \/ retryCallback \/ ModemRestarts
         \/ UNCHANGED vars
  PROVE  Wifi'
<1>1. CASE NotSubscribed
  <2>1. msgs # <<>> /\ First.what \in {"ReleaseATL", "ReleaseWifi"}
    BY <1>1 DEF NotSubscribed, Take
  <2>2. First.what # "ReleaseATL"
    BY <2>1, WifiNow, HeadPlace DEF Sender
  <2>3. UNCHANGED <<service, client, state, subs, requests, conn>> /\ Post(<<>>)
    BY <1>1, <2>2 DEF NotSubscribed, Take, Keep, machine
  <2>4. ~IsReport(First)
    BY <2>1 DEF IsReport, Events
  <2>5. QED
    BY <2>1, <2>3, <2>4, PassedOn
<1>2. CASE loc_eng_handle_engine_up
  <2>1. /\ msgs # <<>> /\ First.what = "EngineUp" /\ Post(<<>>)
        /\ UNCHANGED <<service, client, state, requests, conn>>
        /\ subs' = [subs EXCEPT !["agnss"] = <<>>]
    BY <1>2 DEF loc_eng_handle_engine_up, Take, Keep
  <2>2. subs'["wifi"] = subs["wifi"]
    BY <2>1, ListParts DEF MachineTyped, Nifs
  <2>3. ~IsReport(First)
    BY <2>1 DEF IsReport, Events
  <2>4. QED
    BY <2>1, <2>2, <2>3, PassedOn
<1>3. CASE retryCallback
  <2>1. msgs' = msgs \o Resubscribe /\ UNCHANGED <<service, client, state, subs, requests, conn>>
    BY <1>3 DEF retryCallback, Resubscribe, Keep
  <2>2. Resubscribe = <<>> /\ msgs \in Seq(Messages)
    BY ListParts, ResubscribeTyped, WifiNow DEF Nifs, QueueTyped
  <2>3. msgs' = msgs
    BY <2>1, <2>2, ConcatEmptySeq
  <2>4. QED
    BY <2>1, <2>3, PassedOn
<1>4. CASE ModemRestarts
  <2>1. /\ UNCHANGED <<service, client, state, subs, requests, conn>>
        /\ msgs' = Append(msgs, Message("EngineUp", "all"))
    BY <1>4 DEF ModemRestarts, machine
  <2>2. QED
    BY <2>1, PassedOn
<1>5. CASE UNCHANGED vars
  <2>1. UNCHANGED <<service, client, state, subs, requests, conn, msgs>>
    BY <1>5 DEF vars, machine
  <2>2. QED
    BY <2>1, PassedOn
<1>6. QED
  BY <1>1, <1>2, <1>3, <1>4, <1>5

LEMMA StepWifi ==
  ASSUME LInv, Alone, Wifi, [Next]_vars
  PROVE  Wifi'
<1>1. service' = service
  BY ServiceKept
<1>2. CASE service # "wifi"
  BY <1>1, <1>2 DEF Wifi, WifiCalls, WifiLine
<1>3. CASE service = "wifi"
  <2>1. ASSUME NEW n \in Nifs, NEW id \in Ids,
               \/ SubscribeRefused(n, id) \/ SubscribeReleased(n, id)
               \/ SubscribeWaiting(n, id) \/ SubscribeAcquired(n, id) \/ Unsubscribe(n, id)
        PROVE  Wifi'
    BY <1>3, <2>1, SubscribeWifi, UnsubscribeWifi
  <2>2. ASSUME NEW id \in Ids, SubscribeDs(id) PROVE FALSE
    <3>1. Subscribing("ds", id) /\ "ds" \in Nifs
      BY <2>2 DEF SubscribeDs, Nifs
    <3>2. QED
      BY <1>3, <3>1, SubscribingReaches
  <2>3. ASSUME NEW n \in Nifs, NEW id \in Ids, UnsubscribeReleased(n, id) PROVE FALSE
    <3>1. Unsubscribing(n, id) /\ state[n] = "Released" /\ id \in IdsIn(subs[n])
      BY <2>3 DEF UnsubscribeReleased, Unsubscribing
    <3>2. n = "wifi"
      BY <1>3, <3>1, UnsubscribingReaches, WifiNow
    <3>3. subs[n] = <<>>
      BY <3>1, <3>2, ListOf DEF ListFits
    <3>4. QED
      BY <3>1, <3>3 DEF IdsIn
  <2>4. ASSUME NEW n \in Nifs,
               \/ Granted(n) \/ ReleasedAcquired(n) \/ ReleasedReleasing(n)
               \/ DeniedPending(n) \/ UnexpectedEvent(n)
        PROVE  Wifi'
    BY <1>3, <2>4, EventWifi
  <2>5. CASE MsgTask
    BY <1>3, <2>1, <2>2, <2>3, <2>4, <2>5, OthersWifi DEF MsgTask
  <2>6. CASE \E c \in Ids : ClientAsks(c) \/ ClientReleases(c)
    BY <1>3, <2>6, ClientWifi
  <2>7. CASE \E n \in Nifs : Service(n) \/ ConnectionLost(n)
    BY <1>3, <2>7, ServiceWifi
  <2>8. QED
    BY <1>3, <2>5, <2>6, <2>7, OthersWifi DEF Next
<1>4. QED
  BY <1>2, <1>3

-----------------------------------------------------------------------------
(***************************************************************************)
(* Whoever believes its connection open has it.                            *)
(***************************************************************************)
LEMMA CallParts ==
  CInv <=> Alone /\ OpenSubscribed /\ Wifi
BY DEF CInv, Alone, Wifi

LEMMA CallPartsNext ==
  CInv' <=> Alone' /\ OpenSubscribed' /\ Wifi'
BY DEF CInv, Alone, Wifi

LEMMA InitialCalls ==
  ASSUME Init
  PROVE  CInv
<1>1. /\ service \in Services /\ state = [n \in Nifs |-> "Released"]
      /\ subs = [n \in Nifs |-> <<>>] /\ msgs = <<>> /\ requests = [n \in Nifs |-> <<>>]
      /\ conn = [n \in Nifs |-> "closed"] /\ client = [c \in Ids |-> "idle"]
  BY DEF Init
<1>2. DOMAIN <<>> = {} /\ IdsIn(<<>>) = {} /\ Silent(<<>>)
      /\ \A c : Requested(<<>>, c) = {} /\ LetGo(<<>>, c) = {}
  BY DEF IdsIn, Silent, Reports, Requested, LetGo
<1>3. Alone
  BY <1>1, <1>2 DEF Alone, OthersRest, SendersKnown, RestartQuiet
<1>4. OpenSubscribed
  BY <1>1 DEF OpenSubscribed
<1>5. \A c \in Ids : CallFits(c, "idle", <<>>, <<>>)
  BY <1>2 DEF CallFits
<1>6. LineFits("Released", <<>>, "closed", <<>>)
  BY <1>2 DEF LineFits
<1>7. WifiCalls /\ WifiLine
  BY <1>1, <1>5, <1>6 DEF WifiCalls, WifiLine, Nifs
<1>8. QED
  BY <1>3, <1>4, <1>7, CallParts DEF Wifi

LEMMA StepCalls == LInv /\ CInv /\ [Next]_vars => CInv'
<1>. SUFFICES ASSUME LInv, CInv, [Next]_vars PROVE CInv'
  OBVIOUS
<1>1. Alone /\ OpenSubscribed /\ Wifi /\ WifiCalls
  BY CallParts DEF Wifi
<1>2. Alone'
  BY <1>1, StepAlone
<1>3. OpenSubscribed'
  BY <1>1, StepOpen
<1>4. Wifi'
  BY <1>1, StepWifi
<1>5. QED
  BY <1>2, <1>3, <1>4, CallPartsNext

(* A client that was told its connection is open is an active subscriber   *)
(* of a machine that has it: no event of an earlier request or connection  *)
(* leaves it with one that nobody holds (loc_eng_agps.cpp, onRsrcEvent).   *)
(* And once everything sent has arrived, the WiFi machine and the          *)
(* connection agree.                                                       *)
THEOREM OpenAlwaysHeld == Spec => []OpenIsHeld
<1>1. LInv /\ CInv => OpenIsHeld
  <2>. SUFFICES ASSUME LInv, CInv PROVE OpenIsHeld
    OBVIOUS
  <2>1. ASSUME service # "es", NEW c \in Ids, client[c] = "open"
        PROVE  /\ state[NifOf[service]] = "Acquired"
               /\ c \in IdsIn(Active(subs[NifOf[service]]))
    <3>. DEFINE n == NifOf[service]
    <3>1. state[n] = "Acquired" /\ c \in Wanting(subs[n])
      BY <2>1 DEF CInv, OpenSubscribed
    <3>2. n \in Nifs
      BY <2>1, ListParts DEF KeptTyped, Services, NifOf, Nifs
    <3>3. subs[n] \in Seq(Subscribers) /\ Single(subs[n])
      BY <3>2, ListOf
    <3>4. IdsIn(Active(subs[n])) = Wanting(subs[n])
      BY <3>3, ActiveList
    <3>5. QED
      BY <3>1, <3>4
  <2>2. ASSUME requests["wifi"] = <<>>, conn["wifi"] # "opening", msgs = <<>>
        PROVE  state["wifi"] = "Acquired" <=> conn["wifi"] = "open"
    <3>1. CASE service # "wifi"
      <4>1. "wifi" \in Nifs \ Reached(service)
        BY <3>1, ListParts DEF KeptTyped, Services, Reached, NifOf, Nifs
      <4>2. QED
        BY <4>1 DEF CInv, OthersRest
    <3>2. CASE service = "wifi"
      <4>1. /\ \A x : ~Hearing(<<>>, x)
            /\ \A x, y : ~HearingBoth(<<>>, x, y)
        BY DEF Hearing, HearingBoth
      <4>2. LineFits(state["wifi"], <<>>, conn["wifi"], <<>>)
        BY <2>2, <3>2 DEF CInv, WifiLine
      <4>3. <<>> \notin {<<"request">>, <<"release", "request">>, <<"release">>,
                         <<"request", "release">>, <<"release", "request", "release">>}
        OBVIOUS
      <4>4. QED
        BY <2>2, <4>1, <4>2, <4>3 DEF LineFits
    <3>3. QED
      BY <3>1, <3>2
  <2>3. QED
    BY <2>1, <2>2 DEF OpenIsHeld
<1>2. Init => CInv
  BY InitialCalls
<1>3. QED
  BY <1>1, <1>2, ListsHold, StepCalls, PTL DEF Spec
=============================================================================
