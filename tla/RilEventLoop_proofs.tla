------------------------ MODULE RilEventLoop_proofs ------------------------
(***************************************************************************)
(* Proofs about RilEventLoop, for any threads, blocks, delays and length   *)
(* of the run.                                                             *)
(***************************************************************************)
EXTENDS RilEventLoop, SequenceTheorems, WellFoundedInduction, TLAPS

LoopPlaces == {"none", "init", "pipe", "watch", "calc", "select", "timeouts", "readies",
               "fire", "callback", "gone"}

Types ==
  /\ now \in 0 .. MaxTime /\ main \in {"start", "wait", "up"} /\ s_started \in BOOLEAN
  /\ pipe \in [open : BOOLEAN, byte : BOOLEAN] /\ watch_table \subseteq {Wakeup}
  /\ timer_list \in Seq(Infos) /\ pending_list \in Seq(Infos \cup {Wakeup})
  /\ timeout \in [Infos -> 0 .. MaxTime] /\ block \in [Infos -> {"free", "used"}]
  /\ pc \in [Threads -> {"idle", "added"}]
  /\ loop \in [at : LoopPlaces, until : 0 .. Never, woken : BOOLEAN, info : Infos \cup {NoInfo}]

Timers == ToSet(timer_list)
Pending == ToSet(pending_list)

\* before its lists are there the loop's thread is the only one that runs
StartInv ==
  /\ main = "start" => loop.at = "none"
  /\ loop.at = "init" => main = "wait"
  /\ loop.at \in {"none", "init"} => ~s_started /\ timer_list = <<>>

\* the pending list is filled and emptied in one round
RoundInv ==
  /\ loop.at \notin {"readies", "fire", "callback"} => pending_list = <<>>
  /\ loop.at = "readies" => Wakeup \notin Pending

\* a block in use is in one place
PlaceInv ==
  /\ IsInjective(timer_list) /\ IsInjective(pending_list)
  /\ Timers \cap Pending = {}
  /\ loop.info # NoInfo <=> loop.at = "callback"
  /\ loop.info \notin Timers /\ (loop.info # NoInfo => loop.info \notin Pending)
  /\ \A p \in Infos : block[p] = "used" <=> p \in Timers \cup Pending \cup {loop.info}

\* both lists are sorted; what is pending is due, and due before what is not
OrderInv ==
  /\ \A i, j \in DOMAIN timer_list : i =< j => timeout[timer_list[i]] =< timeout[timer_list[j]]
  /\ \A i, j \in DOMAIN pending_list :
       i =< j /\ pending_list[i] # Wakeup /\ pending_list[j] # Wakeup =>
         timeout[pending_list[i]] =< timeout[pending_list[j]]
  /\ \A p \in Pending \ {Wakeup} :
       now > timeout[p] /\ \A q \in Timers : timeout[p] =< timeout[q]

\* The inductive invariant.
IInv == Types /\ StartInv /\ RoundInv /\ PlaceInv /\ OrderInv /\ InOrder

-----------------------------------------------------------------------------
(***************************************************************************)
(* The lists.                                                              *)
(***************************************************************************)
LEMMA MinIsLeast ==
  ASSUME NEW S \in SUBSET Nat, S # {}
  PROVE  Min(S) \in S /\ \A y \in S : Min(S) =< y
<1>1. PICK x \in S : \A y \in S : ~(<<y, x>> \in OpToRel(<, Nat))
  BY NatLessThanWellFounded, WFMin
<1>2. \A y \in S : x =< y
  <2> TAKE y \in S
  <2>1. x \in Nat /\ y \in Nat
    OBVIOUS
  <2>2. ~(y < x)
    BY <1>1, <2>1 DEF OpToRel
  <2>3. QED
    BY <2>1, <2>2
<1>3. QED
  BY <1>2, Zenon DEF Min

LEMMA InsertedAt ==
  ASSUME NEW S, NEW s \in Seq(S), NEW e \in S, NEW k \in 1 .. Len(s) + 1
  PROVE  /\ InsertAt(s, k, e) \in Seq(S)
         /\ Len(InsertAt(s, k, e)) = Len(s) + 1
         /\ \A i \in 1 .. Len(s) + 1 :
              InsertAt(s, k, e)[i] = IF i < k THEN s[i] ELSE IF i = k THEN e ELSE s[i - 1]
<1> DEFINE before == SubSeq(s, 1, k - 1)
           after == SubSeq(s, k, Len(s))
<1>1. Len(s) \in Nat /\ \A i \in 1 .. Len(s) : s[i] \in S
  BY LenProperties, ElementOfSeq
<1>2. /\ before \in Seq(S) /\ Len(before) = k - 1
      /\ \A i \in 1 .. k - 1 : before[i] = s[i]
  <2>1. \A i \in 1 .. k - 1 : s[i] \in S
    BY <1>1
  <2>2. QED
    BY <1>1, <2>1, SubSeqProperties
<1>3. /\ after \in Seq(S) /\ Len(after) = Len(s) - k + 1
      /\ \A i \in 1 .. Len(s) - k + 1 : after[i] = s[k + i - 1]
  <2>1. \A i \in k .. Len(s) : s[i] \in S
    BY <1>1
  <2>2. QED
    BY <1>1, <2>1, SubSeqProperties
<1>4. <<e>> \in Seq(S) /\ Len(<<e>>) = 1 /\ <<e>>[1] = e
  OBVIOUS
<1>5. /\ before \o <<e>> \in Seq(S) /\ Len(before \o <<e>>) = k
      /\ \A i \in 1 .. k : (before \o <<e>>)[i] = IF i < k THEN s[i] ELSE e
  BY <1>1, <1>2, <1>4, ConcatProperties
<1> HIDE DEF before, after
<1>6. InsertAt(s, k, e) = (before \o <<e>>) \o after
  BY DEF InsertAt, before, after
<1>7. /\ (before \o <<e>>) \o after \in Seq(S)
      /\ Len((before \o <<e>>) \o after) = Len(s) + 1
      /\ \A i \in 1 .. Len(s) + 1 : ((before \o <<e>>) \o after)[i] =
           IF i <= k THEN (before \o <<e>>)[i] ELSE after[i - k]
  BY <1>1, <1>3, <1>5, ConcatProperties, SMTT(30)
<1>8. \A i \in 1 .. Len(s) + 1 : i > k => after[i - k] = s[i - 1]
  BY <1>1, <1>3
<1>9. QED
  BY <1>1, <1>5, <1>6, <1>7, <1>8

\* where ril_timer_add puts a new event
LEMMA AddPlace ==
  ASSUME Types, NEW p \in Infos, NEW due \in 0 .. MaxTime, ril_timer_add(p, due)
  PROVE  \E k \in 1 .. Len(timer_list) + 1 :
           /\ timer_list' \in Seq(Infos) /\ Len(timer_list') = Len(timer_list) + 1
           /\ \A i \in 1 .. Len(timer_list) + 1 :
                timer_list'[i] = IF i < k THEN timer_list[i]
                                 ELSE IF i = k THEN p ELSE timer_list[i - 1]
           /\ \A i \in 1 .. k - 1 : timeout[timer_list[i]] < due
           /\ k =< Len(timer_list) => timeout[timer_list[k]] >= due
<1> DEFINE I == {i \in 1 .. Len(timer_list) : timeout[timer_list[i]] >= due}
<1>1. /\ timer_list \in Seq(Infos) /\ Len(timer_list) \in Nat
      /\ \A i \in 1 .. Len(timer_list) : timer_list[i] \in Infos /\ timeout[timer_list[i]] \in Nat
      /\ due \in Nat
  BY DelaysBound, LenProperties, ElementOfSeq DEF Types
<1>2. timer_list' = IF (IF I # {} THEN Min(I) ELSE 0) = 0 THEN Append(timer_list, p)
                    ELSE InsertAt(timer_list, (IF I # {} THEN Min(I) ELSE 0), p)
  BY DEF ril_timer_add, SelectInSeq
<1>3. CASE I = {}
  <2>1. timer_list' = Append(timer_list, p)
    BY <1>2, <1>3
  <2>2. \A i \in 1 .. Len(timer_list) : timeout[timer_list[i]] < due
    BY <1>1, <1>3
  <2>3. WITNESS Len(timer_list) + 1 \in 1 .. Len(timer_list) + 1
  <2>4. QED
    BY <1>1, <2>1, <2>2, AppendProperties
<1>4. CASE I # {}
  <2>1. Min(I) \in I /\ \A i \in I : Min(I) =< i
    <3>1. I \in SUBSET Nat
      BY <1>1
    <3>2. QED
      BY <1>4, <3>1, MinIsLeast
  <2>2. PICK k \in 1 .. Len(timer_list) : k = Min(I)
    BY <2>1
  <2>3. timer_list' = InsertAt(timer_list, k, p)
    BY <1>1, <1>2, <1>4, <2>2
  <2>4. \A i \in 1 .. k - 1 : timeout[timer_list[i]] < due
    <3> SUFFICES ASSUME NEW i \in 1 .. k - 1, timeout[timer_list[i]] >= due
                 PROVE  FALSE
      BY <1>1
    <3>1. i \in I
      BY <1>1
    <3>2. QED
      BY <2>1, <2>2, <3>1
  <2>5. timeout[timer_list[k]] >= due
    BY <2>1, <2>2
  <2> HIDE DEF I
  <2>6. /\ timer_list' \in Seq(Infos) /\ Len(timer_list') = Len(timer_list) + 1
        /\ \A i \in 1 .. Len(timer_list) + 1 :
             timer_list'[i] = IF i < k THEN timer_list[i]
                              ELSE IF i = k THEN p ELSE timer_list[i - 1]
    <3>1. k \in 1 .. Len(timer_list) + 1
      BY <1>1
    <3>2. /\ InsertAt(timer_list, k, p) \in Seq(Infos)
          /\ Len(InsertAt(timer_list, k, p)) = Len(timer_list) + 1
          /\ \A i \in 1 .. Len(timer_list) + 1 :
               InsertAt(timer_list, k, p)[i] =
                 IF i < k THEN timer_list[i] ELSE IF i = k THEN p ELSE timer_list[i - 1]
      BY <1>1, <3>1, InsertedAt, SMTT(30)
    <3>3. QED
      BY <2>3, <3>2, Zenon
  <2>7. k \in 1 .. Len(timer_list) + 1
    BY <1>1
  <2>8. QED
    BY <2>4, <2>5, <2>6, <2>7
<1>5. QED
  BY <1>3, <1>4

\* what processTimeouts moves
LEMMA TimeoutsSplit ==
  ASSUME Types, processTimeouts
  PROVE  \E n \in 0 .. Len(timer_list) :
           /\ \A i \in 1 .. n : now > timeout[timer_list[i]]
           /\ n < Len(timer_list) => now =< timeout[timer_list[n + 1]]
           /\ pending_list' = pending_list \o SubSeq(timer_list, 1, n)
           /\ timer_list' = SubSeq(timer_list, n + 1, Len(timer_list))
<1> DEFINE I == {i \in 1 .. Len(timer_list) : now =< timeout[timer_list[i]]}
           later == IF I # {} THEN Min(I) ELSE 0
           n == IF later = 0 THEN Len(timer_list) ELSE later - 1
<1>1. /\ timer_list \in Seq(Infos) /\ Len(timer_list) \in Nat /\ now \in Nat
      /\ \A i \in 1 .. Len(timer_list) : timer_list[i] \in Infos /\ timeout[timer_list[i]] \in Nat
  BY DelaysBound, LenProperties, ElementOfSeq DEF Types
<1>2. /\ pending_list' = pending_list \o SubSeq(timer_list, 1, n)
      /\ timer_list' = SubSeq(timer_list, n + 1, Len(timer_list))
  BY DEF processTimeouts, SelectInSeq
<1>3. CASE I = {}
  <2>1. n = Len(timer_list)
    BY <1>3
  <2>2. \A i \in 1 .. Len(timer_list) : now > timeout[timer_list[i]]
    BY <1>1, <1>3
  <2> HIDE DEF n
  <2>3. QED
    BY <1>1, <1>2, <2>1, <2>2
<1>4. CASE I # {}
  <2>1. Min(I) \in I /\ \A i \in I : Min(I) =< i
    <3>1. I \in SUBSET Nat
      BY <1>1
    <3>2. QED
      BY <1>4, <3>1, MinIsLeast
  <2>2. PICK k \in 1 .. Len(timer_list) : k = Min(I)
    BY <2>1
  <2>3. n = k - 1
    BY <1>1, <1>4, <2>2
  <2>4. \A i \in 1 .. k - 1 : now > timeout[timer_list[i]]
    <3> SUFFICES ASSUME NEW i \in 1 .. k - 1, now =< timeout[timer_list[i]]
                 PROVE  FALSE
      BY <1>1
    <3>1. i \in I
      BY <1>1
    <3>2. QED
      BY <2>1, <2>2, <3>1
  <2>5. now =< timeout[timer_list[k]]
    BY <2>1, <2>2
  <2> HIDE DEF I, later, n
  <2>6. n \in 0 .. Len(timer_list) /\ n + 1 = k
    BY <1>1, <2>3
  <2>7. QED
    BY <1>2, <2>3, <2>4, <2>5, <2>6
<1>5. QED
  BY <1>3, <1>4

-----------------------------------------------------------------------------
(***************************************************************************)
(* What a callback that is asked for, and what the end of a wait, do to    *)
(* the lists.                                                              *)
(***************************************************************************)
LEMMA ListTypes ==
  ASSUME Types
  PROVE  /\ Len(timer_list) \in Nat /\ DOMAIN timer_list = 1 .. Len(timer_list)
         /\ \A i \in DOMAIN timer_list : timer_list[i] \in Infos
         /\ Len(pending_list) \in Nat /\ DOMAIN pending_list = 1 .. Len(pending_list)
         /\ \A i \in DOMAIN pending_list : pending_list[i] \in Infos \cup {Wakeup}
         /\ \A q \in Infos : timeout[q] \in Nat
         /\ now \in Nat /\ Timers \subseteq Infos /\ Pending \subseteq Infos \cup {Wakeup}
BY DelaysBound, LenProperties, ElementOfSeq DEF Types, Timers, Pending, ToSet

LEMMA Asked ==
  ASSUME IInv, NEW p \in Infos, NEW d \in Delays, internalRequestTimedCallback(p, d),
         UNCHANGED <<now, pending_list>>
  PROVE  /\ timer_list' \in Seq(Infos) /\ timeout' \in [Infos -> 0 .. MaxTime]
         /\ Timers' = Timers \cup {p} /\ p \notin Timers \cup Pending
         /\ IsInjective(timer_list') /\ OrderInv'
<1> DEFINE due == now + d
<1>1. /\ block[p] = "free" /\ due \in 0 .. MaxTime /\ due >= now
      /\ ril_timer_add(p, due) /\ timeout' = [timeout EXCEPT ![p] = due]
  BY DelaysBound DEF internalRequestTimedCallback, ril_timer_add, IInv, Types
<1> HIDE DEF due
<1>2. PICK k \in 1 .. Len(timer_list) + 1 :
        /\ timer_list' \in Seq(Infos) /\ Len(timer_list') = Len(timer_list) + 1
        /\ \A i \in 1 .. Len(timer_list) + 1 :
             timer_list'[i] = IF i < k THEN timer_list[i]
                              ELSE IF i = k THEN p ELSE timer_list[i - 1]
        /\ \A i \in 1 .. k - 1 : timeout[timer_list[i]] < due
        /\ k =< Len(timer_list) => timeout[timer_list[k]] >= due
  BY <1>1, AddPlace DEF IInv
<1>3. /\ Len(timer_list) \in Nat /\ DOMAIN timer_list = 1 .. Len(timer_list)
      /\ \A i \in DOMAIN timer_list : timer_list[i] \in Infos
      /\ DOMAIN timer_list' = 1 .. Len(timer_list) + 1
      /\ \A q \in Infos : timeout[q] \in Nat /\ timeout'[q] \in Nat
      /\ now \in Nat /\ due \in Nat
  BY <1>1, <1>2, ListTypes, DelaysBound, LenProperties DEF IInv, Types
<1>4. timeout' \in [Infos -> 0 .. MaxTime]
  BY <1>1 DEF IInv, Types
<1>5. p \notin Timers /\ p \notin Pending
  BY <1>1 DEF IInv, PlaceInv
<1>6. \A q \in Infos : q # p => timeout'[q] = timeout[q]
  BY <1>1 DEF IInv, Types
<1>7. \A i \in 1 .. Len(timer_list) : timer_list[i] # p
  BY <1>3, <1>5 DEF Timers, ToSet
<1>8. \A i \in 1 .. Len(timer_list) + 1 :
        \/ i < k /\ i \in 1 .. Len(timer_list) /\ timer_list'[i] = timer_list[i]
        \/ i = k /\ timer_list'[i] = p
        \/ i > k /\ i - 1 \in 1 .. Len(timer_list) /\ timer_list'[i] = timer_list[i - 1]
  BY <1>2, <1>3
<1>9. Timers' = Timers \cup {p}
  <2>1. \A i \in 1 .. Len(timer_list) + 1 : timer_list'[i] \in Timers \cup {p}
    BY <1>3, <1>8 DEF Timers, ToSet
  <2>2. p \in Timers'
    BY <1>2, <1>3, <1>8 DEF Timers, ToSet
  <2>3. ASSUME NEW i \in 1 .. Len(timer_list) PROVE timer_list[i] \in Timers'
    <3>1. i < k => timer_list'[i] = timer_list[i]
      BY <1>2, <1>3
    <3>2. i >= k => timer_list'[i + 1] = timer_list[i]
      BY <1>2, <1>3
    <3>3. QED
      BY <1>3, <3>1, <3>2 DEF Timers, ToSet
  <2>4. QED
    BY <1>3, <2>1, <2>2, <2>3 DEF Timers, ToSet
<1>10. IsInjective(timer_list')
  <2> SUFFICES ASSUME NEW i \in 1 .. Len(timer_list) + 1, NEW j \in 1 .. Len(timer_list) + 1,
                      timer_list'[i] = timer_list'[j]
               PROVE  i = j
    BY <1>3 DEF IsInjective
  <2>1. \A a, b \in 1 .. Len(timer_list) : timer_list[a] = timer_list[b] => a = b
    BY <1>3 DEF IInv, PlaceInv, IsInjective
  <2>2. QED
    BY <1>3, <1>7, <1>8, <2>1
<1>11. OrderInv'
  <2>1. \A i, j \in 1 .. Len(timer_list) :
          i =< j => timeout'[timer_list[i]] =< timeout'[timer_list[j]]
    BY <1>3, <1>6, <1>7 DEF IInv, OrderInv
  <2>2. timeout'[p] = due
    BY <1>1 DEF IInv, Types
  <2>3. \A i \in 1 .. Len(timer_list) :
          IF i < k THEN timeout'[timer_list[i]] =< due ELSE timeout'[timer_list[i]] >= due
    <3> TAKE i \in 1 .. Len(timer_list)
    <3>1. timeout'[timer_list[i]] = timeout[timer_list[i]]
      BY <1>3, <1>6, <1>7
    <3>2. i < k => timeout[timer_list[i]] =< due
      BY <1>2, <1>3
    <3>3. i >= k => timeout[timer_list[k]] >= due /\ k \in 1 .. Len(timer_list)
      BY <1>2, <1>3
    <3>4. i >= k => timeout[timer_list[k]] =< timeout[timer_list[i]]
      BY <1>3, <3>3 DEF IInv, OrderInv
    <3>5. QED
      BY <1>3, <3>1, <3>2, <3>3, <3>4
  <2>4. ASSUME NEW i \in 1 .. Len(timer_list) + 1, NEW j \in 1 .. Len(timer_list) + 1, i =< j
        PROVE  timeout'[timer_list'[i]] =< timeout'[timer_list'[j]]
    <3>1. CASE j < k
      <4>1. /\ i \in 1 .. Len(timer_list) /\ j \in 1 .. Len(timer_list)
            /\ timer_list'[i] = timer_list[i] /\ timer_list'[j] = timer_list[j]
        BY <1>2, <1>3, <2>4, <3>1
      <4>2. QED
        BY <2>1, <2>4, <4>1
    <3>2. CASE i < k /\ j = k
      BY <1>2, <1>3, <2>2, <2>3, <3>2
    <3>3. CASE i < k /\ j > k
      <4>1. /\ i \in 1 .. Len(timer_list) /\ j - 1 \in 1 .. Len(timer_list)
            /\ timer_list'[i] = timer_list[i] /\ timer_list'[j] = timer_list[j - 1] /\ i =< j - 1
        BY <1>2, <1>3, <3>3
      <4>2. QED
        BY <2>1, <4>1
    <3>4. CASE i = k /\ j = k
      BY <1>2, <1>3, <2>2, <3>4
    <3>5. CASE i = k /\ j > k
      <4>1. /\ j - 1 \in 1 .. Len(timer_list) /\ j - 1 >= k
            /\ timer_list'[i] = p /\ timer_list'[j] = timer_list[j - 1]
        BY <1>2, <1>3, <3>5
      <4>2. timeout'[timer_list[j - 1]] >= due
        BY <2>3, <4>1
      <4>3. QED
        BY <1>3, <2>2, <4>1, <4>2
    <3>6. CASE i > k
      <4>1. /\ i - 1 \in 1 .. Len(timer_list) /\ j - 1 \in 1 .. Len(timer_list)
            /\ timer_list'[i] = timer_list[i - 1] /\ timer_list'[j] = timer_list[j - 1]
            /\ i - 1 =< j - 1
        BY <1>2, <1>3, <2>4, <3>6
      <4>2. QED
        BY <2>1, <4>1
    <3>7. QED
      BY <2>4, <3>1, <3>2, <3>3, <3>4, <3>5, <3>6
  <2>5. \A i \in DOMAIN pending_list : pending_list[i] # Wakeup =>
          timeout'[pending_list[i]] = timeout[pending_list[i]] /\ pending_list[i] \in Infos
    BY <1>5, <1>6, ListTypes DEF IInv, Pending, ToSet
  <2>6. \A i, j \in DOMAIN pending_list :
          i =< j /\ pending_list[i] # Wakeup /\ pending_list[j] # Wakeup =>
            timeout'[pending_list[i]] =< timeout'[pending_list[j]]
    BY <2>5 DEF IInv, OrderInv
  <2>7. \A q \in Pending \ {Wakeup} : now > timeout'[q] /\ timeout'[q] = timeout[q] /\ q \in Infos
    BY <1>5, <1>6, ListTypes DEF IInv, OrderInv
  <2>8. \A q \in Pending \ {Wakeup} : \A r \in Timers' : timeout'[q] =< timeout'[r]
    <3> TAKE q \in Pending \ {Wakeup}
    <3>1. timeout'[q] =< timeout'[p]
      BY <1>1, <1>3, <2>2, <2>7
    <3>2. \A r \in Timers : timeout'[q] =< timeout'[r]
      BY <1>5, <1>6, <2>7, ListTypes DEF IInv, OrderInv
    <3>3. QED
      BY <1>9, <3>1, <3>2
  <2>9. now' = now /\ pending_list' = pending_list /\ Pending' = Pending
    BY DEF Pending
  <2>10. \A i, j \in DOMAIN timer_list' :
           i =< j => timeout'[timer_list'[i]] =< timeout'[timer_list'[j]]
    BY <1>3, <2>4
  <2>11. \A i, j \in DOMAIN pending_list' :
           i =< j /\ pending_list'[i] # Wakeup /\ pending_list'[j] # Wakeup =>
             timeout'[pending_list'[i]] =< timeout'[pending_list'[j]]
    BY <2>6, <2>9, Zenon
  <2>12. \A q \in Pending' \ {Wakeup} :
           now' > timeout'[q] /\ \A r \in Timers' : timeout'[q] =< timeout'[r]
    BY <2>7, <2>8, <2>9
  <2>13. QED
    BY <2>10, <2>11, <2>12, Zenon DEF OrderInv
<1>12. QED
  BY <1>2, <1>4, <1>5, <1>9, <1>10, <1>11

LEMMA Moved ==
  ASSUME IInv, processTimeouts
  PROVE  /\ timer_list' \in Seq(Infos) /\ pending_list' \in Seq(Infos)
         /\ Timers = Timers' \cup Pending' /\ Timers' \cap Pending' = {}
         /\ IsInjective(timer_list') /\ IsInjective(pending_list')
         /\ Pending' \subseteq Infos /\ OrderInv'
<1>1. PICK n \in 0 .. Len(timer_list) :
        /\ \A i \in 1 .. n : now > timeout[timer_list[i]]
        /\ n < Len(timer_list) => now =< timeout[timer_list[n + 1]]
        /\ pending_list' = pending_list \o SubSeq(timer_list, 1, n)
        /\ timer_list' = SubSeq(timer_list, n + 1, Len(timer_list))
  BY TimeoutsSplit DEF IInv
<1>2. /\ timer_list \in Seq(Infos) /\ Len(timer_list) \in Nat
      /\ DOMAIN timer_list = 1 .. Len(timer_list)
      /\ \A i \in 1 .. Len(timer_list) : timer_list[i] \in Infos
      /\ \A q \in Infos : timeout[q] \in Nat
      /\ now \in Nat
  BY ListTypes DEF IInv, Types
<1>3. pending_list = <<>> /\ now' = now /\ timeout' = timeout
  BY DEF IInv, RoundInv, processTimeouts, heapVars
<1>4. /\ SubSeq(timer_list, 1, n) \in Seq(Infos) /\ Len(SubSeq(timer_list, 1, n)) = n
      /\ \A i \in 1 .. n : SubSeq(timer_list, 1, n)[i] = timer_list[i]
  <2>1. \A i \in 1 .. n : timer_list[i] \in Infos
    BY <1>2
  <2>2. QED
    BY <1>2, <2>1, SubSeqProperties
<1>5. pending_list' = SubSeq(timer_list, 1, n)
  BY <1>1, <1>3, <1>4, ConcatEmptySeq
<1>6. /\ pending_list' \in Seq(Infos) /\ DOMAIN pending_list' = 1 .. n
      /\ \A i \in 1 .. n : pending_list'[i] = timer_list[i]
  BY <1>4, <1>5, LenProperties
<1>7. /\ timer_list' \in Seq(Infos) /\ DOMAIN timer_list' = 1 .. Len(timer_list) - n
      /\ \A i \in 1 .. Len(timer_list) - n : timer_list'[i] = timer_list[n + i]
  <2>1. \A i \in n + 1 .. Len(timer_list) : timer_list[i] \in Infos
    BY <1>2
  <2>2. /\ timer_list' \in Seq(Infos) /\ Len(timer_list') = Len(timer_list) - n
        /\ \A i \in 1 .. Len(timer_list) - n : timer_list'[i] = timer_list[n + i]
    <3> DEFINE m == n + 1
               last == Len(timer_list)
    <3>1. /\ m \in Int /\ last \in Int /\ m - 1 = n /\ m =< last + 1
          /\ last - m + 1 = Len(timer_list) - n
          /\ \A i \in m .. last : timer_list[i] \in Infos
          /\ timer_list' = SubSeq(timer_list, m, last)
      BY <1>1, <1>2, <2>1
    <3> HIDE DEF m, last
    <3>2. /\ timer_list' \in Seq(Infos)
          /\ Len(timer_list') = IF m =< last THEN last - m + 1 ELSE 0
          /\ \A i \in 1 .. last - m + 1 : timer_list'[i] = timer_list[m + i - 1]
      BY <3>1, SubSeqProperties
    <3>3. Len(timer_list') = Len(timer_list) - n
      <4>1. (IF m =< last THEN last - m + 1 ELSE 0) = last - m + 1
        BY <3>1
      <4>2. QED
        BY <3>1, <3>2, <4>1, Zenon
    <3>4. \A i \in 1 .. Len(timer_list) - n : timer_list'[i] = timer_list[n + i]
      <4> TAKE i \in 1 .. Len(timer_list) - n
      <4>1. m + i - 1 = n + i
        BY <1>2, <3>1
      <4>2. QED
        BY <3>1, <3>2, <4>1
    <3>5. QED
      BY <3>2, <3>3, <3>4
  <2>3. QED
    BY <2>2, LenProperties
<1>8. \A i, j \in 1 .. Len(timer_list) : timer_list[i] = timer_list[j] => i = j
  BY <1>2 DEF IInv, PlaceInv, IsInjective
<1>9. Pending' = {timer_list[i] : i \in 1 .. n}
  BY <1>6 DEF Pending, ToSet
<1>10. Timers' = {timer_list[i] : i \in n + 1 .. Len(timer_list)}
  <2>1. \A i \in DOMAIN timer_list' :
          n + i \in n + 1 .. Len(timer_list) /\ timer_list'[i] = timer_list[n + i]
    BY <1>2, <1>7
  <2>2. \A i \in n + 1 .. Len(timer_list) :
          i - n \in DOMAIN timer_list' /\ timer_list'[i - n] = timer_list[i]
    BY <1>2, <1>7
  <2>3. QED
    BY <2>1, <2>2 DEF Timers, ToSet
<1>11. Timers = {timer_list[i] : i \in 1 .. Len(timer_list)}
  BY <1>2 DEF Timers, ToSet
<1>12. Timers = Timers' \cup Pending'
  BY <1>2, <1>9, <1>10, <1>11
<1>13. Timers' \cap Pending' = {}
  <2>1. \A i \in 1 .. n : \A j \in n + 1 .. Len(timer_list) : timer_list[i] # timer_list[j]
    BY <1>2, <1>8
  <2>2. QED
    BY <1>9, <1>10, <2>1
<1>14. IsInjective(pending_list')
  BY <1>2, <1>6, <1>8 DEF IsInjective
<1>15. IsInjective(timer_list')
  <2> SUFFICES ASSUME NEW i \in 1 .. Len(timer_list) - n, NEW j \in 1 .. Len(timer_list) - n,
                      timer_list'[i] = timer_list'[j]
               PROVE  i = j
    BY <1>7 DEF IsInjective
  <2>1. /\ n + i \in 1 .. Len(timer_list) /\ n + j \in 1 .. Len(timer_list)
        /\ timer_list[n + i] = timer_list[n + j]
    BY <1>2, <1>7
  <2>2. QED
    BY <1>8, <2>1
<1>16. OrderInv'
  <2>1. \A i, j \in 1 .. Len(timer_list) :
          i =< j => timeout[timer_list[i]] =< timeout[timer_list[j]]
    BY <1>2 DEF IInv, OrderInv
  <2>2. \A i, j \in 1 .. Len(timer_list) - n :
          i =< j => timeout[timer_list'[i]] =< timeout[timer_list'[j]]
    <3> TAKE i, j \in 1 .. Len(timer_list) - n
    <3>1. /\ n + i \in 1 .. Len(timer_list) /\ n + j \in 1 .. Len(timer_list)
          /\ timer_list'[i] = timer_list[n + i] /\ timer_list'[j] = timer_list[n + j]
          /\ i =< j => n + i =< n + j
      BY <1>2, <1>7
    <3>2. QED
      BY <2>1, <3>1
  <2>3. \A i, j \in 1 .. n : i =< j => timeout[pending_list'[i]] =< timeout[pending_list'[j]]
    BY <1>2, <1>6, <2>1
  <2>4. \A i \in 1 .. n : \A j \in n + 1 .. Len(timer_list) :
          now > timeout[timer_list[i]] /\ timeout[timer_list[i]] =< timeout[timer_list[j]]
    BY <1>1, <1>2, <2>1
  <2>5. \A q \in Pending' : now > timeout[q] /\ \A r \in Timers' : timeout[q] =< timeout[r]
    <3> TAKE q \in Pending'
    <3>1. PICK i \in 1 .. n : q = timer_list[i]
      BY <1>9
    <3>2. QED
      BY <1>1, <1>10, <2>4, <3>1
  <2>6. /\ \A i, j \in DOMAIN timer_list' :
             i =< j => timeout'[timer_list'[i]] =< timeout'[timer_list'[j]]
        /\ \A i, j \in DOMAIN pending_list' :
             i =< j => timeout'[pending_list'[i]] =< timeout'[pending_list'[j]]
        /\ \A q \in Pending' :
             now' > timeout'[q] /\ \A r \in Timers' : timeout'[q] =< timeout'[r]
    BY <1>3, <1>6, <1>7, <2>2, <2>3, <2>5
  <2>7. QED
    BY <2>6 DEF OrderInv
<1>17. Pending' \subseteq Infos
  BY <1>2, <1>9
<1>18. QED
  BY <1>6, <1>7, <1>12, <1>13, <1>14, <1>15, <1>16, <1>17

\* a read of the pipe is added to what is pending
LEMMA Readied ==
  ASSUME IInv, processReadReadies
  PROVE  /\ pending_list' \in Seq(Infos \cup {Wakeup}) /\ IsInjective(pending_list')
         /\ Pending' \ {Wakeup} = Pending \ {Wakeup} /\ OrderInv'
<1>1. /\ pending_list \in Seq(Infos \cup {Wakeup}) /\ Len(pending_list) \in Nat
      /\ DOMAIN pending_list = 1 .. Len(pending_list)
      /\ \A i \in 1 .. Len(pending_list) : pending_list[i] # Wakeup
  BY ListTypes DEF IInv, Types, RoundInv, processReadReadies, Pending, ToSet
<1>2. /\ now' = now /\ timer_list' = timer_list /\ timeout' = timeout /\ Timers' = Timers
      /\ IsInjective(pending_list)
  BY DEF IInv, PlaceInv, processReadReadies, heapVars, Timers
<1>3. CASE ~loop.woken
  <2>1. pending_list' = pending_list /\ Pending' = Pending
    BY <1>3 DEF processReadReadies, Pending
  <2>2. QED
    BY <1>1, <1>2, <2>1 DEF IInv, OrderInv
<1>4. CASE loop.woken
  <2>1. pending_list' = Append(pending_list, Wakeup)
    BY <1>4 DEF processReadReadies
  <2>2. /\ pending_list' \in Seq(Infos \cup {Wakeup})
        /\ DOMAIN pending_list' = 1 .. Len(pending_list) + 1
        /\ \A i \in 1 .. Len(pending_list) : pending_list'[i] = pending_list[i]
        /\ pending_list'[Len(pending_list) + 1] = Wakeup
    <3>1. Wakeup \in Infos \cup {Wakeup}
      OBVIOUS
    <3>2. QED
      BY <1>1, <2>1, <3>1, AppendProperties, LenProperties
  <2>3. Pending' = Pending \cup {Wakeup}
    BY <1>1, <2>2 DEF Pending, ToSet
  <2>4. IsInjective(pending_list')
    BY <1>1, <1>2, <2>2 DEF IsInjective
  <2>5. \A i, j \in DOMAIN pending_list' :
          i =< j /\ pending_list'[i] # Wakeup /\ pending_list'[j] # Wakeup =>
            timeout[pending_list'[i]] =< timeout[pending_list'[j]]
    BY <1>1, <2>2 DEF IInv, OrderInv
  <2>6. OrderInv'
    BY <1>2, <2>3, <2>5 DEF IInv, OrderInv
  <2>7. QED
    BY <2>2, <2>3, <2>4, <2>6
<1>5. QED
  BY <1>3, <1>4

\* the first of what is pending is taken
LEMMA Taken ==
  ASSUME IInv, pending_list # <<>>, pending_list' = Tail(pending_list),
         UNCHANGED <<now, timer_list, timeout>>
  PROVE  /\ pending_list' \in Seq(Infos \cup {Wakeup}) /\ IsInjective(pending_list')
         /\ Head(pending_list) \in Pending /\ Pending' = Pending \ {Head(pending_list)}
         /\ OrderInv'
         /\ Head(pending_list) # Wakeup =>
              \A q \in Pending \ {Wakeup} : timeout[Head(pending_list)] =< timeout[q]
<1>1. /\ pending_list \in Seq(Infos \cup {Wakeup}) /\ Len(pending_list) \in Nat \ {0}
      /\ DOMAIN pending_list = 1 .. Len(pending_list)
      /\ \A i, j \in 1 .. Len(pending_list) : pending_list[i] = pending_list[j] => i = j
      /\ Head(pending_list) = pending_list[1]
  BY ListTypes, EmptySeq DEF IInv, Types, PlaceInv, IsInjective
<1>2. /\ pending_list' \in Seq(Infos \cup {Wakeup})
      /\ DOMAIN pending_list' = 1 .. Len(pending_list) - 1
      /\ \A i \in 1 .. Len(pending_list) - 1 : pending_list'[i] = pending_list[i + 1]
  BY <1>1, HeadTailProperties, LenProperties
<1>3. Head(pending_list) \in Pending
  BY <1>1 DEF Pending, ToSet
<1>4. Pending' = Pending \ {Head(pending_list)}
  <2>1. ASSUME NEW i \in 1 .. Len(pending_list) - 1
        PROVE  /\ i + 1 \in 1 .. Len(pending_list) /\ pending_list'[i] = pending_list[i + 1]
               /\ pending_list[i + 1] # pending_list[1]
    <3>1. 1 \in 1 .. Len(pending_list) /\ i + 1 \in 1 .. Len(pending_list) /\ i + 1 # 1
      BY <1>1
    <3>2. QED
      BY <1>1, <1>2, <3>1
  <2>2. \A q \in Pending' : q \in Pending /\ q # Head(pending_list)
    BY <1>1, <1>2, <2>1 DEF Pending, ToSet
  <2>3. ASSUME NEW q \in Pending, q # Head(pending_list)
        PROVE  q \in Pending'
    <3>1. PICK i \in 1 .. Len(pending_list) : q = pending_list[i]
      BY <1>1 DEF Pending, ToSet
    <3>2. i # 1
      BY <1>1, <2>3, <3>1
    <3>3. i - 1 \in 1 .. Len(pending_list) - 1 /\ (i - 1) + 1 = i
      BY <1>1, <3>2
    <3>4. pending_list'[i - 1] = q
      BY <1>2, <3>1, <3>3
    <3>5. QED
      BY <1>2, <3>3, <3>4 DEF Pending, ToSet
  <2>4. QED
    BY <2>2, <2>3
<1>5. IsInjective(pending_list')
  <2> SUFFICES ASSUME NEW i \in 1 .. Len(pending_list) - 1, NEW j \in 1 .. Len(pending_list) - 1,
                      pending_list'[i] = pending_list'[j]
               PROVE  i = j
    BY <1>2 DEF IsInjective
  <2>1. /\ i + 1 \in 1 .. Len(pending_list) /\ j + 1 \in 1 .. Len(pending_list)
        /\ pending_list[i + 1] = pending_list[j + 1]
    BY <1>1, <1>2
  <2>2. QED
    BY <1>1, <2>1
<1>6. \A i, j \in 1 .. Len(pending_list) :
        i =< j /\ pending_list[i] # Wakeup /\ pending_list[j] # Wakeup =>
          timeout[pending_list[i]] =< timeout[pending_list[j]]
  BY <1>1 DEF IInv, OrderInv
<1>7. OrderInv'
  <2>1. \A i, j \in 1 .. Len(pending_list) - 1 :
          i =< j /\ pending_list'[i] # Wakeup /\ pending_list'[j] # Wakeup =>
            timeout[pending_list'[i]] =< timeout[pending_list'[j]]
    <3> TAKE i, j \in 1 .. Len(pending_list) - 1
    <3>1. /\ i + 1 \in 1 .. Len(pending_list) /\ j + 1 \in 1 .. Len(pending_list)
          /\ pending_list'[i] = pending_list[i + 1] /\ pending_list'[j] = pending_list[j + 1]
          /\ i =< j => i + 1 =< j + 1
      BY <1>1, <1>2
    <3>2. QED
      BY <1>6, <3>1
  <2>2. now' = now /\ timer_list' = timer_list /\ timeout' = timeout /\ Timers' = Timers
    BY DEF Timers
  <2>3. QED
    BY <1>2, <1>4, <2>1, <2>2 DEF IInv, OrderInv
<1>8. ASSUME Head(pending_list) # Wakeup, NEW q \in Pending \ {Wakeup}
      PROVE  timeout[Head(pending_list)] =< timeout[q]
  <2>1. PICK j \in 1 .. Len(pending_list) : q = pending_list[j]
    BY <1>1 DEF Pending, ToSet
  <2>2. 1 \in 1 .. Len(pending_list) /\ 1 =< j
    BY <1>1
  <2>3. QED
    BY <1>1, <1>6, <1>8, <2>1, <2>2
<1>9. QED
  BY <1>2, <1>3, <1>4, <1>5, <1>7, <1>8

-----------------------------------------------------------------------------
(***************************************************************************)
(* The steps.                                                              *)
(***************************************************************************)
\* a step that moves no event and does not begin or end a callback
LEMMA ListsKept ==
  ASSUME IInv, UNCHANGED <<timer_list, pending_list, timeout, block>>, now' \in Nat, now' >= now,
         loop'.info = loop.info, loop'.at = "callback" <=> loop.at = "callback"
  PROVE  PlaceInv' /\ OrderInv' /\ InOrder'
<1>1. Timers' = Timers /\ Pending' = Pending /\ Queued' = Queued
  BY DEF Timers, Pending, Queued
<1>2. \A q \in Infos : timeout[q] \in Nat
  BY ListTypes DEF IInv
<1>3. now \in Nat /\ Pending \subseteq Infos \cup {Wakeup}
  BY ListTypes DEF IInv
<1>4. PlaceInv'
  BY <1>1 DEF IInv, PlaceInv
<1>5. OrderInv'
  <2>1. \A q \in Pending \ {Wakeup} :
          now' > timeout[q] /\ \A r \in Timers : timeout[q] =< timeout[r]
    BY <1>2, <1>3 DEF IInv, OrderInv
  <2>2. QED
    BY <1>1, <2>1 DEF IInv, OrderInv
<1>6. InOrder'
  <2>1. loop.at = "callback" => loop.info \in Infos
    BY DEF IInv, PlaceInv, Types, NoInfo
  <2>2. QED
    BY <1>1, <1>2, <1>3, <2>1 DEF IInv, InOrder
<1>7. QED
  BY <1>4, <1>5, <1>6

LEMMA RequestStep ==
  ASSUME IInv, NEW p \in Infos, NEW d \in Delays, internalRequestTimedCallback(p, d),
         UNCHANGED <<now, pending_list, loop>>
  PROVE  PlaceInv' /\ OrderInv' /\ InOrder'
<1>1. /\ Timers' = Timers \cup {p} /\ p \notin Timers \cup Pending
      /\ IsInjective(timer_list') /\ OrderInv'
  BY Asked
<1>2. Pending' = Pending /\ Queued = Timers \cup (Pending \ {Wakeup})
      /\ Queued' = Timers' \cup (Pending' \ {Wakeup})
  BY DEF Pending, Timers, Queued
<1>3. /\ block[p] = "free" /\ block' = [block EXCEPT ![p] = "used"]
      /\ timeout' = [timeout EXCEPT ![p] = now + d] /\ d >= 0 /\ d \in Int
      /\ p # Wakeup
  BY DelaysBound, WakeupIsNoTimer DEF internalRequestTimedCallback, ril_timer_add
<1>4. loop.info # p
  BY <1>3 DEF IInv, PlaceInv
<1>5. PlaceInv'
  <2>1. \A q \in Infos : block'[q] = IF q = p THEN "used" ELSE block[q]
    BY <1>3 DEF IInv, Types
  <2>2. \A q \in Infos : block'[q] = "used" <=> q \in Timers' \cup Pending' \cup {loop'.info}
    BY <1>1, <1>2, <2>1 DEF IInv, PlaceInv
  <2>3. Timers' \cap Pending' = {}
    BY <1>1, <1>2 DEF IInv, PlaceInv
  <2>4. QED
    BY <1>1, <1>2, <1>4, <2>2, <2>3 DEF IInv, PlaceInv
<1>6. InOrder'
  <2> SUFFICES ASSUME loop.at = "callback"
               PROVE  now > timeout'[loop.info] /\ \A q \in Queued' : timeout'[q] >= timeout'[loop.info]
    BY DEF InOrder
  <2>1. loop.info \in Infos
    BY DEF IInv, PlaceInv, Types, NoInfo
  <2>2. now \in Nat /\ now > timeout[loop.info] /\ timeout[loop.info] \in Nat
    BY <2>1, ListTypes DEF IInv, InOrder
  <2>3. timeout'[p] = now + d
    BY <1>3 DEF IInv, Types
  <2>4. \A q \in Infos : q # p => timeout'[q] = timeout[q]
    BY <1>3 DEF IInv, Types
  <2>5. \A q \in Queued : q \in Infos /\ q # p /\ timeout[q] >= timeout[loop.info]
    BY <1>1, <1>2, ListTypes DEF IInv, InOrder
  <2>6. Queued' = Queued \cup {p}
    BY <1>1, <1>2
  <2>7. QED
    BY <1>3, <1>4, <2>1, <2>2, <2>3, <2>4, <2>5, <2>6
<1>7. QED
  BY <1>1, <1>5, <1>6

\* the steps that move events or end a callback
LEMMA RoundStep ==
  ASSUME IInv, processTimeouts \/ processReadReadies \/ firePending \/ processWakeupCallback
               \/ userTimerCallback
  PROVE  Types' /\ PlaceInv' /\ OrderInv' /\ InOrder'
<1> USE DEF LoopPlaces
<1>1. Types /\ loop.info \in Infos \cup {Wakeup}
  BY DEF IInv, Types, NoInfo
<1>2. Queued = Timers \cup (Pending \ {Wakeup}) /\ Queued' = Timers' \cup (Pending' \ {Wakeup})
  BY DEF Timers, Pending, Queued
<1>3. Timers \subseteq Infos /\ Pending \subseteq Infos \cup {Wakeup}
  BY ListTypes DEF IInv
<1>4. CASE processTimeouts
  <2>1. /\ timer_list' \in Seq(Infos) /\ pending_list' \in Seq(Infos)
        /\ Timers = Timers' \cup Pending' /\ Timers' \cap Pending' = {}
        /\ IsInjective(timer_list') /\ IsInjective(pending_list')
        /\ Pending' \subseteq Infos /\ OrderInv'
    BY <1>4, Moved
  <2>2. /\ loop.at = "timeouts" /\ loop' = [loop EXCEPT !.at = "readies"]
        /\ UNCHANGED <<now, startVars, pipe, watch_table, heapVars, pc>>
    BY <1>4 DEF processTimeouts, LoopGoto
  <2>3. pending_list = <<>> /\ Pending = {}
    BY <2>2 DEF IInv, RoundInv, Pending, ToSet
  <2>4. pending_list' \in Seq(Infos \cup {Wakeup})
    BY <1>4, <2>1, <2>3, LenProperties
  <2>5. Types'
    BY <1>1, <2>1, <2>2, <2>4 DEF Types, startVars, heapVars
  <2>6. loop'.at = "readies" /\ loop'.info = loop.info /\ block' = block
    BY <1>1, <2>2 DEF Types, heapVars
  <2>7. PlaceInv'
    BY <2>1, <2>2, <2>3, <2>6 DEF IInv, PlaceInv
  <2>8. QED
    BY <2>1, <2>5, <2>6, <2>7 DEF InOrder
<1>5. CASE processReadReadies
  <2>1. /\ pending_list' \in Seq(Infos \cup {Wakeup}) /\ IsInjective(pending_list')
        /\ Pending' \ {Wakeup} = Pending \ {Wakeup} /\ OrderInv'
    BY <1>5, Readied
  <2>2. /\ loop.at = "readies" /\ loop' = [loop EXCEPT !.at = "fire"]
        /\ UNCHANGED <<now, startVars, pipe, watch_table, timer_list, heapVars, pc>>
    BY <1>5 DEF processReadReadies, LoopGoto
  <2>3. Types'
    BY <1>1, <2>1, <2>2 DEF Types, startVars, heapVars
  <2>4. /\ loop'.at = "fire" /\ loop'.info = loop.info /\ block' = block /\ Timers' = Timers
        /\ timer_list' = timer_list
    BY <1>1, <2>2 DEF Types, heapVars, Timers
  <2>5. Pending' \cap Infos = Pending \cap Infos
    BY <2>1, WakeupIsNoTimer
  <2>6. loop.info = NoInfo
    BY <2>2 DEF IInv, PlaceInv
  <2>7. Timers' \cap Pending' = {}
    BY <1>3, <2>4, <2>5 DEF IInv, PlaceInv
  <2>8. \A p \in Infos : block'[p] = "used" <=> p \in Timers' \cup Pending' \cup {loop'.info}
    BY <2>4, <2>5 DEF IInv, PlaceInv
  <2>9. PlaceInv'
    BY <2>1, <2>4, <2>6, <2>7, <2>8 DEF IInv, PlaceInv
  <2>10. QED
    BY <2>1, <2>3, <2>4, <2>9 DEF InOrder
<1>6. CASE firePending
  <2>1. /\ loop.at = "fire" /\ pending_list # <<>> /\ Head(pending_list) # Wakeup
        /\ pending_list' = Tail(pending_list)
        /\ loop' = [loop EXCEPT !.at = "callback", !.info = Head(pending_list)]
        /\ UNCHANGED <<now, startVars, pipe, watch_table, timer_list, heapVars, pc>>
    BY <1>6 DEF firePending
  <2>2. /\ pending_list' \in Seq(Infos \cup {Wakeup}) /\ IsInjective(pending_list')
        /\ Head(pending_list) \in Pending /\ Pending' = Pending \ {Head(pending_list)}
        /\ OrderInv'
        /\ \A q \in Pending \ {Wakeup} : timeout[Head(pending_list)] =< timeout[q]
    BY <2>1, Taken DEF heapVars
  <2>3. Head(pending_list) \in Infos
    BY <1>3, <2>1, <2>2
  <2>4. Types'
    BY <1>1, <2>1, <2>2, <2>3 DEF Types, startVars, heapVars
  <2>5. /\ loop'.at = "callback" /\ loop'.info = Head(pending_list) /\ block' = block
        /\ Timers' = Timers /\ timer_list' = timer_list /\ timeout' = timeout /\ now' = now
    BY <1>1, <2>1 DEF Types, heapVars, Timers
  <2>6. loop.info = NoInfo
    BY <2>1 DEF IInv, PlaceInv
  <2>7. PlaceInv'
    <3>1. \A p \in Infos : block'[p] = "used" <=> p \in Timers' \cup Pending' \cup {loop'.info}
      BY <2>2, <2>5, <2>6, WakeupIsNoTimer DEF IInv, PlaceInv, NoInfo
    <3>2. /\ Timers' \cap Pending' = {} /\ loop'.info \notin Timers' /\ loop'.info \notin Pending'
          /\ loop'.info # NoInfo
      BY <2>1, <2>2, <2>5 DEF IInv, PlaceInv, NoInfo
    <3>3. QED
      BY <2>2, <2>5, <3>1, <3>2 DEF IInv, PlaceInv
  <2>8. InOrder'
    <3>1. now > timeout[Head(pending_list)] /\ \A q \in Timers : timeout[Head(pending_list)] =< timeout[q]
      BY <2>1, <2>2 DEF IInv, OrderInv
    <3>2. \A q \in Queued' : q \in Infos /\ timeout[q] \in Nat /\ timeout[Head(pending_list)] =< timeout[q]
      BY <1>2, <1>3, <2>2, <2>5, <3>1, ListTypes DEF IInv
    <3>3. timeout[Head(pending_list)] \in Nat
      BY <2>3, ListTypes DEF IInv
    <3>4. QED
      BY <2>5, <3>1, <3>2, <3>3 DEF InOrder
  <2>9. QED
    BY <2>2, <2>4, <2>7, <2>8
<1>7. CASE processWakeupCallback
  <2>1. /\ loop.at = "fire" /\ pending_list # <<>> /\ Head(pending_list) = Wakeup
        /\ pending_list' = Tail(pending_list)
        /\ pipe' = [pipe EXCEPT !.byte = FALSE]
        /\ UNCHANGED <<now, startVars, watch_table, timer_list, heapVars, pc, loop>>
    BY <1>7 DEF processWakeupCallback
  <2>2. /\ pending_list' \in Seq(Infos \cup {Wakeup}) /\ IsInjective(pending_list')
        /\ Pending' = Pending \ {Wakeup} /\ OrderInv'
    BY <2>1, Taken DEF heapVars
  <2>3. Types'
    BY <1>1, <2>1, <2>2 DEF Types, startVars, heapVars
  <2>4. block' = block /\ Timers' = Timers /\ timer_list' = timer_list /\ loop' = loop
    BY <2>1 DEF heapVars, Timers
  <2>5. loop.info = NoInfo
    BY <2>1 DEF IInv, PlaceInv
  <2>6. PlaceInv'
    <3>1. \A p \in Infos : block'[p] = "used" <=> p \in Timers' \cup Pending' \cup {loop'.info}
      BY <2>2, <2>4, WakeupIsNoTimer DEF IInv, PlaceInv
    <3>2. Timers' \cap Pending' = {}
      BY <2>2, <2>4 DEF IInv, PlaceInv
    <3>3. QED
      BY <2>2, <2>4, <2>5, <3>1, <3>2 DEF IInv, PlaceInv
  <2>7. QED
    BY <2>1, <2>2, <2>3, <2>4, <2>6 DEF InOrder
<1>8. CASE userTimerCallback
  <2>1. /\ loop.at = "callback"
        /\ block' = [block EXCEPT ![loop.info] = "free"]
        /\ loop' = [loop EXCEPT !.at = "fire", !.info = NoInfo]
        /\ UNCHANGED <<now, startVars, pipe, watch_table, timer_list, pending_list, timeout, pc>>
    BY <1>8 DEF userTimerCallback
  <2>2. Types'
    BY <1>1, <2>1 DEF Types, startVars, NoInfo
  <2>3. /\ loop'.at = "fire" /\ loop'.info = NoInfo /\ Timers' = Timers /\ Pending' = Pending
        /\ timer_list' = timer_list /\ pending_list' = pending_list
    BY <1>1, <2>1 DEF Types, Timers, Pending
  <2>4. loop.info \in Infos /\ loop.info \notin Timers /\ loop.info \notin Pending
    BY <1>1, <2>1 DEF IInv, PlaceInv, NoInfo
  <2>5. PlaceInv'
    <3>1. \A p \in Infos : block'[p] = IF p = loop.info THEN "free" ELSE block[p]
      BY <1>1, <2>1 DEF Types
    <3>2. \A p \in Infos : block'[p] = "used" <=> p \in Timers' \cup Pending' \cup {loop'.info}
      BY <2>3, <2>4, <3>1, WakeupIsNoTimer DEF IInv, PlaceInv, NoInfo
    <3>3. NoInfo \notin Timers'
      BY <1>3, <2>3, WakeupIsNoTimer DEF NoInfo
    <3>4. QED
      BY <2>3, <3>2, <3>3 DEF IInv, PlaceInv
  <2>6. OrderInv'
    BY <2>1, <2>3 DEF IInv, OrderInv
  <2>7. QED
    BY <2>2, <2>3, <2>5, <2>6 DEF InOrder
<1>9. QED
  BY <1>4, <1>5, <1>6, <1>7, <1>8

LEMMA Initial == Init => IInv
<1> SUFFICES ASSUME Init
             PROVE  IInv
  OBVIOUS
<1>1. Types
  <2>1. <<>> \in Seq(Infos) /\ <<>> \in Seq(Infos \cup {Wakeup})
    BY EmptySeq
  <2>2. 0 \in 0 .. MaxTime /\ 0 \in 0 .. Never
    BY DelaysBound DEF Never
  <2>3. loop \in [at : LoopPlaces, until : 0 .. Never, woken : BOOLEAN, info : Infos \cup {NoInfo}]
    BY <2>2 DEF Init, LoopPlaces
  <2>4. QED
    BY <2>1, <2>2, <2>3 DEF Init, Types
<1>2. Timers = {} /\ Pending = {} /\ timer_list = <<>> /\ pending_list = <<>>
  BY DEF Init, Timers, Pending, ToSet
<1>3. StartInv /\ RoundInv /\ InOrder
  BY DEF Init, StartInv, RoundInv, InOrder
<1>4. PlaceInv
  <2>1. \A p \in Infos : block[p] # "used" /\ p # loop.info
    BY WakeupIsNoTimer DEF Init, NoInfo
  <2>2. IsInjective(timer_list) /\ IsInjective(pending_list)
    BY <1>2 DEF IsInjective
  <2>3. loop.info = NoInfo /\ loop.at = "none"
    BY DEF Init
  <2>4. QED
    BY <1>2, <2>1, <2>2, <2>3 DEF PlaceInv
<1>5. OrderInv
  BY <1>2 DEF OrderInv
<1>6. QED
  BY <1>1, <1>3, <1>4, <1>5 DEF IInv

LEMMA Step == IInv /\ [Next]_vars => IInv'
<1> SUFFICES ASSUME IInv, [Next]_vars
             PROVE  IInv'
  OBVIOUS
<1> USE DEF LoopPlaces
<1>1. Types /\ loop.info \in Infos \cup {Wakeup} /\ now \in Nat
  BY DelaysBound DEF IInv, Types, NoInfo
<1>2. CASE \/ RIL_startEventLoop \/ StartupDone \/ eventLoop \/ MakePipe \/ ril_event_add
           \/ calcNextTimeout \/ SelectReturns \/ SelectInterrupted \/ RoundDone \/ Tick
           \/ (\E t \in Threads : triggerEvLoop(t)) \/ UNCHANGED vars
  <2> USE DEF startVars, heapVars, LoopGoto
  <2>1. CASE RIL_startEventLoop
    <3>1. Types' /\ StartInv' /\ RoundInv'
      BY <1>1, <2>1 DEF Types, IInv, StartInv, RoundInv, RIL_startEventLoop, Pending
    <3>2. /\ UNCHANGED <<now, timer_list, pending_list, timeout, block>>
          /\ loop'.info = loop.info /\ (loop'.at = "callback" <=> loop.at = "callback")
      BY <1>1, <2>1 DEF Types, IInv, StartInv, RIL_startEventLoop
    <3>3. QED
      BY <1>1, <3>1, <3>2, ListsKept DEF IInv
  <2>2. CASE StartupDone
    <3>1. Types' /\ StartInv' /\ RoundInv'
      BY <1>1, <2>2 DEF Types, IInv, StartInv, RoundInv, StartupDone, Pending
    <3>2. UNCHANGED <<now, timer_list, pending_list, timeout, block, loop>>
      BY <2>2 DEF StartupDone
    <3>3. QED
      BY <1>1, <3>1, <3>2, ListsKept DEF IInv
  <2>3. CASE eventLoop
    <3>1. pending_list = <<>> /\ timer_list = <<>>
      BY <2>3 DEF IInv, StartInv, RoundInv, eventLoop
    <3>2. /\ UNCHANGED <<now, timer_list, pending_list, timeout, block>>
          /\ loop'.info = loop.info /\ (loop'.at = "callback" <=> loop.at = "callback")
      BY <1>1, <2>3, <3>1 DEF Types, eventLoop, ril_event_init
    <3>3. /\ loop.at = "init" /\ loop' = [loop EXCEPT !.at = "pipe"]
          /\ watch_table' = {} /\ s_started' = TRUE /\ main' = main /\ pipe' = pipe /\ pc' = pc
      BY <2>3 DEF eventLoop, ril_event_init
    <3>4. Types'
      BY <1>1, <3>2, <3>3 DEF Types
    <3>5. loop'.at = "pipe" /\ main' = "wait" /\ pending_list' = <<>>
      BY <1>1, <3>1, <3>2, <3>3 DEF Types, IInv, StartInv
    <3>6. StartInv' /\ RoundInv'
      BY <3>5 DEF StartInv, RoundInv
    <3>7. QED
      BY <1>1, <3>2, <3>4, <3>6, ListsKept DEF IInv
  <2>4. CASE MakePipe
    <3>1. /\ loop.at = "pipe" /\ pipe' \in [open : BOOLEAN, byte : BOOLEAN]
          /\ \E l \in {"watch", "gone"} : loop' = [loop EXCEPT !.at = l]
          /\ UNCHANGED <<now, main, s_started, watch_table, timer_list, pending_list, timeout, block, pc>>
      <4>1. CASE pipe' = [open |-> TRUE, byte |-> FALSE] /\ loop' = [loop EXCEPT !.at = "watch"]
        BY <2>4, <4>1 DEF MakePipe
      <4>2. CASE loop' = [loop EXCEPT !.at = "gone"] /\ pipe' = pipe
        BY <1>1, <2>4, <4>2 DEF Types, MakePipe
      <4>3. QED
        BY <2>4, <4>1, <4>2 DEF MakePipe
    <3>2. /\ loop'.at \in {"watch", "gone"} /\ loop'.info = loop.info
          /\ (loop'.at = "callback" <=> loop.at = "callback")
      BY <1>1, <3>1 DEF Types
    <3>3. Types'
      BY <1>1, <3>1 DEF Types
    <3>4. StartInv' /\ RoundInv'
      BY <3>1, <3>2 DEF IInv, StartInv, RoundInv
    <3>5. QED
      BY <1>1, <3>1, <3>2, <3>3, <3>4, ListsKept DEF IInv
  <2>5. CASE ril_event_add
    <3>1. Types' /\ StartInv' /\ RoundInv'
      BY <1>1, <2>5 DEF Types, IInv, StartInv, RoundInv, ril_event_add, Pending
    <3>2. /\ UNCHANGED <<now, timer_list, pending_list, timeout, block>>
          /\ loop'.info = loop.info /\ (loop'.at = "callback" <=> loop.at = "callback")
      BY <1>1, <2>5 DEF Types, ril_event_add
    <3>3. QED
      BY <1>1, <3>1, <3>2, ListsKept DEF IInv
  <2>6. CASE calcNextTimeout
    <3>1. Types' /\ StartInv' /\ RoundInv'
      BY <1>1, <2>6 DEF Types, IInv, StartInv, RoundInv, calcNextTimeout, Pending
    <3>2. /\ UNCHANGED <<now, timer_list, pending_list, timeout, block>>
          /\ loop'.info = loop.info /\ (loop'.at = "callback" <=> loop.at = "callback")
      BY <1>1, <2>6 DEF Types, calcNextTimeout
    <3>3. QED
      BY <1>1, <3>1, <3>2, ListsKept DEF IInv
  <2>7. CASE SelectReturns
    <3>1. Readable \in BOOLEAN
      BY DEF IInv, Types, Readable
    <3>2. /\ UNCHANGED <<now, timer_list, pending_list, timeout, block>>
          /\ loop'.info = loop.info /\ (loop'.at = "callback" <=> loop.at = "callback")
          /\ loop.at = "select" /\ loop'.at = "timeouts"
      BY <1>1, <2>7 DEF Types, SelectReturns
    <3>3. Types' /\ StartInv' /\ RoundInv'
      BY <1>1, <2>7, <3>1, <3>2 DEF Types, IInv, StartInv, RoundInv, SelectReturns, Pending
    <3>4. QED
      BY <1>1, <3>2, <3>3, ListsKept DEF IInv
  <2>8. CASE SelectInterrupted
    <3>1. Types' /\ StartInv' /\ RoundInv'
      BY <1>1, <2>8 DEF Types, IInv, StartInv, RoundInv, SelectInterrupted, Pending
    <3>2. /\ UNCHANGED <<now, timer_list, pending_list, timeout, block>>
          /\ loop'.info = loop.info /\ (loop'.at = "callback" <=> loop.at = "callback")
      BY <1>1, <2>8 DEF Types, SelectInterrupted
    <3>3. QED
      BY <1>1, <3>1, <3>2, ListsKept DEF IInv
  <2>9. CASE RoundDone
    <3>1. Types' /\ StartInv' /\ RoundInv'
      BY <1>1, <2>9 DEF Types, IInv, StartInv, RoundInv, RoundDone, Pending
    <3>2. /\ UNCHANGED <<now, timer_list, pending_list, timeout, block>>
          /\ loop'.info = loop.info /\ (loop'.at = "callback" <=> loop.at = "callback")
      BY <1>1, <2>9 DEF Types, RoundDone
    <3>3. QED
      BY <1>1, <3>1, <3>2, ListsKept DEF IInv
  <2>10. CASE Tick
    <3>1. Types' /\ StartInv' /\ RoundInv'
      BY <1>1, <2>10, DelaysBound DEF Types, IInv, StartInv, RoundInv, Tick, Pending
    <3>2. UNCHANGED <<timer_list, pending_list, timeout, block, loop>> /\ now' = now + 1
      BY <2>10 DEF Tick
    <3>3. QED
      BY <1>1, <3>1, <3>2, ListsKept DEF IInv
  <2>11. ASSUME NEW t \in Threads, triggerEvLoop(t)
         PROVE  IInv'
    <3>1. Types' /\ StartInv' /\ RoundInv'
      BY <1>1, <2>11 DEF Types, IInv, StartInv, RoundInv, triggerEvLoop, Pending
    <3>2. UNCHANGED <<now, timer_list, pending_list, timeout, block, loop>>
      BY <2>11 DEF triggerEvLoop
    <3>3. QED
      BY <1>1, <3>1, <3>2, ListsKept DEF IInv
  <2>12. CASE UNCHANGED vars
    <3>1. Types' /\ StartInv' /\ RoundInv'
      BY <1>1, <2>12 DEF Types, IInv, StartInv, RoundInv, vars, Pending
    <3>2. UNCHANGED <<now, timer_list, pending_list, timeout, block, loop>>
      BY <2>12 DEF vars
    <3>3. QED
      BY <1>1, <3>1, <3>2, ListsKept DEF IInv
  <2>13. QED
    BY <1>2, <2>1, <2>2, <2>3, <2>4, <2>5, <2>6, <2>7, <2>8, <2>9, <2>10, <2>11, <2>12
<1>3. CASE processTimeouts \/ processReadReadies \/ firePending \/ processWakeupCallback
           \/ userTimerCallback
  <2>1. Types' /\ PlaceInv' /\ OrderInv' /\ InOrder'
    BY <1>3, RoundStep
  <2>2. /\ loop.at \in {"timeouts", "readies", "fire", "callback"}
        /\ loop'.at \in {"readies", "fire", "callback"} /\ main' = main
    BY <1>1, <1>3
       DEF Types, processTimeouts, processReadReadies, firePending, processWakeupCallback,
           userTimerCallback, LoopGoto, startVars
  <2>3. StartInv'
    BY <2>2 DEF IInv, StartInv
  <2>4. RoundInv'
    <3>1. CASE processTimeouts
      <4>1. Pending' \subseteq Infos
        BY <3>1, Moved
      <4>2. QED
        BY <2>2, <4>1, WakeupIsNoTimer DEF RoundInv
    <3>2. CASE ~processTimeouts
      <4>1. loop'.at # "readies"
        BY <1>1, <1>3, <3>2
           DEF Types, processReadReadies, firePending, processWakeupCallback,
               userTimerCallback, LoopGoto
      <4>2. QED
        BY <2>2, <4>1 DEF RoundInv
    <3>3. QED
      BY <3>1, <3>2
  <2>5. QED
    BY <2>1, <2>3, <2>4 DEF IInv
<1>4. ASSUME NEW p \in Infos, NEW d \in Delays,
             (\E t \in Threads : RIL_requestTimedCallback(t, p, d)) \/ CallbackRequests(p, d)
      PROVE  IInv'
  <2>1. /\ internalRequestTimedCallback(p, d)
        /\ UNCHANGED <<now, startVars, pipe, watch_table, pending_list, loop>>
        /\ pc' = pc \/ \E t \in Threads : pc' = [pc EXCEPT ![t] = "added"]
        /\ loop.at = "callback" \/ (main = "up" /\ loop.at # "none")
    BY <1>4 DEF RIL_requestTimedCallback, CallbackRequests
  <2>2. PlaceInv' /\ OrderInv' /\ InOrder'
    BY <2>1, RequestStep
  <2>3. timer_list' \in Seq(Infos) /\ timeout' \in [Infos -> 0 .. MaxTime]
    BY <2>1, Asked
  <2>4. block' \in [Infos -> {"free", "used"}]
    BY <1>1, <2>1 DEF Types, internalRequestTimedCallback
  <2>5. Types'
    BY <1>1, <2>1, <2>3, <2>4 DEF Types, startVars
  <2>6. StartInv'
    BY <2>1 DEF IInv, StartInv, startVars
  <2>7. RoundInv'
    BY <2>1 DEF IInv, RoundInv, Pending
  <2>8. QED
    BY <2>2, <2>5, <2>6, <2>7 DEF IInv
<1>5. QED
  BY <1>2, <1>3, <1>4 DEF Next, LoopStep

LEMMA InvariantHolds == Spec => []IInv
BY Initial, Step, PTL DEF Spec

-----------------------------------------------------------------------------
\* However the start of the loop's thread, the threads that ask for callbacks
\* and the steps of a round fall between one another, a UserCallbackInfo in
\* use is once in one of the two lists or in the callback that frees it
\* (addToList, removeFromList, userTimerCallback in ril_event.cpp, ril.cpp).
THEOREM BlocksStayOwned == Spec => []BlocksOwned
<1>1. IInv => BlocksOwned
  <2> SUFFICES ASSUME IInv
               PROVE  BlocksOwned
    OBVIOUS
  <2>1. /\ timer_list \in Seq(Infos \cup {Wakeup}) /\ pending_list \in Seq(Infos \cup {Wakeup})
        /\ Len(timer_list) \in Nat /\ DOMAIN timer_list = 1 .. Len(timer_list)
        /\ Len(pending_list) \in Nat /\ DOMAIN pending_list = 1 .. Len(pending_list)
        /\ Timers \subseteq Infos /\ Pending \subseteq Infos \cup {Wakeup}
    BY ListTypes, LenProperties DEF IInv, Types
  <2>2. IsInjective(timer_list \o pending_list)
    <3> DEFINE n == Len(timer_list)
               both == timer_list \o pending_list
    <3>1. /\ DOMAIN both = 1 .. n + Len(pending_list)
          /\ \A i \in 1 .. n + Len(pending_list) :
               both[i] = IF i <= n THEN timer_list[i] ELSE pending_list[i - n]
      BY <2>1, ConcatProperties, LenProperties
    <3>2. /\ \A i, j \in 1 .. n : timer_list[i] = timer_list[j] => i = j
          /\ \A i, j \in 1 .. Len(pending_list) : pending_list[i] = pending_list[j] => i = j
      BY <2>1 DEF IInv, PlaceInv, IsInjective
    <3>3. \A i \in 1 .. n : \A j \in 1 .. Len(pending_list) : timer_list[i] # pending_list[j]
      BY <2>1 DEF IInv, PlaceInv, Timers, Pending, ToSet
    <3> SUFFICES ASSUME NEW i \in 1 .. n + Len(pending_list), NEW j \in 1 .. n + Len(pending_list),
                        both[i] = both[j]
                 PROVE  i = j
      BY <3>1 DEF IsInjective
    <3>4. n \in Nat
      BY <2>1
    <3> HIDE DEF both, n
    <3>5. \A k \in 1 .. n + Len(pending_list) :
            \/ k \in 1 .. n /\ both[k] = timer_list[k]
            \/ k > n /\ k - n \in 1 .. Len(pending_list) /\ both[k] = pending_list[k - n]
      BY <2>1, <3>1, <3>4
    <3>6. QED
      BY <2>1, <3>4, <3>2, <3>3, <3>5
  <2>3. Queued = Timers \cup (Pending \ {Wakeup})
    BY DEF Queued, Timers, Pending
  <2>4. loop.info \in Infos \cup {NoInfo}
    BY DEF IInv, Types
  <2>5. Queued \cup ({loop.info} \ {NoInfo}) = {p \in Infos : block[p] = "used"}
    BY <2>1, <2>3, <2>4, WakeupIsNoTimer DEF IInv, PlaceInv, NoInfo
  <2>6. loop.info \notin Queued
    BY <2>3 DEF IInv, PlaceInv, NoInfo
  <2>7. QED
    BY <2>2, <2>5, <2>6 DEF IInv, Types, BlocksOwned, LoopPlaces
<1>2. QED
  BY <1>1, InvariantHolds, PTL

\* No callback runs before its time, and none while another that is due
\* earlier waits in a list: ril_timer_add keeps the list sorted, and
\* processTimeouts and firePending keep its order.
THEOREM CallbacksInOrder == Spec => []InOrder
<1>1. IInv => InOrder
  BY DEF IInv
<1>2. QED
  BY <1>1, InvariantHolds, PTL
=============================================================================
