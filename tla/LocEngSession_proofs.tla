------------------------ MODULE LocEngSession_proofs ------------------------
(***************************************************************************)
(* Proofs about LocEngSession, for any modes, aiding data, parameters,     *)
(* servers and bounds.                                                     *)
(***************************************************************************)
EXTENDS LocEngSession, SequenceTheorems, TLAPS

Bare == {"init", "start", "stop", "ulp", "ni", "down", "ssr", "up"}
Commands == [what : {"start", "stop"}] \cup [what : {"mode"}, criteria : Criteria]
Messages ==
  [what : Bare] \cup [what : {"mode"}, criteria : Criteria]
  \cup [what : {"position"}, report : Reports]
  \cup [what : {"status"}, v : {"begin", "end", "on", "off"}]
  \cup [what : {"delete"}, types : SUBSET AidingData]
  \cup [what : {"conf"}, v : ConfValues] \cup [what : {"server"}, v : Servers]

Ulps == [real : BOOLEAN, mPosMode : Criteria, mFixSet : BOOLEAN]
Modems ==
  [up : BOOLEAN, fix : Criteria \cup {NoFix}, ni : BOOLEAN, told : BOOLEAN,
   conf : ConfValues \cup {None}, server : Servers \cup {None}]
Requests == [command : {"start", "stop"}, criteria : Criteria, ulp : BOOLEAN]
Counts == [calls : Nat, reports : Nat, restarts : Nat, events : Nat]
Tasks == [at : {"idle", "init", "up"} \cup Swapping, v : ConfValues \cup {None}]
Hals == [at : {"idle", "post"}, v : ConfValues \cup {None}] \cup [at : {"send"}, v : Commands]
\* only a real ULP, or one that takes the base proxy's place, has calls to forward
UlpIdle == ~mUlp.real /\ task.at \notin Swapping => ulpQ = <<>>

Types ==
  /\ adapter \in BOOLEAN /\ gps_loc_cb \in BOOLEAN /\ agps \in BOOLEAN
  /\ mNavigating \in BOOLEAN /\ refused \in BOOLEAN /\ stale \in BOOLEAN
  /\ mUlp \in Ulps
  /\ mQ \in Seq(Messages) /\ ulpQ \in Seq(Commands) /\ UlpIdle /\ crossed \in BOOLEAN
  /\ task.at \in Swapping => ~mUlp.real
  /\ mFixCriteria \in Criteria
  /\ mute_session_state \in {"none", "wait", "in session"}
  /\ engine_status \in {"none", "on", "off"}
  /\ aiding_data_for_deletion \in SUBSET AidingData /\ undeleted \in SUBSET AidingData
  /\ replaced \in SUBSET AidingData
  /\ gps_conf \in ConfValues /\ supl_host \in Servers \cup {None}
  /\ task \in Tasks /\ (task.at \in {"init", "up"} => task.v \in ConfValues)
  /\ hal \in Hals /\ (hal.at = "post" => hal.v = gps_conf)
  /\ modem \in Modems /\ asked \in Requests /\ count \in Counts

\* what waits in a queue
Has(q, what) == \E i \in 1 .. Len(q) : q[i].what = what
Holds(q, B) == \E i \in 1 .. Len(q) : q[i] \in B
\* each of A is followed by one of B
Followed(q, A, B) ==
  \A i \in 1 .. Len(q) : q[i] \in A => \E j \in i + 1 .. Len(q) : q[j] \in B
\* the last of its kind, if there is one, is in G
LastIn(q, what, G) ==
  \A i \in 1 .. Len(q) :
    q[i].what = what /\ (\A j \in i + 1 .. Len(q) : q[j].what # what) => q[i] \in G

First(q, what) == q # <<>> /\ q[1].what = what
\* the two messages of a modem that comes up, one after the other
Paired(q) ==
  \A i \in 1 .. Len(q) :
    /\ q[i].what = "ssr" => i < Len(q) /\ q[i + 1].what = "up"
    /\ q[i].what = "up" /\ i # 1 => q[i - 1].what = "ssr"

\* restarts
RestartInv ==
  /\ ~modem.up => modem.fix = NoFix
  /\ task.at = "up" => modem.fix = NoFix
  /\ ~modem.up \/ task.at = "up" \/ Has(mQ, "down") \/ Has(mQ, "ssr") \/ Has(mQ, "up")
       => count.restarts > 0
  /\ Paired(mQ)
  /\ First(mQ, "up") => task.at = "idle" /\ modem.fix = NoFix

\* the last parameter posted is the one of gps_conf, unless another will be
ConfInv ==
  \/ ~adapter \/ ~modem.up \/ hal.at = "post" \/ task.at \in {"init", "up"}
  \/ Has(mQ, "init") \/ Has(mQ, "up") \/ stale
  \/ /\ LastIn(mQ, "conf", {Value("conf", gps_conf)})
     /\ Has(mQ, "conf") \/ modem.conf = gps_conf

ServerInv ==
  \/ supl_host = None \/ ~adapter \/ ~modem.up \/ task.at = "up" \/ Has(mQ, "up")
  \/ count.restarts > 0 /\ ~(agps /\ HasMs)
  \/ /\ LastIn(mQ, "server", {Value("server", supl_host)})
     /\ Has(mQ, "server") \/ modem.server = supl_host

Statuses(vs) == {Value("status", v) : v \in vs}
Begins == Statuses({"begin", "on"})
Ends == Statuses({"end", "off"}) \cup {Msg("down")}

\* a session that is muted, or will be, ends
MuteInv ==
  \/ modem.told
  \/ /\ mute_session_state = "in session" => Holds(mQ, Ends)
     /\ Followed(mQ, Begins, Ends)

\* until the modem restarts
OnInv ==
  count.restarts = 0 =>
    \/ modem.told
    \/ /\ engine_status = "on" => Holds(mQ, Statuses({"off"}))
       /\ Followed(mQ, Statuses({"on"}), Statuses({"off"}))
\* what is asked to be deleted, and no later request has replaced, waits
Asking(t) == {m \in Messages : m.what = "delete" /\ t \in m.types}
AidInv ==
  count.restarts = 0 =>
    /\ \A t \in undeleted \ replaced : t \in aiding_data_for_deletion \/ Holds(mQ, Asking(t))
    /\ aiding_data_for_deletion # {} => engine_status = "on"

\* the messages with what has changed and with what has not
QueueInv == RestartInv /\ ConfInv /\ ServerInv /\ MuteInv /\ OnInv /\ AidInv

\* a step that posts messages of these kinds only
Kinds(more, K) == \A i \in 1 .. Len(more) : more[i].what \in K
Grew(K) == \E more \in Seq(Messages) : mQ' = mQ \o more /\ Kinds(more, K)

-----------------------------------------------------------------------------
(* The framework's commands, on their way through a ULP and the queue.     *)

Restarting == ~modem.up \/ task.at = "up" \/ Has(mQ, "up")

\* what the adapter and the modem do
Session ==
  [criteria |-> mFixCriteria, on |-> mNavigating, runs |-> modem.fix,
   excused |-> refused \/ Restarting, restarted |-> count.restarts > 0]

\* Of a sequence of commands s on its way, of what was asked for last, a, and of
\* what is done, w.

\* criteria that do what was asked for, but for the mode after a restart
Near(c, a, w) ==
  /\ c.recurrence = a.criteria.recurrence
  /\ periodic(c) /\ ~w.restarted => c = a.criteria

NoStop(s, i, j) == \A k \in i .. j : s[k].what # "stop"
\* the criteria a start at i takes
Given(s, i, w) == IF i = 1 THEN w.criteria ELSE s[i - 1].criteria

\* a mode goes directly before a start that still waits
ModeFirst(s) == \A i \in 2 .. Len(s) : s[i].what = "start" => s[i - 1].what = "mode"
\* what is started and not stopped is what was asked for
StartsNear(s, a, w) ==
  \A i \in 1 .. Len(s) : s[i].what = "start" /\ NoStop(s, i + 1, Len(s)) =>
    a.command = "start" /\ Near(Given(s, i, w), a, w)
\* while a session runs, modes do not turn a periodic one into another
ModesSame(s, w) ==
  /\ \A j \in 1 .. Len(s) : s[j].what = "mode" =>
       \A i \in 1 .. j - 1 : s[i].what = "start" /\ NoStop(s, i + 1, j - 1) =>
         s[j].criteria.recurrence = Given(s, i, w).recurrence
  /\ \A j \in 1 .. Len(s) : s[j].what = "mode" /\ w.on /\ NoStop(s, 1, j - 1) =>
       s[j].criteria.recurrence = w.criteria.recurrence
\* the criteria asked for are the last, or in use
LastNear(s, a, w) ==
  a.criteria # Unset =>
    IF s = <<>> THEN Near(w.criteria, a, w)
    ELSE \/ s[Len(s)].what = "start"
         \/ s[Len(s)].what = "mode" /\ Near(s[Len(s)].criteria, a, w)
\* what MsgTask and the modem do when no stop is on its way
Unstopped(s, a, w) ==
  NoStop(s, 1, Len(s)) =>
    /\ a.command = "stop" => ~w.on
    /\ periodic(w.runs) /\ ~w.restarted => w.runs = a.criteria
    /\ w.on /\ periodic(w.criteria) => periodic(w.runs) \/ w.excused
Orders(s, a, w) ==
  /\ ModeFirst(s) /\ StartsNear(s, a, w) /\ ModesSame(s, w) /\ LastNear(s, a, w)
  /\ Unstopped(s, a, w)

\* when the framework makes a call
Allowed(call) ==
  /\ call.what = "mode" =>
       asked.command = "stop" /\ asked.criteria = Unset /\ call.criteria.mode # INVALID
  /\ call.what = "start" => asked.command = "stop" /\ asked.criteria # Unset
\* what will be asked for when the call under way has returned
WantedCommand ==
  IF hal.at = "send" /\ hal.v.what # "mode" THEN hal.v.what ELSE asked.command
WantedCriteria ==
  IF hal.at = "send" /\ hal.v.what = "mode" THEN hal.v.criteria
  ELSE IF hal.at = "send" /\ hal.v.what = "stop" THEN Unset ELSE asked.criteria
CallInv ==
  /\ asked.criteria = Unset \/ asked.criteria.mode # INVALID
  /\ asked.command = "start" => asked.criteria # Unset
  /\ ~mUlp.real => /\ mUlp.mFixSet = (WantedCommand = "start")
                   /\ WantedCriteria # Unset => mUlp.mPosMode = WantedCriteria
  /\ hal.at = "send" => ~mUlp.real /\ task.at \notin Swapping /\ Allowed(hal.v)
AskedInv ==
  /\ CallInv
  /\ periodic(modem.fix) => mNavigating /\ periodic(mFixCriteria)

\* c is what the commands in q spell, in their order
Reads(q, c, f) ==
  /\ f \in [1 .. Len(c) -> 1 .. Len(q)]
  /\ \A i \in 1 .. Len(c) : q[f[i]] = c[i]
  /\ \A i, j \in 1 .. Len(c) : i < j => f[i] < f[j]
  /\ \A k \in 1 .. Len(q) : q[k] \in Commands => \E i \in 1 .. Len(c) : f[i] = k
Spells(q, c) == \E f : Reads(q, c, f)

\* the start that the new ULP will be told comes behind its mode
Told(s) == task.at = "told mode" /\ mUlp.mFixSet => s # <<>> /\ s[Len(s)].what = "mode"

\* the commands on their way and what they will do
CommandInv ==
  \E c \in Seq(Commands) :
    Spells(mQ, c) /\ Orders(c \o ulpQ, asked, Session) /\ Told(c \o ulpQ)

-----------------------------------------------------------------------------
(* Queues.                                                                 *)

LEMMA TailOf ==
  ASSUME NEW S, NEW q \in Seq(S), q # <<>>
  PROVE  /\ Tail(q) \in Seq(S) /\ Len(q) \in Nat \ {0} /\ Len(Tail(q)) = Len(q) - 1
         /\ \A i \in 1 .. Len(q) - 1 : Tail(q)[i] = q[i + 1]
         /\ Head(q) = q[1] /\ Head(q) \in S
         /\ \A i \in 1 .. Len(q) : q[i] \in S
BY LenProperties, ElementOfSeq, EmptySeq, HeadTailProperties

LEMMA Grown ==
  ASSUME NEW S, NEW q \in Seq(S), NEW more \in Seq(S)
  PROVE  /\ q \o more \in Seq(S) /\ Len(q) \in Nat /\ Len(more) \in Nat
         /\ Len(q \o more) = Len(q) + Len(more)
         /\ \A i \in 1 .. Len(q) : (q \o more)[i] = q[i] /\ q[i] \in S
         /\ \A i \in 1 .. Len(more) : (q \o more)[Len(q) + i] = more[i] /\ more[i] \in S
         /\ \A i \in 1 .. Len(q \o more) :
              i \in 1 .. Len(q) \/ \E k \in 1 .. Len(more) : i = Len(q) + k
<1>1. Len(q) \in Nat /\ Len(more) \in Nat
  BY LenProperties
<1>2. /\ q \o more \in Seq(S) /\ Len(q \o more) = Len(q) + Len(more)
      /\ \A i \in 1 .. Len(q) + Len(more) :
           (q \o more)[i] = IF i <= Len(q) THEN q[i] ELSE more[i - Len(q)]
  BY ConcatProperties
<1>3. \A i \in 1 .. Len(q \o more) :
        i \in 1 .. Len(q) \/ \E k \in 1 .. Len(more) : i = Len(q) + k
  <2> TAKE i \in 1 .. Len(q \o more)
  <2>1. CASE i > Len(q)
    <3>1. i - Len(q) \in 1 .. Len(more) /\ i = Len(q) + (i - Len(q))
      BY <1>1, <1>2, <2>1
    <3>2. QED
      BY <3>1
  <2>2. QED
    BY <1>1, <1>2, <2>1
<1>4. QED
  BY <1>1, <1>2, <1>3, ElementOfSeq

LEMMA HasTail ==
  ASSUME NEW S, NEW q \in Seq(S), q # <<>>, NEW what
  PROVE  /\ Has(Tail(q), what) => Has(q, what)
         /\ Has(q, what) /\ Head(q).what # what => Has(Tail(q), what)
<1>1. ASSUME NEW i \in 1 .. Len(Tail(q)), Tail(q)[i].what = what PROVE Has(q, what)
  <2>1. i + 1 \in 1 .. Len(q) /\ q[i + 1].what = what
    BY <1>1, TailOf
  <2>2. QED
    BY <2>1 DEF Has
<1>2. ASSUME NEW i \in 1 .. Len(q), q[i].what = what, Head(q).what # what
      PROVE  Has(Tail(q), what)
  <2>1. i # 1
    BY <1>2, TailOf
  <2>2. i - 1 \in 1 .. Len(Tail(q)) /\ Tail(q)[i - 1] = q[(i - 1) + 1] /\ (i - 1) + 1 = i
    BY <2>1, TailOf
  <2>3. QED
    BY <1>2, <2>2 DEF Has
<1>3. QED
  BY <1>1, <1>2 DEF Has

LEMMA HasGrown ==
  ASSUME NEW S, NEW q \in Seq(S), NEW more \in Seq(S), NEW what
  PROVE  Has(q \o more, what) <=> Has(q, what) \/ Has(more, what)
<1>1. ASSUME Has(q \o more, what) PROVE Has(q, what) \/ Has(more, what)
  BY <1>1, Grown DEF Has
<1>2. ASSUME NEW i \in 1 .. Len(q), q[i].what = what PROVE Has(q \o more, what)
  <2>1. i \in 1 .. Len(q \o more) /\ (q \o more)[i].what = what
    BY <1>2, Grown
  <2>2. QED
    BY <2>1 DEF Has
<1>3. ASSUME NEW i \in 1 .. Len(more), more[i].what = what PROVE Has(q \o more, what)
  <2>1. Len(q) + i \in 1 .. Len(q \o more) /\ (q \o more)[Len(q) + i].what = what
    BY <1>3, Grown
  <2>2. QED
    BY <2>1 DEF Has
<1>4. QED
  BY <1>1, <1>2, <1>3 DEF Has

LEMMA HoldsTail ==
  ASSUME NEW S, NEW q \in Seq(S), q # <<>>, NEW B
  PROVE  Holds(q, B) /\ Head(q) \notin B => Holds(Tail(q), B)
<1> SUFFICES ASSUME NEW i \in 1 .. Len(q), q[i] \in B, Head(q) \notin B
             PROVE  Holds(Tail(q), B)
  BY DEF Holds
<1>1. i # 1
  BY TailOf
<1>2. i - 1 \in 1 .. Len(Tail(q)) /\ Tail(q)[i - 1] = q[(i - 1) + 1] /\ (i - 1) + 1 = i
  BY <1>1, TailOf
<1>3. QED
  BY <1>2 DEF Holds

LEMMA HoldsGrown ==
  ASSUME NEW S, NEW q \in Seq(S), NEW more \in Seq(S), NEW B
  PROVE  Holds(q, B) \/ Holds(more, B) => Holds(q \o more, B)
<1>1. ASSUME NEW i \in 1 .. Len(q), q[i] \in B PROVE Holds(q \o more, B)
  <2>1. i \in 1 .. Len(q \o more) /\ (q \o more)[i] \in B
    BY <1>1, Grown
  <2>2. QED
    BY <2>1 DEF Holds
<1>2. ASSUME NEW i \in 1 .. Len(more), more[i] \in B PROVE Holds(q \o more, B)
  <2>1. Len(q) + i \in 1 .. Len(q \o more) /\ (q \o more)[Len(q) + i] \in B
    BY <1>2, Grown
  <2>2. QED
    BY <2>1 DEF Holds
<1>3. QED
  BY <1>1, <1>2 DEF Holds

LEMMA FollowedTail ==
  ASSUME NEW S, NEW q \in Seq(S), q # <<>>, NEW A, NEW B, Followed(q, A, B)
  PROVE  Followed(Tail(q), A, B) /\ (Head(q) \in A => Holds(Tail(q), B))
<1>1. ASSUME NEW i \in 1 .. Len(Tail(q)), Tail(q)[i] \in A
      PROVE  \E j \in i + 1 .. Len(Tail(q)) : Tail(q)[j] \in B
  <2>1. i + 1 \in 1 .. Len(q) /\ q[i + 1] \in A
    BY <1>1, TailOf
  <2>2. PICK j \in (i + 1) + 1 .. Len(q) : q[j] \in B
    BY <2>1 DEF Followed
  <2>3. j - 1 \in i + 1 .. Len(Tail(q)) /\ Tail(q)[j - 1] = q[(j - 1) + 1] /\ (j - 1) + 1 = j
    BY <2>2, TailOf
  <2>4. QED
    BY <2>2, <2>3
<1>2. ASSUME Head(q) \in A PROVE Holds(Tail(q), B)
  <2>1. 1 \in 1 .. Len(q) /\ q[1] \in A
    BY <1>2, TailOf
  <2>2. PICK j \in 1 + 1 .. Len(q) : q[j] \in B
    BY <2>1 DEF Followed
  <2>3. j - 1 \in 1 .. Len(Tail(q)) /\ Tail(q)[j - 1] = q[(j - 1) + 1] /\ (j - 1) + 1 = j
    BY <2>2, TailOf
  <2>4. QED
    BY <2>2, <2>3 DEF Holds
<1>3. QED
  BY <1>1, <1>2 DEF Followed

LEMMA FollowedGrown ==
  ASSUME NEW S, NEW q \in Seq(S), NEW more \in Seq(S), NEW A, NEW B, Followed(more, A, B),
         Followed(q, A, B) \/ Holds(more, B)
  PROVE  Followed(q \o more, A, B)
<1> SUFFICES ASSUME NEW i \in 1 .. Len(q \o more), (q \o more)[i] \in A
             PROVE  \E j \in i + 1 .. Len(q \o more) : (q \o more)[j] \in B
  BY DEF Followed
<1>0. /\ Len(q) \in Nat /\ Len(more) \in Nat /\ Len(q \o more) = Len(q) + Len(more)
      /\ \A k \in 1 .. Len(more) : (q \o more)[Len(q) + k] = more[k]
      /\ i \in 1 .. Len(q) \/ \E k \in 1 .. Len(more) : i = Len(q) + k
  BY Grown
<1>1. ASSUME NEW k \in 1 .. Len(more), i = Len(q) + k
      PROVE  \E j \in i + 1 .. Len(q \o more) : (q \o more)[j] \in B
  <2>1. more[k] \in A
    BY <1>1, Grown
  <2>2. PICK j \in k + 1 .. Len(more) : more[j] \in B
    BY <2>1 DEF Followed
  <2>3. Len(q) + j \in i + 1 .. Len(q \o more) /\ (q \o more)[Len(q) + j] \in B
    BY <1>1, <2>2, Grown
  <2>4. QED
    BY <2>3
<1>2. ASSUME i \in 1 .. Len(q), Holds(more, B)
      PROVE  \E j \in i + 1 .. Len(q \o more) : (q \o more)[j] \in B
  <2>1. PICK j \in 1 .. Len(more) : more[j] \in B
    BY <1>2 DEF Holds
  <2>2. Len(q) + j \in i + 1 .. Len(q \o more) /\ (q \o more)[Len(q) + j] \in B
    BY <1>2, <2>1, <1>0
  <2>3. QED
    BY <2>2
<1>3. ASSUME i \in 1 .. Len(q), Followed(q, A, B)
      PROVE  \E j \in i + 1 .. Len(q \o more) : (q \o more)[j] \in B
  <2>1. q[i] \in A
    BY <1>3, Grown
  <2>2. PICK j \in i + 1 .. Len(q) : q[j] \in B
    BY <1>3, <2>1 DEF Followed
  <2>3. j \in i + 1 .. Len(q \o more) /\ (q \o more)[j] \in B
    BY <1>3, <2>2, Grown
  <2>4. QED
    BY <2>3
<1>4. QED
  BY <1>0, <1>1, <1>2, <1>3, Zenon

LEMMA LastTail ==
  ASSUME NEW S, NEW q \in Seq(S), q # <<>>, NEW what, NEW G, LastIn(q, what, G)
  PROVE  /\ LastIn(Tail(q), what, G)
         /\ Head(q).what = what /\ ~Has(Tail(q), what) => Head(q) \in G
<1>1. ASSUME NEW i \in 1 .. Len(Tail(q)), Tail(q)[i].what = what,
             \A j \in i + 1 .. Len(Tail(q)) : Tail(q)[j].what # what
      PROVE  Tail(q)[i] \in G
  <2>1. i + 1 \in 1 .. Len(q) /\ q[i + 1] = Tail(q)[i]
    BY <1>1, TailOf
  <2>2. ASSUME NEW j \in (i + 1) + 1 .. Len(q) PROVE q[j].what # what
    <3>1. j - 1 \in i + 1 .. Len(Tail(q)) /\ Tail(q)[j - 1] = q[(j - 1) + 1] /\ (j - 1) + 1 = j
      BY TailOf
    <3>2. QED
      BY <1>1, <3>1
  <2>3. QED
    BY <1>1, <2>1, <2>2 DEF LastIn
<1>2. ASSUME Head(q).what = what, ~Has(Tail(q), what) PROVE Head(q) \in G
  <2>1. ASSUME NEW j \in 1 + 1 .. Len(q) PROVE q[j].what # what
    <3>1. j - 1 \in 1 .. Len(Tail(q)) /\ Tail(q)[j - 1] = q[(j - 1) + 1] /\ (j - 1) + 1 = j
      BY TailOf
    <3>2. QED
      BY <1>2, <3>1 DEF Has
  <2>2. QED
    BY <1>2, <2>1, TailOf DEF LastIn
<1>3. QED
  BY <1>1, <1>2 DEF LastIn

LEMMA LastGrown ==
  ASSUME NEW S, NEW q \in Seq(S), NEW more \in Seq(S), NEW what, NEW G,
         LastIn(more, what, G), LastIn(q, what, G) \/ Has(more, what)
  PROVE  LastIn(q \o more, what, G)
<1> SUFFICES ASSUME NEW i \in 1 .. Len(q \o more), (q \o more)[i].what = what,
                    \A j \in i + 1 .. Len(q \o more) : (q \o more)[j].what # what
             PROVE  (q \o more)[i] \in G
  BY DEF LastIn
<1>1. ASSUME NEW k \in 1 .. Len(more), i = Len(q) + k PROVE (q \o more)[i] \in G
  <2>1. ASSUME NEW j \in k + 1 .. Len(more) PROVE more[j].what # what
    <3>1. Len(q) + j \in i + 1 .. Len(q \o more) /\ (q \o more)[Len(q) + j] = more[j]
      BY <1>1, Grown
    <3>2. QED
      BY <3>1
  <2>2. more[k].what = what /\ (q \o more)[i] = more[k]
    BY <1>1, Grown
  <2>3. QED
    BY <2>1, <2>2 DEF LastIn
<1>2. ASSUME i \in 1 .. Len(q) PROVE (q \o more)[i] \in G
  <2>1. ASSUME NEW j \in 1 .. Len(more) PROVE more[j].what # what
    <3>1. Len(q) + j \in i + 1 .. Len(q \o more) /\ (q \o more)[Len(q) + j] = more[j]
      BY <1>2, Grown
    <3>2. QED
      BY <3>1
  <2>2. ASSUME NEW j \in i + 1 .. Len(q) PROVE q[j].what # what
    <3>1. j \in i + 1 .. Len(q \o more) /\ (q \o more)[j] = q[j]
      BY <1>2, Grown
    <3>2. QED
      BY <3>1
  <2>3. LastIn(q, what, G)
    BY <2>1, Zenon DEF Has
  <2>4. q[i].what = what /\ (q \o more)[i] = q[i]
    BY <1>2, Grown
  <2>5. QED
    BY <1>2, <2>2, <2>3, <2>4 DEF LastIn
<1>3. QED
  BY <1>1, <1>2, Grown

-----------------------------------------------------------------------------
(* Types.                                                                  *)

LEMMA MessageTypes ==
  /\ \A what \in Bare : Msg(what) \in Messages
  /\ \A v \in ConfValues : Value("conf", v) \in Messages
  /\ \A v \in Servers : Value("server", v) \in Messages
  /\ \A v \in {"begin", "end", "on", "off"} : Value("status", v) \in Messages
  /\ Commands \subseteq Messages
  /\ Msg("start") \in Commands /\ Msg("stop") \in Commands
  /\ \A c \in Criteria : Mode(c) \in Commands
  /\ \A f \in SUBSET AidingData : [what |-> "delete", types |-> f] \in Messages
  /\ \A r \in Reports : [what |-> "position", report |-> r] \in Messages
BY DEF Messages, Commands, Bare, Msg, Value, Mode

\* what each kind of message carries
LEMMA MessageFields ==
  ASSUME NEW m \in Messages
  PROVE  /\ m.what = "mode" => m \in Commands /\ m.criteria \in Criteria /\ m = Mode(m.criteria)
         /\ m.what = "position" => m.report \in Reports
         /\ m.what = "status" => m.v \in {"begin", "end", "on", "off"} /\ m = Value("status", m.v)
         /\ m.what = "delete" => m.types \in SUBSET AidingData
         /\ m.what = "conf" => m.v \in ConfValues /\ m = Value("conf", m.v)
         /\ m.what = "server" => m.v \in Servers /\ m = Value("server", m.v)
         /\ m.what \in Bare => m = Msg(m.what)
         /\ m.what \in Bare \cup {"mode", "position", "status", "delete", "conf", "server"}
BY DEF Messages, Commands, Bare, Msg, Value, Mode

LEMMA Singles == ASSUME NEW S, NEW a \in S, NEW b \in S
                 PROVE  <<>> \in Seq(S) /\ <<a>> \in Seq(S) /\ <<a, b>> \in Seq(S)
OBVIOUS

LEMMA Posted ==
  ASSUME Types, NEW more \in Seq(Messages), mQ' = mQ \o more PROVE mQ' \in Seq(Messages)
BY Grown DEF Types

LEMMA TakenTypes ==
  ASSUME Types, NEW what, Receive(what)
  PROVE  /\ mQ \in Seq(Messages) /\ mQ # <<>> /\ Head(mQ) \in Messages /\ Head(mQ).what = what
         /\ Tail(mQ) \in Seq(Messages)
BY TailOf DEF Types, Receive

\* the framework's commands
LEMMA CommandKinds ==
  ASSUME NEW call \in Commands
  PROVE  /\ call = Msg("start") \/ call = Msg("stop")
            \/ \E c \in Criteria : call = Mode(c) /\ call.criteria = c
         /\ call.what \in {"mode", "start", "stop"} /\ call \in Messages
         /\ call.what = "mode" => call.criteria \in Criteria
<1>1. CASE call \in [what : {"start", "stop"}]
  BY <1>1, MessageTypes DEF Msg, Commands
<1>2. CASE call \in [what : {"mode"}, criteria : Criteria]
  BY <1>2, MessageTypes DEF Mode, Commands
<1>3. QED
  BY <1>1, <1>2 DEF Commands

LEMMA RecordedTypes ==
  ASSUME Types, NEW call \in Commands
  PROVE  Recorded(call) \in Ulps /\ Recorded(call).real = mUlp.real
<1>1. mUlp \in Ulps
  BY DEF Types
<1>2. CASE call.what = "mode"
  BY <1>1, <1>2, CommandKinds DEF Recorded, Ulps
<1>3. CASE call.what # "mode"
  <2>1. (call.what = "start") \in BOOLEAN
    OBVIOUS
  <2>2. QED
    BY <1>1, <1>3, <2>1 DEF Recorded, Ulps
<1>4. QED
  BY <1>2, <1>3

LEMMA AsksTypes == ASSUME Types, NEW call \in Commands, Asks(call) PROVE asked' \in Requests
<1>1. asked \in Requests /\ Unset \in Criteria
  BY DEF Types, Unset, Criteria
<1>2. CASE call.what = "mode"
  <2>1. asked' = [asked EXCEPT !.criteria = call.criteria] /\ call.criteria \in Criteria
    BY <1>2, CommandKinds DEF Asks
  <2>2. QED
    BY <1>1, <2>1 DEF Requests
<1>3. CASE call.what = "start"
  BY <1>1, <1>3 DEF Asks, Requests
<1>4. CASE call.what = "stop"
  BY <1>1, <1>4 DEF Asks, Requests
<1>5. QED
  BY <1>2, <1>3, <1>4, CommandKinds

LEMMA CallFields ==
  ASSUME Types, NEW call \in Commands
  PROVE  /\ Asks(call) =>
              /\ asked'.command = IF call.what = "mode" THEN asked.command ELSE call.what
              /\ asked'.criteria = IF call.what = "mode" THEN call.criteria
                                   ELSE IF call.what = "stop" THEN Unset ELSE asked.criteria
         /\ Recorded(call).mFixSet = IF call.what = "mode" THEN mUlp.mFixSet
                                     ELSE (call.what = "start")
         /\ Recorded(call).mPosMode = IF call.what = "mode" THEN call.criteria ELSE mUlp.mPosMode
<1>1. asked \in Requests /\ mUlp \in Ulps
  BY DEF Types
<1>2. CASE call.what = "mode"
  <2>1. Asks(call) => asked' = [asked EXCEPT !.criteria = call.criteria]
    BY <1>2 DEF Asks
  <2>2. Recorded(call) = [mUlp EXCEPT !.mPosMode = call.criteria]
    BY <1>2 DEF Recorded
  <2>3. QED
    BY <1>1, <1>2, <2>1, <2>2 DEF Requests, Ulps
<1>3. CASE call.what # "mode"
  <2>1. Recorded(call) = [mUlp EXCEPT !.mFixSet = (call.what = "start")]
    BY <1>3 DEF Recorded
  <2>2. /\ Recorded(call).mFixSet = (call.what = "start")
        /\ Recorded(call).mPosMode = mUlp.mPosMode
    BY <1>1, <2>1 DEF Ulps
  <2>3. call.what = "start" /\ Asks(call) =>
          asked'.command = "start" /\ asked'.criteria = asked.criteria
    BY <1>1 DEF Asks, Requests
  <2>4. call.what = "stop" /\ Asks(call) => asked'.command = "stop" /\ asked'.criteria = Unset
    BY <1>1 DEF Asks, Requests
  <2>5. call.what \in {"start", "stop"}
    BY <1>3, CommandKinds
  <2>6. QED
    BY <1>3, <2>2, <2>3, <2>4, <2>5
<1>4. QED
  BY <1>2, <1>3

\* a command to a ULP, or recorded by the base proxy
LEMMA ToUlpTypes ==
  ASSUME Types, NEW call \in Commands, ToUlp(call), UNCHANGED task
  PROVE  /\ ulpQ' \in Seq(Commands) /\ UlpIdle' /\ crossed' \in BOOLEAN
         /\ mUlp' \in Ulps /\ mUlp'.real = mUlp.real
         /\ hal' \in Hals /\ (hal'.at = "post" => hal'.v = gps_conf)
         /\ asked' \in Requests /\ refused' \in BOOLEAN
<1>1. refused' \in BOOLEAN
  BY DEF ToUlp, Types
<1>2. CASE mUlp.real
  <2>1. ulpQ' = Append(ulpQ, call) /\ UNCHANGED <<mUlp, crossed, hal>> /\ Asks(call)
    BY <1>2 DEF ToUlp
  <2>2. ulpQ' \in Seq(Commands)
    BY <2>1, AppendProperties DEF Types
  <2>3. QED
    BY <1>1, <1>2, <2>1, <2>2, AsksTypes DEF Types, UlpIdle
<1>3. CASE ~mUlp.real
  <2>1. /\ mUlp' = Recorded(call) /\ hal' = [at |-> "send", v |-> call]
        /\ crossed' = (crossed \/ task.at \in Swapping) /\ UNCHANGED <<ulpQ, asked>>
    BY <1>3 DEF ToUlp
  <2>2. mUlp' \in Ulps /\ mUlp'.real = mUlp.real
    BY <2>1, RecordedTypes
  <2>3. hal' \in Hals /\ hal'.at = "send" /\ crossed' \in BOOLEAN
    BY <2>1 DEF Hals, Types
  <2>4. QED
    BY <1>1, <2>1, <2>2, <2>3 DEF Types, UlpIdle
<1>4. QED
  BY <1>2, <1>3

\* how the records of the state are updated
LEMMA Updates ==
  ASSUME Types
  PROVE  /\ \A b \in BOOLEAN : [asked EXCEPT !.ulp = b] \in Requests
         /\ [count EXCEPT !.calls = @ + 1] \in Counts
         /\ [count EXCEPT !.reports = @ + 1] \in Counts
         /\ [count EXCEPT !.restarts = @ + 1] \in Counts
         /\ [count EXCEPT !.events = @ + 1] \in Counts
<1>1. asked \in Requests /\ count \in Counts
  BY DEF Types
<1>2. \A b \in BOOLEAN : [asked EXCEPT !.ulp = b] \in Requests
  BY <1>1 DEF Requests
<1>3. /\ [count EXCEPT !.calls = @ + 1] \in Counts
      /\ [count EXCEPT !.reports = @ + 1] \in Counts
      /\ [count EXCEPT !.restarts = @ + 1] \in Counts
      /\ [count EXCEPT !.events = @ + 1] \in Counts
  BY <1>1 DEF Counts
<1>4. QED
  BY <1>2, <1>3

LEMMA InitTypes == Init => Types
<1>1. Unset \in Criteria
  BY DEF Unset, Criteria
<1>2. <<>> \in Seq(Messages) /\ <<>> \in Seq(Commands)
  OBVIOUS
<1>3. ASSUME Init
      PROVE  /\ mUlp \in Ulps
             /\ task \in Tasks /\ task.at = "idle"
             /\ hal \in Hals /\ hal.at = "idle"
  BY <1>1, <1>3 DEF Init, Quiescent, Ulps, Tasks, Hals
<1>4. ASSUME Init
      PROVE  modem \in Modems
  BY <1>4 DEF Init, Modems
<1>5. ASSUME Init
      PROVE  /\ asked \in Requests
             /\ count \in Counts
  BY <1>1, <1>5 DEF Init, Requests, Counts
<1>6. ASSUME Init
      PROVE  /\ gps_conf \in ConfValues /\ supl_host \in Servers \cup {None}
             /\ aiding_data_for_deletion \in SUBSET AidingData
             /\ undeleted \in SUBSET AidingData /\ replaced \in SUBSET AidingData
             /\ mFixCriteria \in Criteria /\ mQ \in Seq(Messages) /\ ulpQ \in Seq(Commands)
             /\ ulpQ = <<>>
  BY <1>1, <1>2, <1>6, ValuesAreValues DEF Init
<1> QED
  BY <1>3, <1>4, <1>5, <1>6 DEF Init, Types, UlpIdle, Swapping

LEMMA SetServerTypes ==
  ASSUME NEW v \in Servers \cup {None}
  PROVE  SetServer(v) \in Seq(Messages) /\ <<>> \in Seq(Messages)
<1>1. CASE v = None
  BY <1>1 DEF SetServer
<1>2. CASE v \in Servers /\ v # None
  BY <1>2, MessageTypes, Singles DEF SetServer
<1>3. QED
  BY <1>1, <1>2

\* the types after a step, from those of what it changes
LEMMA OutsideTypes ==
  ASSUME Types,
         UNCHANGED <<adapter, gps_loc_cb, hal, mNavigating, mFixCriteria, task, refused>>,
         UNCHANGED <<mute_session_state, engine_status, aiding_data_for_deletion>>,
         UNCHANGED <<gps_conf, supl_host, agps, stale, mUlp, crossed>>,
         mQ' \in Seq(Messages), ulpQ' \in Seq(Commands), UlpIdle',
         undeleted' \in SUBSET AidingData, replaced' \in SUBSET AidingData,
         modem' \in Modems, asked' \in Requests, count' \in Counts
  PROVE  Types'
<1>1. /\ adapter' \in BOOLEAN /\ gps_loc_cb' \in BOOLEAN /\ agps' \in BOOLEAN
      /\ mNavigating' \in BOOLEAN /\ refused' \in BOOLEAN /\ stale' \in BOOLEAN
      /\ mUlp' \in Ulps /\ crossed' \in BOOLEAN
  BY DEF Types
<1>2. /\ mFixCriteria' \in Criteria /\ mute_session_state' \in {"none", "wait", "in session"}
      /\ engine_status' \in {"none", "on", "off"} /\ aiding_data_for_deletion' \in SUBSET AidingData
      /\ gps_conf' \in ConfValues /\ supl_host' \in Servers \cup {None}
  BY DEF Types
<1>3. /\ task' \in Tasks /\ (task'.at \in {"init", "up"} => task'.v \in ConfValues)
      /\ task'.at \in Swapping => ~mUlp'.real
      /\ hal' \in Hals /\ (hal'.at = "post" => hal'.v = gps_conf')
  BY DEF Types
<1>4. QED
  BY <1>1, <1>2, <1>3 DEF Types

\* as for OutsideTypes, when the interfaces change as well
LEMMA InterfaceTypes ==
  ASSUME Types,
         UNCHANGED <<mNavigating, mFixCriteria, task, modem, undeleted, replaced, gps_conf,
                     stale>>,
         UNCHANGED <<mute_session_state, engine_status, aiding_data_for_deletion>>,
         adapter' \in BOOLEAN, gps_loc_cb' \in BOOLEAN, agps' \in BOOLEAN, refused' \in BOOLEAN,
         supl_host' \in Servers \cup {None},
         hal' \in Hals, hal'.at = "post" => hal'.v = gps_conf,
         mUlp' \in Ulps, mUlp'.real = mUlp.real, crossed' \in BOOLEAN,
         mQ' \in Seq(Messages), ulpQ' \in Seq(Commands),
         UlpIdle', asked' \in Requests, count' \in Counts
  PROVE  Types'
<1>1. /\ mNavigating' \in BOOLEAN /\ stale' \in BOOLEAN
      /\ mFixCriteria' \in Criteria /\ mute_session_state' \in {"none", "wait", "in session"}
      /\ engine_status' \in {"none", "on", "off"} /\ aiding_data_for_deletion' \in SUBSET AidingData
      /\ gps_conf' \in ConfValues /\ modem' \in Modems
      /\ undeleted' \in SUBSET AidingData /\ replaced' \in SUBSET AidingData
  BY DEF Types
<1>2. /\ task' \in Tasks /\ (task'.at \in {"init", "up"} => task'.v \in ConfValues)
      /\ task'.at \in Swapping => ~mUlp'.real
  BY DEF Types
<1>3. QED
  BY <1>1, <1>2 DEF Types

\* and when the configuration does
LEMMA ValueTypes ==
  ASSUME Types,
         UNCHANGED <<adapter, gps_loc_cb, agps, asked, mUlp, ulpQ, crossed, mNavigating,
                     mFixCriteria>>,
         UNCHANGED <<mute_session_state, engine_status, aiding_data_for_deletion>>,
         UNCHANGED <<task, modem, refused, undeleted, replaced>>,
         gps_conf' \in ConfValues, supl_host' \in Servers \cup {None}, stale' \in BOOLEAN,
         hal' \in Hals, hal'.at = "post" => hal'.v = gps_conf',
         mQ' \in Seq(Messages), count' \in Counts
  PROVE  Types'
<1>1. /\ adapter' \in BOOLEAN /\ gps_loc_cb' \in BOOLEAN /\ agps' \in BOOLEAN
      /\ mNavigating' \in BOOLEAN /\ refused' \in BOOLEAN
      /\ mFixCriteria' \in Criteria /\ mute_session_state' \in {"none", "wait", "in session"}
      /\ engine_status' \in {"none", "on", "off"}
  BY DEF Types
<1>2. /\ mUlp' \in Ulps /\ ulpQ' \in Seq(Commands) /\ UlpIdle' /\ crossed' \in BOOLEAN
      /\ asked' \in Requests /\ modem' \in Modems /\ aiding_data_for_deletion' \in SUBSET AidingData
      /\ undeleted' \in SUBSET AidingData /\ replaced' \in SUBSET AidingData
  BY DEF Types, UlpIdle
<1>3. /\ task' \in Tasks /\ (task'.at \in {"init", "up"} => task'.v \in ConfValues)
      /\ task'.at \in Swapping => ~mUlp'.real
  BY DEF Types
<1>4. QED
  BY <1>1, <1>2, <1>3 DEF Types

LEMMA TaskTypes ==
  ASSUME Types,
         UNCHANGED <<adapter, gps_loc_cb, hal, asked, count>>,
         UNCHANGED <<gps_conf, supl_host, agps>>, stale' \in BOOLEAN,
         mQ' \in Seq(Messages), mUlp' \in Ulps, ulpQ' \in Seq(Commands), UlpIdle',
         crossed' \in BOOLEAN, task'.at \in Swapping => ~mUlp'.real,
         undeleted' \in SUBSET AidingData, replaced' \in SUBSET AidingData,
         aiding_data_for_deletion' \in SUBSET AidingData,
         mute_session_state' \in {"none", "wait", "in session"},
         engine_status' \in {"none", "on", "off"},
         mNavigating' \in BOOLEAN, mFixCriteria' \in Criteria, refused' \in BOOLEAN,
         modem' \in Modems, task' \in Tasks,
         task'.at \in {"init", "up"} => task'.v \in ConfValues
  PROVE  Types'
<1>1. /\ adapter' \in BOOLEAN /\ gps_loc_cb' \in BOOLEAN /\ agps' \in BOOLEAN
      /\ mNavigating' \in BOOLEAN /\ refused' \in BOOLEAN /\ stale' \in BOOLEAN
  BY DEF Types
<1>2. /\ gps_conf' \in ConfValues /\ supl_host' \in Servers \cup {None}
      /\ hal' \in Hals /\ (hal'.at = "post" => hal'.v = gps_conf')
  BY DEF Types
<1>3. asked' \in Requests /\ count' \in Counts
  BY DEF Types
<1>4. QED
  BY <1>1, <1>2, <1>3 DEF Types

LEMMA FrameworkTypes == Types /\ Framework => Types'
<1> SUFFICES ASSUME Types, Framework PROVE Types'
  OBVIOUS
<1>0. /\ hal \in Hals /\ (hal.at = "post" => hal.v = gps_conf)
      /\ mUlp \in Ulps /\ ulpQ \in Seq(Commands) /\ UlpIdle /\ crossed \in BOOLEAN
  BY DEF Types
<1>1. ASSUME loc_init PROVE Types'
  <2>1. <<Msg("init")>> \in Seq(Messages) /\ Msg("init") \in Messages
    BY MessageTypes, Singles DEF Bare
  <2>2. mQ' \in Seq(Messages)
    BY <1>1, <2>1, Posted DEF loc_init, loc_eng_init, sendMsg, post, Types
  <2>3. QED
    <3>1. asked' \in Requests
      BY <1>1, Updates DEF loc_init
    <3>2. /\ gps_loc_cb' = TRUE /\ adapter' = TRUE /\ (supl_host' = supl_host \/ supl_host' = None)
      BY <1>1 DEF loc_init, loc_eng_init
    <3>3. /\ UNCHANGED <<hal, mNavigating, mFixCriteria, task, modem, gps_conf, stale>>
          /\ UNCHANGED <<undeleted, replaced>>
          /\ UNCHANGED <<mute_session_state, engine_status, aiding_data_for_deletion>>
          /\ UNCHANGED <<mUlp, ulpQ, crossed, agps, refused, count>>
      BY <1>1 DEF loc_init, ulpVars, adapterVars, engVars, aidVars
    <3>4. /\ gps_loc_cb' \in BOOLEAN /\ adapter' \in BOOLEAN /\ agps' \in BOOLEAN
          /\ refused' \in BOOLEAN /\ supl_host' \in Servers \cup {None} /\ count' \in Counts
          /\ hal' \in Hals /\ (hal'.at = "post" => hal'.v = gps_conf)
          /\ mUlp' \in Ulps /\ mUlp'.real = mUlp.real /\ ulpQ' \in Seq(Commands)
          /\ UlpIdle' /\ crossed' \in BOOLEAN
      BY <3>2, <3>3 DEF Types, UlpIdle
    <3>5. QED
      BY <2>2, <3>1, <3>3, <3>4, InterfaceTypes
<1>2. ASSUME agps_init PROVE Types'
  <2> DEFINE more == IF HasMs THEN SetServer(supl_host) ELSE <<>>
  <2>1. more \in Seq(Messages)
    BY SetServerTypes DEF Types
  <2>2. mQ' \in Seq(Messages)
    <3>1. mQ' = mQ \o more
      BY <1>2 DEF agps_init, sendMsg, post
    <3> HIDE DEF more
    <3>2. QED
      BY <2>1, <3>1, Posted
  <2>3. QED
    <3>1. /\ UNCHANGED <<hal, mNavigating, mFixCriteria, task, modem, gps_conf, stale>>
          /\ UNCHANGED <<undeleted, replaced>>
          /\ UNCHANGED <<mute_session_state, engine_status, aiding_data_for_deletion>>
          /\ UNCHANGED <<adapter, gps_loc_cb, supl_host, refused, asked, count>>
          /\ UNCHANGED <<mUlp, ulpQ, crossed>> /\ agps' = TRUE
      BY <1>2 DEF agps_init, halVars, ulpVars, adapterVars, engVars, aidVars
    <3>2. /\ gps_loc_cb' \in BOOLEAN /\ adapter' \in BOOLEAN /\ agps' \in BOOLEAN
          /\ refused' \in BOOLEAN /\ supl_host' \in Servers \cup {None} /\ asked' \in Requests
          /\ hal' \in Hals /\ (hal'.at = "post" => hal'.v = gps_conf)
          /\ mUlp' \in Ulps /\ mUlp'.real = mUlp.real /\ ulpQ' \in Seq(Commands)
          /\ UlpIdle' /\ crossed' \in BOOLEAN /\ count' \in Counts
      BY <3>1 DEF Types, UlpIdle
    <3>3. QED
      BY <2>2, <3>1, <3>2, InterfaceTypes
\* a call that gives a ULP a command
<1>c. ASSUME NEW call \in Commands, ToUlp(call),
             UNCHANGED <<adapter, mQ, mNavigating, mFixCriteria, task, modem>>,
             UNCHANGED <<mute_session_state, engine_status, aiding_data_for_deletion>>,
             UNCHANGED <<gps_conf, supl_host, agps, stale, undeleted, replaced>>,
             gps_loc_cb' \in BOOLEAN, count' \in Counts
      PROVE  Types'
  <2>1. /\ ulpQ' \in Seq(Commands) /\ UlpIdle' /\ crossed' \in BOOLEAN
        /\ mUlp' \in Ulps /\ mUlp'.real = mUlp.real
        /\ hal' \in Hals /\ (hal'.at = "post" => hal'.v = gps_conf)
        /\ asked' \in Requests /\ refused' \in BOOLEAN
    BY <1>c, ToUlpTypes
  <2>2. /\ adapter' \in BOOLEAN /\ agps' \in BOOLEAN /\ supl_host' \in Servers \cup {None}
        /\ mQ' \in Seq(Messages)
    BY <1>c DEF Types
  <2>3. QED
    BY <1>c, <2>1, <2>2, InterfaceTypes
<1>3. ASSUME loc_start PROVE Types'
  <2>1. count' \in Counts /\ gps_loc_cb' \in BOOLEAN
    BY <1>3, Updates DEF loc_start, Types
  <2>2. Msg("start") \in Commands
    BY MessageTypes
  <2>3. QED
    BY <1>3, <1>c, <2>1, <2>2 DEF loc_start, adapterVars, engVars, confVars, aidVars
<1>4. ASSUME loc_stop PROVE Types'
  <2>1. count' \in Counts /\ gps_loc_cb' \in BOOLEAN
    BY <1>4 DEF loc_stop, Types
  <2>2. Msg("stop") \in Commands
    BY MessageTypes
  <2>3. QED
    BY <1>4, <1>c, <2>1, <2>2 DEF loc_stop, adapterVars, engVars, confVars, aidVars
<1>5. ASSUME loc_cleanup PROVE Types'
  <2>1. count' \in Counts
    BY <1>5, Updates DEF loc_cleanup, Event
  <2>2. /\ UNCHANGED <<adapter, mQ, mNavigating, mFixCriteria, task, modem>>
        /\ UNCHANGED <<mute_session_state, engine_status, aiding_data_for_deletion>>
        /\ UNCHANGED <<gps_conf, supl_host, agps, stale, undeleted, replaced>>
        /\ gps_loc_cb' \in BOOLEAN /\ loc_eng_cleanup
    BY <1>5 DEF loc_cleanup, adapterVars, engVars, confVars, aidVars
  <2>3. CASE mNavigating
    <3>1. Msg("stop") \in Commands
      BY MessageTypes
    <3>2. QED
      BY <1>c, <2>1, <2>2, <2>3, <3>1 DEF loc_eng_cleanup
  <2>4. CASE ~mNavigating
    <3>1. UNCHANGED <<asked, refused, hal, mUlp, ulpQ, crossed>>
      BY <2>2, <2>4 DEF loc_eng_cleanup, ulpVars
    <3>2. /\ adapter' \in BOOLEAN /\ agps' \in BOOLEAN /\ supl_host' \in Servers \cup {None}
          /\ refused' \in BOOLEAN /\ asked' \in Requests /\ mQ' \in Seq(Messages)
          /\ hal' \in Hals /\ (hal'.at = "post" => hal'.v = gps_conf)
          /\ mUlp' \in Ulps /\ mUlp'.real = mUlp.real /\ ulpQ' \in Seq(Commands)
          /\ UlpIdle' /\ crossed' \in BOOLEAN
      BY <2>2, <3>1 DEF Types, UlpIdle
    <3>3. QED
      BY <2>1, <2>2, <3>2, InterfaceTypes
  <2>5. QED
    BY <2>3, <2>4
<1>6. ASSUME NEW m \in LocModes, NEW r \in {"periodic", "single"}, loc_set_position_mode(m, r)
      PROVE  Types'
  <2> DEFINE params == [mode |-> IF HasMs THEN m ELSE "standalone", recurrence |-> r]
  <2>1. Mode(params) \in Commands
    BY MessageTypes DEF Criteria
  <2>2. ToUlp(Mode(params))
    BY <1>6 DEF loc_set_position_mode, loc_eng_set_position_mode
  <2> HIDE DEF params
  <2>3. count' \in Counts /\ gps_loc_cb' \in BOOLEAN
    BY <1>6 DEF loc_set_position_mode, Types
  <2>4. QED
    BY <1>6, <1>c, <2>1, <2>2, <2>3 DEF loc_set_position_mode, adapterVars, engVars, confVars, aidVars
<1>7. ASSUME NEW f \in AidingRequests, loc_delete_aiding_data(f) PROVE Types'
  <2>0. f \in SUBSET AidingData
    BY DEF AidingData
  <2>1. mQ' \in Seq(Messages)
    BY <1>7, <2>0, MessageTypes, Singles, Posted DEF loc_delete_aiding_data, sendMsg, post
  <2>2. count' \in Counts
    BY <1>7, Updates DEF loc_delete_aiding_data
  <2>3. QED
    <3>1. /\ UNCHANGED <<adapter, gps_loc_cb, hal, asked, mUlp, ulpQ, crossed, mNavigating,
                         mFixCriteria>>
          /\ UNCHANGED <<mute_session_state, engine_status, aiding_data_for_deletion>>
          /\ UNCHANGED <<gps_conf, supl_host, agps, stale, task, modem, refused>>
          /\ undeleted' = undeleted \cup f /\ replaced' = replaced \ f
      BY <1>7 DEF loc_delete_aiding_data, halVars, ulpVars, adapterVars, engVars, confVars
    <3>2. /\ undeleted' \in SUBSET AidingData /\ replaced' \in SUBSET AidingData /\ UlpIdle'
          /\ ulpQ' \in Seq(Commands) /\ modem' \in Modems /\ asked' \in Requests
      BY <2>0, <3>1 DEF Types, UlpIdle
    <3>3. QED
      BY <2>1, <2>2, <3>1, <3>2, OutsideTypes
<1>8. ASSUME NEW v \in Servers, loc_agps_set_server(v) PROVE Types'
  <2> DEFINE more == IF adapter THEN SetServer(v) ELSE <<>>
  <2>1. more \in Seq(Messages)
    BY SetServerTypes
  <2>2. mQ' \in Seq(Messages)
    <3>1. mQ' = mQ \o more
      BY <1>8 DEF loc_agps_set_server, sendMsg, post
    <3> HIDE DEF more
    <3>2. QED
      BY <2>1, <3>1, Posted
  <2>3. count' \in Counts
    BY <1>8, Updates DEF loc_agps_set_server, Event
  <2>4. QED
    <3>1. /\ UNCHANGED <<adapter, gps_loc_cb, agps, asked, mUlp, ulpQ, crossed, mNavigating,
                         mFixCriteria>>
          /\ UNCHANGED <<mute_session_state, engine_status, aiding_data_for_deletion>>
          /\ UNCHANGED <<task, modem, refused, undeleted, replaced>>
          /\ UNCHANGED <<hal, gps_conf, stale>> /\ supl_host' = v
      BY <1>8 DEF loc_agps_set_server, halVars, ulpVars, adapterVars, engVars, aidVars
    <3>2. /\ hal' \in Hals /\ (hal'.at = "post" => hal'.v = gps_conf')
          /\ gps_conf' \in ConfValues /\ supl_host' \in Servers \cup {None} /\ stale' \in BOOLEAN
      BY <3>1 DEF Types
    <3>3. QED
      BY <2>2, <2>3, <3>1, <3>2, ValueTypes
<1>9. ASSUME NEW v \in ConfValues, configuration_update(v) PROVE Types'
  <2>1. count' \in Counts
    BY <1>9, Updates DEF configuration_update, Event
  <2>2. /\ hal' \in Hals
        /\ hal'.at = "post" => hal'.v = gps_conf'
    BY <1>9 DEF configuration_update, Types, Hals
  <2>3. QED
    <3>1. /\ UNCHANGED <<adapter, gps_loc_cb, agps, asked, mUlp, ulpQ, crossed, mNavigating,
                         mFixCriteria>>
          /\ UNCHANGED <<mute_session_state, engine_status, aiding_data_for_deletion>>
          /\ UNCHANGED <<task, modem, refused, undeleted, replaced>>
          /\ UNCHANGED <<mQ, supl_host, stale>> /\ gps_conf' = v
      BY <1>9 DEF configuration_update, ulpVars, adapterVars, engVars, aidVars
    <3>2. /\ gps_conf' \in ConfValues /\ supl_host' \in Servers \cup {None} /\ stale' \in BOOLEAN
          /\ mQ' \in Seq(Messages)
      BY <3>1 DEF Types
    <3>3. QED
      BY <2>1, <2>2, <3>1, <3>2, ValueTypes
<1>10. QED
  BY <1>1, <1>2, <1>3, <1>4, <1>5, <1>6, <1>7, <1>8, <1>9 DEF Framework

LEMMA OtherTypes ==
  ASSUME Types, HalSteps \/ requestUlp \/ ForwardInt \/ Modem \/ handleEngineUpEvent
  PROVE  Types'
<1>1. ASSUME PostUpdate PROVE Types'
  <2>1. mQ' \in Seq(Messages)
    BY <1>1, MessageTypes, Singles, Posted DEF PostUpdate, sendMsg, post, Types, Hals
  <2>2. hal' \in Hals /\ hal'.at = "idle"
    BY <1>1 DEF PostUpdate, Quiescent, Hals
  <2>3. QED
    <3>1. /\ UNCHANGED <<adapter, gps_loc_cb, agps, asked, mUlp, ulpQ, crossed, mNavigating,
                         mFixCriteria>>
          /\ UNCHANGED <<mute_session_state, engine_status, aiding_data_for_deletion>>
          /\ UNCHANGED <<task, modem, refused, undeleted, replaced>>
          /\ UNCHANGED <<gps_conf, supl_host, count>> /\ stale' = FALSE
      BY <1>1 DEF PostUpdate, ulpVars, adapterVars, engVars, aidVars
    <3>2. /\ gps_conf' \in ConfValues /\ supl_host' \in Servers \cup {None} /\ stale' \in BOOLEAN
          /\ count' \in Counts
      BY <3>1 DEF Types
    <3>3. QED
      BY <2>1, <2>2, <3>1, <3>2, ValueTypes
<1>s. ASSUME SendCall PROVE Types'
  <2>1. hal.v \in Commands
    BY <1>s DEF SendCall, Types, Hals
  <2>2. mQ' \in Seq(Messages)
    BY <1>s, <2>1, CommandKinds, Singles, Posted DEF SendCall, sendMsg, post
  <2>3. asked' \in Requests
    BY <1>s, <2>1, AsksTypes DEF SendCall
  <2>4. /\ UNCHANGED <<mNavigating, mFixCriteria, task, modem, gps_conf, stale>>
        /\ UNCHANGED <<undeleted, replaced>>
        /\ UNCHANGED <<mute_session_state, engine_status, aiding_data_for_deletion>>
        /\ UNCHANGED <<adapter, gps_loc_cb, supl_host, agps, refused, count>>
        /\ UNCHANGED <<mUlp, ulpQ, crossed>> /\ hal' = Quiescent
    BY <1>s DEF SendCall, ulpVars, adapterVars, engVars, confVars, aidVars
  <2>5. /\ gps_loc_cb' \in BOOLEAN /\ adapter' \in BOOLEAN /\ agps' \in BOOLEAN
        /\ refused' \in BOOLEAN /\ supl_host' \in Servers \cup {None} /\ count' \in Counts
        /\ hal' \in Hals /\ (hal'.at = "post" => hal'.v = gps_conf)
        /\ mUlp' \in Ulps /\ mUlp'.real = mUlp.real /\ ulpQ' \in Seq(Commands)
        /\ UlpIdle' /\ crossed' \in BOOLEAN
    BY <2>4 DEF Types, UlpIdle, Quiescent, Hals
  <2>6. QED
    BY <2>2, <2>3, <2>4, <2>5, InterfaceTypes
<1>2. ASSUME requestUlp PROVE Types'
  <2>1. Msg("ulp") \in Messages
    BY MessageTypes DEF Bare
  <2>2. mQ' \in Seq(Messages)
    BY <1>2, <2>1, Singles, Posted DEF requestUlp, sendMsg, post
  <2>3. /\ asked' \in Requests
        /\ count' \in Counts
    BY <1>2, Updates DEF requestUlp, Event
  <2>4. QED
    <3>1. /\ UNCHANGED <<adapter, gps_loc_cb, hal, mUlp, ulpQ, crossed, mNavigating,
                         mFixCriteria>>
          /\ UNCHANGED <<mute_session_state, engine_status, aiding_data_for_deletion>>
          /\ UNCHANGED <<gps_conf, supl_host, agps, stale, task, modem, refused, undeleted,
                         replaced>>
      BY <1>2 DEF requestUlp, ulpVars, adapterVars, engVars, confVars, aidVars
    <3>2. QED
      BY <2>2, <2>3, <3>1, OutsideTypes DEF Types, UlpIdle
<1>3. ASSUME ForwardInt PROVE Types'
  <2>1. /\ ulpQ' \in Seq(Commands) /\ <<Head(ulpQ)>> \in Seq(Messages)
        /\ (mUlp.real \/ task.at \in Swapping)
    <3>1. ulpQ \in Seq(Commands) /\ ulpQ # <<>> /\ ulpQ' = Tail(ulpQ)
          /\ (mUlp.real \/ task.at \in Swapping)
      BY <1>3 DEF ForwardInt, Types, UlpIdle
    <3>2. Head(ulpQ) \in Messages
      BY <3>1, TailOf, MessageTypes
    <3>3. QED
      BY <3>1, <3>2, TailOf, Singles
  <2>2. mQ' \in Seq(Messages)
    BY <1>3, <2>1, Posted DEF ForwardInt, sendMsg, post
  <2>3. QED
    <3>1. /\ UNCHANGED <<adapter, gps_loc_cb, hal, asked, mUlp, crossed, mNavigating,
                         mFixCriteria>>
          /\ UNCHANGED <<mute_session_state, engine_status, aiding_data_for_deletion>>
          /\ UNCHANGED <<gps_conf, supl_host, agps, stale, task, modem, refused, undeleted,
                         replaced, count>>
      BY <1>3 DEF ForwardInt, halVars, adapterVars, engVars, confVars, aidVars
    <3>2. mUlp' \in Ulps /\ asked' \in Requests /\ count' \in Counts /\ modem' \in Modems
          /\ undeleted' \in SUBSET AidingData /\ replaced' \in SUBSET AidingData /\ UlpIdle'
      BY <2>1, <3>1 DEF Types, UlpIdle
    <3>3. QED
      BY <2>1, <2>2, <3>1, <3>2, OutsideTypes
<1>4. ASSUME NEW more \in Seq(Messages), ModemPosts(more), modem' \in Modems, count' \in Counts
      PROVE  Types'
  <2>1. mQ' \in Seq(Messages)
    BY <1>4, Posted DEF ModemPosts, sendMsg, post
  <2>2. QED
    <3>1. /\ UNCHANGED <<adapter, gps_loc_cb, hal, asked, mUlp, ulpQ, crossed, mNavigating,
                         mFixCriteria>>
          /\ UNCHANGED <<mute_session_state, engine_status, aiding_data_for_deletion>>
          /\ UNCHANGED <<gps_conf, supl_host, agps, stale, task, refused, undeleted, replaced>>
      BY <1>4 DEF ModemPosts, halVars, ulpVars, adapterVars, engVars, confVars, aidVars
    <3>2. QED
      BY <1>4, <2>1, <3>1, OutsideTypes DEF Types, UlpIdle
<1>5. modem \in Modems /\ count \in Counts
  BY DEF Types
<1>6. ASSUME reportStatus PROVE Types'
  <2>1. modem' \in Modems
    BY <1>5, <1>6 DEF reportStatus, active, Modems
  <2> DEFINE more == IF active THEN <<Value("status", "begin"), Value("status", "on")>>
                     ELSE <<Value("status", "end"), Value("status", "off")>>
  <2>2. more \in Seq(Messages)
    <3>1. /\ Value("status", "begin") \in Messages /\ Value("status", "on") \in Messages
          /\ Value("status", "end") \in Messages /\ Value("status", "off") \in Messages
      BY MessageTypes
    <3>2. QED
      BY <3>1, Singles
  <2>3. ModemPosts(more) /\ count' = count
    BY <1>6 DEF reportStatus
  <2> HIDE DEF more
  <2>4. QED
    BY <1>4, <1>5, <2>1, <2>2, <2>3
<1>7. ASSUME requestNiNotify PROVE Types'
  <2>1. modem' \in Modems /\ count' \in Counts
    BY <1>5, <1>7, Updates DEF requestNiNotify, Event, Modems
  <2>2. Msg("ni") \in Messages
    BY MessageTypes DEF Bare
  <2>3. QED
    BY <1>4, <1>7, <2>1, <2>2, Singles DEF requestNiNotify
<1>8. ASSUME NiEnds PROVE Types'
  <2>1. modem' \in Modems
    BY <1>5, <1>8 DEF NiEnds, Modems
  <2>2. <<>> \in Seq(Messages)
    OBVIOUS
  <2>3. QED
    BY <1>4, <1>5, <1>8, <2>1, <2>2 DEF NiEnds
<1>9. ASSUME handleEngineDownEvent PROVE Types'
  <2>1. modem' \in Modems /\ count' \in Counts
    BY <1>5, <1>9, Updates DEF handleEngineDownEvent, Modems
  <2>2. Msg("down") \in Messages
    BY MessageTypes DEF Bare
  <2>3. QED
    BY <1>4, <1>9, <2>1, <2>2, Singles DEF handleEngineDownEvent
<1>10. ASSUME NEW r \in Reports, reportPosition(r) PROVE Types'
  <2>1. modem' \in Modems /\ count' \in Counts
    BY <1>5, <1>10, Updates DEF reportPosition, Modems
  <2>2. QED
    BY <1>4, <1>10, <2>1, MessageTypes, Singles DEF reportPosition
<1>11. ASSUME handleEngineUpEvent PROVE Types'
  <2>1. modem' \in Modems
    BY <1>5, <1>11 DEF handleEngineUpEvent, Modems
  <2>2. Msg("ssr") \in Messages /\ Msg("up") \in Messages
    BY MessageTypes DEF Bare
  <2>3. QED
    BY <1>4, <1>5, <1>11, <2>1, <2>2, Singles DEF handleEngineUpEvent
<1>12. QED
  BY <1>1, <1>s, <1>2, <1>3, <1>6, <1>7, <1>8, <1>9, <1>10, <1>11 DEF Modem, HalSteps

\* what a session that is started leaves
LEMMA SessionTypes ==
  ASSUME Types, NEW criteria \in Criteria, StartSession(criteria)
  PROVE  /\ modem' \in Modems /\ refused' \in BOOLEAN /\ mNavigating' \in BOOLEAN
         /\ mFixCriteria' \in Criteria
<1>1. modem \in Modems
  BY DEF Types
<1>2. PICK o \in Outcomes \cup {"engine_down"} :
        /\ modem' = [modem EXCEPT !.fix = IF o = "success" THEN criteria ELSE @]
        /\ refused' = (o \in {"phone_offline", "failure"})
        /\ mNavigating' = (o # "failure") /\ mFixCriteria' = criteria
  BY DEF StartSession
<1>3. modem' \in Modems
  BY <1>1, <1>2 DEF Modems
<1>4. QED
  BY <1>2, <1>3

LEMMA FixUpdates ==
  ASSUME Types
  PROVE  /\ [modem EXCEPT !.fix = NoFix] \in Modems
         /\ \A i \in BOOLEAN : setInSession(i) => mNavigating' \in BOOLEAN /\ mFixCriteria' \in Criteria
         /\ [mFixCriteria EXCEPT !.mode = INVALID] \in Criteria
         /\ Quiescent \in Tasks /\ Quiescent.at = "idle"
<1>1. mFixCriteria \in Criteria /\ modem \in Modems
  BY DEF Types
<1>2. [modem EXCEPT !.fix = NoFix] \in Modems
  BY <1>1 DEF Modems
<1>3. \A b \in BOOLEAN : [mFixCriteria EXCEPT !.mode = IF b THEN @ ELSE INVALID] \in Criteria
  BY <1>1 DEF Criteria
<1>4. [mFixCriteria EXCEPT !.mode = INVALID] \in Criteria
  BY <1>1 DEF Criteria
<1>5. Quiescent \in Tasks /\ Quiescent.at = "idle"
  BY DEF Quiescent, Tasks
<1>6. QED
  BY <1>2, <1>3, <1>4, <1>5 DEF setInSession

\* the messages of a reinitialisation
LEMMA PostConfTypes ==
  ASSUME Types, task.at \in {"init", "up"}, NEW more \in Seq(Messages), PostConf(more)
  PROVE  /\ mQ' \in Seq(Messages) /\ stale' \in BOOLEAN /\ task' = Quiescent
         /\ <<Value("conf", task.v)>> \o more \in Seq(Messages)
<1>1. <<Value("conf", task.v)>> \in Seq(Messages)
  BY MessageTypes, Singles DEF Types
<1>2. <<Value("conf", task.v)>> \o more \in Seq(Messages)
  BY <1>1, Grown
<1>3. mQ' \in Seq(Messages)
  BY <1>2, Posted DEF PostConf, post
<1>4. QED
  BY <1>2, <1>3 DEF PostConf

LEMMA MsgTaskTypes == Types /\ MsgTask => Types'
<1> SUFFICES ASSUME Types, MsgTask PROVE Types'
  OBVIOUS
<1> DEFINE Rest == UNCHANGED <<adapter, gps_loc_cb, hal, asked, mUlp, ulpQ, crossed, count,
                               gps_conf, supl_host, agps, stale>>
<1>1. ASSUME NEW what, Receive(what), Taken, outside' = outside,
             undeleted' \in SUBSET AidingData, replaced' \in SUBSET AidingData,
             aiding_data_for_deletion' \in SUBSET AidingData,
             mute_session_state' \in {"none", "wait", "in session"},
             engine_status' \in {"none", "on", "off"},
             mNavigating' \in BOOLEAN, mFixCriteria' \in Criteria, refused' \in BOOLEAN,
             modem' \in Modems, task' \in Tasks, task' = task \/ task'.at \in {"init", "up"},
             task'.at \in {"init", "up"} => task'.v \in ConfValues
      PROVE  Types'
  <2>0. UlpIdle /\ task.at = "idle"
    BY <1>1 DEF Types, Receive
  <2>1. Rest /\ UlpIdle' /\ task'.at \notin Swapping
    BY <1>1, <2>0 DEF outside, halVars, ulpVars, confVars, UlpIdle, Swapping
  <2>2. mQ' \in Seq(Messages)
    BY <1>1, TakenTypes DEF Taken
  <2>3. QED
    BY <1>1, <2>1, <2>2, TaskTypes DEF Types
<1>u. ASSUME UNCHANGED <<halVars, confVars, count, modem, refused, aidVars, engVars,
                         adapterVars>>,
             mQ' \in Seq(Messages), mUlp' \in Ulps, ulpQ' \in Seq(Commands), UlpIdle',
             crossed' \in BOOLEAN, task'.at \in Swapping => ~mUlp'.real, task' \in Tasks,
             task'.at \in {"init", "up"} => task'.v \in ConfValues
      PROVE  Types'
  <2>1. /\ UNCHANGED <<adapter, gps_loc_cb, hal, asked, count>>
        /\ UNCHANGED <<gps_conf, supl_host, agps, stale, modem, refused, undeleted, replaced>>
        /\ UNCHANGED <<mute_session_state, engine_status, aiding_data_for_deletion>>
        /\ UNCHANGED <<mNavigating, mFixCriteria>>
    BY <1>u DEF halVars, confVars, aidVars, engVars, adapterVars
  <2>2. QED
    BY <1>u, <2>1, TaskTypes DEF Types
<1>m. /\ mUlp \in Ulps /\ mUlp.mPosMode \in Criteria /\ ulpQ \in Seq(Commands) /\ UlpIdle
      /\ crossed \in BOOLEAN /\ task \in Tasks /\ (task.at \in Swapping => ~mUlp.real)
      /\ mQ \in Seq(Messages)
  BY DEF Types, Ulps
<1>2. ASSUME setUlpProxy PROVE Types'
  <2>1. mQ' \in Seq(Messages) /\ task.at = "idle"
    BY <1>2, TakenTypes DEF setUlpProxy, Taken, Receive
  <2>2. UNCHANGED <<halVars, confVars, count, modem, refused, aidVars, engVars, adapterVars>>
    BY <1>2 DEF setUlpProxy
  <2>3. CASE mUlp.real
    <3>1. UNCHANGED <<mUlp, ulpQ, crossed, task>>
      BY <1>2, <2>3 DEF setUlpProxy, ulpVars
    <3>2. task'.at = "idle" /\ UlpIdle'
      BY <2>1, <3>1, <1>m DEF UlpIdle
    <3>3. QED
      BY <1>u, <1>m, <2>1, <2>2, <3>1, <3>2 DEF Swapping
  <2>4. CASE ~mUlp.real
    <3>1. /\ ulpQ' = IF mUlp.mPosMode.mode # INVALID THEN <<Mode(mUlp.mPosMode)>> ELSE <<>>
          /\ crossed' = (crossed \/ hal.at = "send") /\ task' = [at |-> "told mode", v |-> None]
          /\ UNCHANGED mUlp
      BY <1>2, <2>4 DEF setUlpProxy
    <3>2. Mode(mUlp.mPosMode) \in Commands
      BY <1>m, MessageTypes
    <3>3. ulpQ' \in Seq(Commands)
      BY <3>1, <3>2, Singles
    <3>4. task' \in Tasks /\ task'.at = "told mode" /\ UlpIdle' /\ crossed' \in BOOLEAN
      BY <3>1, <1>m DEF Tasks, Swapping, UlpIdle
    <3>5. QED
      BY <1>u, <1>m, <2>1, <2>2, <2>4, <3>1, <3>3, <3>4
  <2>5. QED
    BY <2>3, <2>4
<1>2a. ASSUME setUlpProxyFix PROVE Types'
  <2>1. /\ ulpQ' = ulpQ \o (IF mUlp.mFixSet THEN <<Msg("start")>> ELSE <<>>)
        /\ task' = [at |-> "told fix", v |-> None] /\ UNCHANGED <<mUlp, crossed, mQ>>
        /\ UNCHANGED <<halVars, confVars, count, modem, refused, aidVars, engVars, adapterVars>>
        /\ task.at \in Swapping
    BY <1>2a DEF setUlpProxyFix, Swapping
  <2> DEFINE starts == IF mUlp.mFixSet THEN <<Msg("start")>> ELSE <<>>
  <2>2. starts \in Seq(Commands)
    BY MessageTypes, Singles
  <2>3. ulpQ' = ulpQ \o starts
    BY <2>1
  <2> HIDE DEF starts
  <2>4. ulpQ' \in Seq(Commands)
    BY <1>m, <2>2, <2>3, Grown
  <2>5. task' \in Tasks /\ task'.at = "told fix" /\ UlpIdle'
    BY <2>1 DEF Tasks, Swapping, UlpIdle
  <2>6. QED
    BY <1>u, <1>m, <2>1, <2>4, <2>5
<1>2b. ASSUME setUlpProxyKept PROVE Types'
  <2>1. /\ mUlp' = [mUlp EXCEPT !.real = TRUE] /\ task' = Quiescent
        /\ UNCHANGED <<ulpQ, crossed, mQ>>
        /\ UNCHANGED <<halVars, confVars, count, modem, refused, aidVars, engVars, adapterVars>>
    BY <1>2b DEF setUlpProxyKept
  <2>2. mUlp' \in Ulps /\ mUlp'.real
    BY <1>m, <2>1 DEF Ulps
  <2>3. task' \in Tasks /\ task'.at = "idle" /\ UlpIdle'
    BY <2>1, <2>2 DEF Tasks, UlpIdle, Quiescent
  <2>4. QED
    BY <1>u, <1>m, <2>1, <2>2, <2>3 DEF Swapping
<1>3. ASSUME LocEngPositionMode PROVE Types'
  <2>1. mFixCriteria' \in Criteria
    BY <1>3, TakenTypes, MessageFields DEF LocEngPositionMode
  <2>2. QED
    BY <1>1, <1>3, <2>1 DEF LocEngPositionMode, Types, engVars, aidVars
<1>4. ASSUME loc_eng_start_handler PROVE Types'
  <2>1. /\ modem' \in Modems /\ refused' \in BOOLEAN /\ mNavigating' \in BOOLEAN
        /\ mFixCriteria' \in Criteria
    BY <1>4, SessionTypes DEF loc_eng_start_handler, adapterVars, Types, aidVars
  <2>2. QED
    BY <1>1, <1>4, <2>1 DEF loc_eng_start_handler, Types, engVars, aidVars
<1>5. ASSUME loc_eng_stop_handler PROVE Types'
  <2>1. modem' \in Modems /\ mNavigating' \in BOOLEAN /\ mFixCriteria' \in Criteria
    BY <1>5, FixUpdates DEF loc_eng_stop_handler, adapterVars, Types, aidVars
  <2>2. QED
    BY <1>1, <1>5, <2>1 DEF loc_eng_stop_handler, Types, engVars, aidVars
<1>6. ASSUME LocEngReportPosition PROVE Types'
  <2>1. modem' \in Modems /\ mNavigating' \in BOOLEAN /\ mFixCriteria' \in Criteria
    <3>1. CASE /\ Reported(Head(mQ).report) /\ mFixCriteria.recurrence = "single"
      <4>1. setInSession(FALSE) /\ (modem' = modem \/ modem' = [modem EXCEPT !.fix = NoFix])
        BY <1>6, <3>1 DEF LocEngReportPosition, Types, Modems
      <4>2. QED
        BY <4>1, FixUpdates DEF Types
    <3>2. CASE ~(Reported(Head(mQ).report) /\ mFixCriteria.recurrence = "single")
      BY <1>6, <3>2 DEF LocEngReportPosition, Types, adapterVars, aidVars
    <3>3. QED
      BY <3>1, <3>2
  <2>2. QED
    BY <1>1, <1>6, <2>1 DEF LocEngReportPosition, Types, engVars, aidVars
<1>7. ASSUME LocEngDelAidData PROVE Types'
  <2>1. /\ undeleted' \in SUBSET AidingData /\ replaced' \in SUBSET AidingData
        /\ aiding_data_for_deletion' \in SUBSET AidingData
    <3>1. Head(mQ).types \in SUBSET AidingData
      BY <1>7, TakenTypes, MessageFields DEF LocEngDelAidData
    <3>2. deleteAidingData(engine_status, Head(mQ).types)
      BY <1>7 DEF LocEngDelAidData
    <3>3. /\ undeleted \in SUBSET AidingData /\ replaced \in SUBSET AidingData
          /\ aiding_data_for_deletion \in SUBSET AidingData
      BY DEF Types
    <3>4. QED
      BY <3>1, <3>2, <3>3 DEF deleteAidingData
  <2>2. QED
    BY <1>1, <1>7, <2>1 DEF LocEngDelAidData, Types, adapterVars, aidVars
<1>8. ASSUME LocEngReportStatus PROVE Types'
  <2>1. /\ undeleted' \in SUBSET AidingData /\ replaced' \in SUBSET AidingData
        /\ aiding_data_for_deletion' \in SUBSET AidingData
    BY <1>8 DEF LocEngReportStatus, deleteAidingData, Types
  <2>2. /\ mute_session_state' \in {"none", "wait", "in session"}
        /\ engine_status' \in {"none", "on", "off"}
    BY <1>8 DEF LocEngReportStatus, loc_eng_report_status, Types
  <2>3. QED
    BY <1>1, <1>8, <2>1, <2>2 DEF LocEngReportStatus, Types, adapterVars, aidVars
<1>9. ASSUME loc_eng_mute_one_session PROVE Types'
  BY <1>1, <1>9 DEF loc_eng_mute_one_session, Types, adapterVars, aidVars
<1>10. ASSUME LocEngConfigure PROVE Types'
  <2>1. modem' \in Modems
    BY <1>10, TakenTypes, MessageFields DEF LocEngConfigure, Types, Modems
  <2>2. QED
    BY <1>1, <1>10, <2>1 DEF LocEngConfigure, Types, adapterVars, engVars, aidVars
<1>11. ASSUME LocEngSetServer PROVE Types'
  <2>1. modem' \in Modems
    BY <1>11, TakenTypes, MessageFields DEF LocEngSetServer, Types, Modems
  <2>2. QED
    BY <1>1, <1>11, <2>1 DEF LocEngSetServer, Types, adapterVars, engVars, aidVars
<1>12. ASSUME loc_eng_handle_engine_down PROVE Types'
  <2>1. /\ mute_session_state' \in {"none", "wait", "in session"}
        /\ engine_status' \in {"none", "on", "off"}
    BY <1>12 DEF loc_eng_handle_engine_down, loc_eng_report_status, Types
  <2>2. QED
    BY <1>1, <1>12, <2>1 DEF loc_eng_handle_engine_down, Types, adapterVars, aidVars
<1>13. ASSUME LocSsrMsg PROVE Types'
  BY <1>1, <1>13, FixUpdates DEF LocSsrMsg, Types, adapterVars, engVars, aidVars
<1>14. ASSUME loc_eng_reinit PROVE Types'
  <2>1. PICK what \in {"init", "up"} : Receive(what)
    BY <1>14 DEF loc_eng_reinit
  <2>2. Head(mQ).what = what /\ task' = [at |-> what, v |-> gps_conf]
    BY <1>14, <2>1 DEF loc_eng_reinit, Receive
  <2>3. /\ task' \in Tasks /\ task'.v \in ConfValues /\ task'.at \in {"init", "up"}
    BY <2>2 DEF Tasks, Types
  <2>4. /\ Taken /\ outside' = outside /\ UNCHANGED <<mNavigating, mFixCriteria>>
        /\ UNCHANGED <<mute_session_state, engine_status, aiding_data_for_deletion>>
        /\ UNCHANGED <<modem, refused, undeleted, replaced>>
    BY <1>14 DEF loc_eng_reinit, adapterVars, engVars, aidVars
  <2>5. QED
    BY <1>1, <2>1, <2>3, <2>4 DEF Types
<1>15. ASSUME LocEngInit PROVE Types'
  <2>1. <<>> \in Seq(Messages) /\ task.at \in {"init", "up"} /\ PostConf(<<>>)
    BY <1>15 DEF LocEngInit
  <2>2. /\ mQ' \in Seq(Messages) /\ stale' \in BOOLEAN /\ task' = Quiescent
    BY <2>1, PostConfTypes
  <2>3. /\ UNCHANGED <<adapter, gps_loc_cb, hal, asked, mUlp, ulpQ, crossed, count, gps_conf,
                       supl_host, agps>>
        /\ UNCHANGED <<mute_session_state, engine_status, aiding_data_for_deletion>>
        /\ UNCHANGED <<mNavigating, mFixCriteria, modem, refused, undeleted, replaced>>
    BY <1>15 DEF LocEngInit, halVars, ulpVars, engVars, adapterVars, aidVars
  <2>4. /\ mUlp' \in Ulps /\ ulpQ' \in Seq(Commands) /\ UlpIdle' /\ crossed' \in BOOLEAN
        /\ task' \in Tasks /\ task'.at = "idle" /\ task'.at \notin Swapping
    BY <1>15, <2>2, <2>3, FixUpdates DEF LocEngInit, Types, UlpIdle, Swapping
  <2>5. QED
    BY <2>2, <2>3, <2>4, TaskTypes DEF Types
<1>16. ASSUME loc_eng_handle_engine_up PROVE Types'
  <2> DEFINE more == IF agps THEN SetServer(supl_host) ELSE <<>>
  <2>1. more \in Seq(Messages) /\ task.at \in {"init", "up"} /\ PostConf(more)
    BY <1>16, SetServerTypes DEF loc_eng_handle_engine_up, Types
  <2> HIDE DEF more
  <2>2. /\ mQ' \in Seq(Messages) /\ stale' \in BOOLEAN /\ task' = Quiescent
    BY <2>1, PostConfTypes
  <2>3. /\ UNCHANGED <<adapter, gps_loc_cb, hal, asked, mUlp, ulpQ, crossed, count, gps_conf,
                       supl_host, agps>>
        /\ UNCHANGED <<mute_session_state, engine_status, aiding_data_for_deletion,
                       undeleted, replaced>>
    BY <1>16 DEF loc_eng_handle_engine_up, halVars, ulpVars, engVars, aidVars
  <2>4. /\ modem' \in Modems /\ refused' \in BOOLEAN /\ mNavigating' \in BOOLEAN
        /\ mFixCriteria' \in Criteria
    BY <1>16, FixUpdates, SessionTypes DEF loc_eng_handle_engine_up, adapterVars, Types, aidVars
  <2>5. /\ mUlp' \in Ulps /\ ulpQ' \in Seq(Commands) /\ UlpIdle' /\ crossed' \in BOOLEAN
        /\ task' \in Tasks /\ task'.at = "idle" /\ task'.at \notin Swapping
    BY <1>16, <2>2, <2>3, FixUpdates DEF loc_eng_handle_engine_up, Types, UlpIdle, Swapping
  <2>6. QED
    BY <2>2, <2>3, <2>4, <2>5, TaskTypes DEF Types
<1>17. QED
  BY <1>2, <1>2a, <1>2b, <1>3, <1>4, <1>5, <1>6, <1>7, <1>8, <1>9, <1>10, <1>11, <1>12,
     <1>13, <1>14, <1>15, <1>16 DEF MsgTask

LEMMA TypesHold == Spec => []Types
<1>1. Types /\ [Next]_vars => Types'
  <2>1. Types /\ UNCHANGED vars => Types'
    <3> SUFFICES ASSUME Types, UNCHANGED vars PROVE Types'
      OBVIOUS
    <3>1. /\ UNCHANGED <<adapter, gps_loc_cb, hal, mNavigating, mFixCriteria, task, refused>>
          /\ UNCHANGED <<mute_session_state, engine_status, aiding_data_for_deletion>>
          /\ UNCHANGED <<gps_conf, supl_host, agps, stale>>
          /\ UNCHANGED <<mUlp, ulpQ, crossed, mQ, undeleted, replaced, modem, asked, count>>
      BY DEF vars
    <3>2. QED
      BY <3>1, OutsideTypes DEF Types, UlpIdle
  <2>2. QED
    BY <2>1, FrameworkTypes, OtherTypes, MsgTaskTypes DEF Next
<1>2. QED
  BY <1>1, InitTypes, PTL DEF Spec


-----------------------------------------------------------------------------
(* What each step does to the queue.                                       *)

LEMMA NothingPosted ==
  ASSUME Types PROVE <<>> \in Seq(Messages) /\ Len(<<>>) = 0 /\ mQ \o <<>> = mQ
<1>1. mQ \in Seq(Messages)
  BY DEF Types
<1>2. QED
  BY <1>1, ConcatEmptySeq

LEMMA GrewNone == ASSUME Types, mQ' = mQ PROVE Grew({})
<1>1. <<>> \in Seq(Messages) /\ mQ \o <<>> = mQ /\ Len(<<>>) = 0
  BY NothingPosted
<1>2. Kinds(<<>>, {})
  <2>1. \A i \in 1 .. 0 : FALSE
    OBVIOUS
  <2>2. QED
    BY <1>1, <2>1 DEF Kinds
<1>3. mQ' = mQ \o <<>>
  BY <1>1
<1>4. QED
  BY <1>1, <1>2, <1>3, Zenon DEF Grew

LEMMA GrewOne ==
  ASSUME Types, NEW a \in Messages, mQ' = mQ \o <<a>> PROVE Grew({a.what})
<1>1. <<a>> \in Seq(Messages) /\ Len(<<a>>) = 1 /\ <<a>>[1] = a
  OBVIOUS
<1>2. Kinds(<<a>>, {a.what})
  BY <1>1 DEF Kinds
<1>3. QED
  BY <1>1, <1>2 DEF Grew

LEMMA GrewTwo ==
  ASSUME Types, NEW a \in Messages, NEW b \in Messages, mQ' = mQ \o <<a, b>>
  PROVE  Grew({a.what, b.what})
<1>1. <<a, b>> \in Seq(Messages) /\ Len(<<a, b>>) = 2 /\ <<a, b>>[1] = a /\ <<a, b>>[2] = b
  OBVIOUS
<1>2. Kinds(<<a, b>>, {a.what, b.what})
  BY <1>1 DEF Kinds
<1>3. QED
  BY <1>1, <1>2 DEF Grew

LEMMA GrewMore == ASSUME NEW K, NEW L, Grew(K), K \subseteq L PROVE Grew(L)
BY DEF Grew, Kinds

LEMMA SetServerGrows ==
  ASSUME Types, NEW v \in Servers \cup {None}, NEW b \in BOOLEAN,
         mQ' = mQ \o (IF b THEN SetServer(v) ELSE <<>>)
  PROVE  Grew({"server"})
<1>1. \/ mQ' = mQ \o <<>>
      \/ v \in Servers /\ mQ' = mQ \o <<Value("server", v)>>
  BY DEF SetServer
<1>2. mQ \o <<>> = mQ
  BY NothingPosted
<1>3. \A w \in Servers : Value("server", w) \in Messages /\ Value("server", w).what = "server"
  BY MessageTypes DEF Value
<1>4. QED
  BY <1>1, <1>2, <1>3, GrewNone, GrewOne, GrewMore

LEMMA FrameworkGrows ==
  ASSUME Types
  PROVE  /\ loc_init => Grew({"init"})
         /\ agps_init => Grew({"server"})
         /\ \A m \in LocModes, r \in {"periodic", "single"} :
              loc_set_position_mode(m, r) => Grew({})
         /\ loc_start \/ loc_stop \/ loc_cleanup => Grew({})
         /\ \A f \in AidingRequests : loc_delete_aiding_data(f) => Grew({"delete"})
         /\ \A v \in Servers : loc_agps_set_server(v) => Grew({"server"})
         /\ \A v \in ConfValues : configuration_update(v) => Grew({})
<1>1. ASSUME loc_init PROVE Grew({"init"})
  <2>1. mQ' = mQ \/ mQ' = mQ \o <<Msg("init")>>
    BY <1>1 DEF loc_init, loc_eng_init, sendMsg, post
  <2>2. Msg("init") \in Messages /\ Msg("init").what = "init"
    BY MessageTypes DEF Bare, Msg
  <2>3. QED
    BY <2>1, <2>2, GrewNone, GrewOne, GrewMore
<1>2. ASSUME agps_init PROVE Grew({"server"})
  <2>1. mQ' = mQ \o (IF HasMs THEN SetServer(supl_host) ELSE <<>>)
    BY <1>2 DEF agps_init, sendMsg, post
  <2>2. QED
    BY <2>1, HasMsBoolean, SetServerGrows DEF Types
<1>3. ASSUME NEW m \in LocModes, NEW r \in {"periodic", "single"}, loc_set_position_mode(m, r)
      PROVE  Grew({})
  BY <1>3, GrewNone DEF loc_set_position_mode
<1>4. loc_start \/ loc_stop \/ loc_cleanup => Grew({})
  BY GrewNone DEF loc_start, loc_stop, loc_cleanup
<1>7. ASSUME NEW f \in AidingRequests, loc_delete_aiding_data(f) PROVE Grew({"delete"})
  <2>1. mQ' = mQ \o <<[what |-> "delete", types |-> f]>>
    BY <1>7 DEF loc_delete_aiding_data, sendMsg, post
  <2>2. [what |-> "delete", types |-> f] \in Messages
    BY MessageTypes DEF AidingData
  <2>3. QED
    BY <2>1, <2>2, GrewOne
<1>8. ASSUME NEW v \in Servers, loc_agps_set_server(v) PROVE Grew({"server"})
  <2>1. mQ' = mQ \o (IF adapter THEN SetServer(v) ELSE <<>>)
    BY <1>8 DEF loc_agps_set_server, sendMsg, post
  <2>2. QED
    BY <2>1, SetServerGrows DEF Types
<1>9. ASSUME NEW v \in ConfValues, configuration_update(v) PROVE Grew({})
  BY <1>9, GrewNone DEF configuration_update
<1>10. QED
  BY <1>1, <1>2, <1>3, <1>4, <1>7, <1>8, <1>9

LEMMA OthersGrow ==
  ASSUME Types
  PROVE  /\ PostUpdate => Grew({"conf"})
         /\ SendCall => Grew({"mode", "start", "stop"})
         /\ requestUlp => Grew({"ulp"})
         /\ ForwardInt => Grew({"mode", "start", "stop"})
         /\ reportStatus => Grew({"status"})
         /\ \A r \in Reports : reportPosition(r) => Grew({"position"})
         /\ requestNiNotify => Grew({"ni"})
         /\ NiEnds => Grew({})
         /\ handleEngineDownEvent => Grew({"down"})
         /\ handleEngineUpEvent => Grew({"ssr", "up"})
<1>0. ASSUME NEW what \in Bare PROVE Msg(what) \in Messages /\ Msg(what).what = what
  BY MessageTypes DEF Msg
<1>1. ASSUME PostUpdate PROVE Grew({"conf"})
  <2>1. mQ' = mQ \o <<Value("conf", hal.v)>> /\ hal.v \in ConfValues
    BY <1>1 DEF PostUpdate, sendMsg, post, Types
  <2>2. Value("conf", hal.v) \in Messages /\ Value("conf", hal.v).what = "conf"
    BY <2>1, MessageTypes DEF Value
  <2>3. QED
    BY <2>1, <2>2, GrewOne
<1>s. ASSUME SendCall PROVE Grew({"mode", "start", "stop"})
  <2>1. mQ' = mQ \o <<hal.v>> /\ hal.v \in Commands
    BY <1>s DEF SendCall, sendMsg, post, Types, Hals
  <2>2. hal.v \in Messages /\ hal.v.what \in {"mode", "start", "stop"}
    BY <2>1, CommandKinds
  <2>3. Grew({hal.v.what}) /\ {hal.v.what} \subseteq {"mode", "start", "stop"}
    BY <2>1, <2>2, GrewOne
  <2>4. QED
    BY <2>3, GrewMore
<1>2. ASSUME requestUlp PROVE Grew({"ulp"})
  <2>1. mQ' = mQ \o <<Msg("ulp")>>
    BY <1>2 DEF requestUlp, sendMsg, post
  <2>2. QED
    BY <2>1, <1>0, GrewOne DEF Bare
<1>3. ASSUME ForwardInt PROVE Grew({"mode", "start", "stop"})
  <2>1. mQ' = mQ \o <<Head(ulpQ)>> /\ ulpQ # <<>>
    BY <1>3 DEF ForwardInt, sendMsg, post
  <2>2. Head(ulpQ) \in Commands
    BY <2>1, TailOf DEF Types
  <2>3. Head(ulpQ) \in Messages /\ Head(ulpQ).what \in {"mode", "start", "stop"}
    <3>1. \A m \in Commands : m.what \in {"mode", "start", "stop"}
      BY DEF Commands
    <3>2. QED
      BY <2>2, <3>1, MessageTypes
  <2>4. Grew({Head(ulpQ).what})
    BY <2>1, <2>3, GrewOne
  <2>5. {Head(ulpQ).what} \subseteq {"mode", "start", "stop"}
    BY <2>3
  <2>6. QED
    BY <2>4, <2>5, GrewMore
<1>4. ASSUME reportStatus PROVE Grew({"status"})
  <2>1. \/ mQ' = mQ \o <<Value("status", "begin"), Value("status", "on")>>
        \/ mQ' = mQ \o <<Value("status", "end"), Value("status", "off")>>
    BY <1>4 DEF reportStatus, ModemPosts, sendMsg, post
  <2>2. \A v \in {"begin", "end", "on", "off"} :
          Value("status", v) \in Messages /\ Value("status", v).what = "status"
    BY MessageTypes DEF Value
  <2>3. QED
    BY <2>1, <2>2, GrewTwo, GrewMore
<1>5. ASSUME NEW r \in Reports, reportPosition(r) PROVE Grew({"position"})
  <2>1. mQ' = mQ \o <<[what |-> "position", report |-> r]>>
    BY <1>5 DEF reportPosition, ModemPosts, sendMsg, post
  <2>2. [what |-> "position", report |-> r] \in Messages
    BY MessageTypes
  <2>3. QED
    BY <2>1, <2>2, GrewOne
<1>6. ASSUME requestNiNotify PROVE Grew({"ni"})
  <2>1. mQ' = mQ \o <<Msg("ni")>>
    BY <1>6 DEF requestNiNotify, ModemPosts, sendMsg, post
  <2>2. QED
    BY <2>1, <1>0, GrewOne DEF Bare
<1>7. ASSUME NiEnds PROVE Grew({})
  <2>1. mQ' = mQ \o <<>> /\ mQ \o <<>> = mQ
    BY <1>7, NothingPosted DEF NiEnds, ModemPosts, sendMsg, post
  <2>2. QED
    BY <2>1, GrewNone
<1>8. ASSUME handleEngineDownEvent PROVE Grew({"down"})
  <2>1. mQ' = mQ \o <<Msg("down")>>
    BY <1>8 DEF handleEngineDownEvent, ModemPosts, sendMsg, post
  <2>2. QED
    BY <2>1, <1>0, GrewOne DEF Bare
<1>9. ASSUME handleEngineUpEvent PROVE Grew({"ssr", "up"})
  <2>1. mQ' = mQ \o <<Msg("ssr"), Msg("up")>>
    BY <1>9 DEF handleEngineUpEvent, ModemPosts, sendMsg, post
  <2>2. QED
    BY <2>1, <1>0, GrewTwo DEF Bare
<1>10. QED
  BY <1>1, <1>s, <1>2, <1>3, <1>4, <1>5, <1>6, <1>7, <1>8, <1>9

LEMMA PostConfGrows ==
  ASSUME Types, task.at \in {"init", "up"}, NEW v \in Servers \cup {None},
         PostConf(<<>>) \/ PostConf(SetServer(v))
  PROVE  Grew({"conf", "server"})
<1>1. Value("conf", task.v) \in Messages /\ Value("conf", task.v).what = "conf"
  BY MessageTypes DEF Value, Types
<1>2. <<Value("conf", task.v)>> \o <<>> = <<Value("conf", task.v)>>
  <2>1. <<Value("conf", task.v)>> \in Seq(Messages)
    BY <1>1
  <2>2. QED
    BY <2>1, ConcatEmptySeq
<1>3. ASSUME v \in Servers, PostConf(<<Value("server", v)>>) PROVE Grew({"conf", "server"})
  <2>1. Value("server", v) \in Messages /\ Value("server", v).what = "server"
    BY <1>3, MessageTypes DEF Value
  <2>2. mQ' = mQ \o <<Value("conf", task.v), Value("server", v)>>
    BY <1>1, <1>3, <2>1 DEF PostConf, post
  <2>3. QED
    BY <1>1, <2>1, <2>2, GrewTwo, GrewMore
<1>4. ASSUME PostConf(<<>>) PROVE Grew({"conf", "server"})
  <2>1. mQ' = mQ \o <<Value("conf", task.v)>>
    BY <1>2, <1>4 DEF PostConf, post
  <2>2. Grew({Value("conf", task.v).what})
    BY <1>1, <2>1, GrewOne
  <2>3. {Value("conf", task.v).what} \subseteq {"conf", "server"}
    BY <1>1
  <2>4. QED
    BY <2>2, <2>3, GrewMore
<1>5. QED
  BY <1>3, <1>4 DEF SetServer

\* a step that leaves reinit, and a MsgTask that waits, alone
TaskKept ==
  /\ task.at \in {"init", "up"} \/ task'.at \in {"init", "up"} => task' = task
  /\ task.at = "idle" => task'.at = "idle"

\* messages of other kinds leave what is said about the queue as it was
LEMMA GrewKeeps ==
  ASSUME Types, NEW K, Grew(K)
  PROVE  /\ \A what : Has(mQ, what) => Has(mQ', what)
         /\ \A what : what \notin K /\ Has(mQ', what) => Has(mQ, what)
         /\ \A what, G : what \notin K /\ LastIn(mQ, what, G) => LastIn(mQ', what, G)
         /\ \A B : Holds(mQ, B) => Holds(mQ', B)
         /\ \A A, B : (\A m \in A : m.what \notin K) /\ Followed(mQ, A, B)
                        => Followed(mQ', A, B)
<1>1. PICK more \in Seq(Messages) : mQ' = mQ \o more /\ Kinds(more, K)
  BY DEF Grew
<1>2. mQ \in Seq(Messages)
  BY DEF Types
<1>3. ASSUME NEW what, what \notin K PROVE ~Has(more, what)
  BY <1>1, <1>3 DEF Kinds, Has
<1>4. ASSUME NEW what, NEW G, what \notin K, LastIn(mQ, what, G) PROVE LastIn(mQ', what, G)
  <2>1. LastIn(more, what, G)
    BY <1>1, <1>4 DEF Kinds, LastIn
  <2>2. QED
    BY <1>1, <1>2, <1>4, <2>1, LastGrown
<1>5. ASSUME NEW A, NEW B, \A m \in A : m.what \notin K, Followed(mQ, A, B)
      PROVE  Followed(mQ', A, B)
  <2>1. Followed(more, A, B)
    BY <1>1, <1>5 DEF Kinds, Followed
  <2>2. QED
    BY <1>1, <1>2, <1>5, <2>1, FollowedGrown
<1>6. \A what : Has(mQ', what) <=> Has(mQ, what) \/ Has(more, what)
  BY <1>1, <1>2, HasGrown
<1>7. \A B : Holds(mQ, B) => Holds(mQ', B)
  BY <1>1, <1>2, HoldsGrown
<1>8. QED
  BY <1>3, <1>4, <1>5, <1>6, <1>7, Zenon

\* and so does taking the head
LEMMA TakenKeeps ==
  ASSUME Types, NEW h, Receive(h), Taken
  PROVE  /\ \A what : Has(mQ', what) => Has(mQ, what)
         /\ \A what : what # h /\ Has(mQ, what) => Has(mQ', what)
         /\ \A what, G : LastIn(mQ, what, G) =>
              /\ LastIn(mQ', what, G)
              /\ what = h /\ ~Has(mQ', h) => Head(mQ) \in G
         /\ \A B : Holds(mQ, B) /\ Head(mQ) \notin B => Holds(mQ', B)
         /\ \A A, B : Followed(mQ, A, B) =>
              Followed(mQ', A, B) /\ (Head(mQ) \in A => Holds(mQ', B))
         /\ Has(mQ, h) /\ mQ # <<>> /\ Head(mQ) \in Messages /\ Head(mQ).what = h
<1>1. mQ \in Seq(Messages) /\ mQ # <<>> /\ mQ' = Tail(mQ) /\ Head(mQ).what = h
      /\ Head(mQ) \in Messages
  BY TakenTypes DEF Taken
<1>2. \A what, G : LastIn(mQ, what, G) =>
        /\ LastIn(mQ', what, G)
        /\ what = h /\ ~Has(mQ', h) => Head(mQ) \in G
  BY <1>1, LastTail
<1>3. /\ \A what : Has(mQ', what) => Has(mQ, what)
      /\ \A what : what # h /\ Has(mQ, what) => Has(mQ', what)
  BY <1>1, HasTail
<1>4. \A B : Holds(mQ, B) /\ Head(mQ) \notin B => Holds(mQ', B)
  BY <1>1, HoldsTail
<1>5. \A A, B : Followed(mQ, A, B) =>
        Followed(mQ', A, B) /\ (Head(mQ) \in A => Holds(mQ', B))
  BY <1>1, FollowedTail
<1>6. Has(mQ, h)
  <2>1. 1 \in 1 .. Len(mQ) /\ mQ[1].what = h
    BY <1>1, TailOf
  <2>2. QED
    BY <2>1 DEF Has
<1>7. QED
  BY <1>1, <1>2, <1>3, <1>4, <1>5, <1>6, Zenon

-----------------------------------------------------------------------------
(* Muting.                                                                 *)

LEMMA StatusKinds ==
  /\ \A m \in Begins : m.what = "status"
  /\ \A m \in Ends : m.what \in {"status", "down"}
  /\ \A m \in Statuses({"on"}) : m.what = "status"
  /\ \A m \in Statuses({"off"}) : m.what = "status"
BY DEF Begins, Ends, Statuses, Value, Msg

LEMMA MuteGrows ==
  ASSUME Types, MuteInv, NEW K, Grew(K), "status" \notin K,
         mute_session_state' = mute_session_state, modem'.told = modem.told
  PROVE  MuteInv'
<1>1. \A m \in Begins : m.what \notin K
  BY StatusKinds
<1>2. /\ Holds(mQ, Ends) => Holds(mQ', Ends)
      /\ Followed(mQ, Begins, Ends) => Followed(mQ', Begins, Ends)
  BY <1>1, GrewKeeps
<1>3. QED
  BY <1>2 DEF MuteInv

LEMMA MuteTaken ==
  ASSUME Types, MuteInv, NEW h, Receive(h), Taken, h \notin {"status", "down"},
         mute_session_state' \in {mute_session_state, "wait"}, modem'.told = modem.told
  PROVE  MuteInv'
<1>1. Head(mQ) \notin Ends
  BY TakenKeeps, StatusKinds
<1>2. /\ Holds(mQ, Ends) => Holds(mQ', Ends)
      /\ Followed(mQ, Begins, Ends) => Followed(mQ', Begins, Ends)
  BY <1>1, TakenKeeps
<1>3. QED
  BY <1>2 DEF MuteInv

\* what is told about the engine: a session that begins is followed by its end
LEMMA StatusHead ==
  ASSUME Types, Receive("status"), Taken
  PROVE  /\ Head(mQ).v \in {"begin", "end", "on", "off"}
         /\ Head(mQ).v \in {"begin", "on"} => Head(mQ) \in Begins
         /\ Head(mQ).v = "on" => Head(mQ) \in Statuses({"on"})
         /\ Head(mQ) \in Ends => Head(mQ).v \in {"end", "off"}
         /\ Head(mQ) \in Statuses({"off"}) => Head(mQ).v = "off"
<1>1. /\ Head(mQ).what = "status" /\ Head(mQ).v \in {"begin", "end", "on", "off"}
      /\ Head(mQ) = Value("status", Head(mQ).v)
  BY TakenKeeps, MessageFields
<1>2. QED
  BY <1>1 DEF Begins, Ends, Statuses, Value, Msg

LEMMA MuteTold == ASSUME MuteInv, Types, LocEngReportStatus PROVE MuteInv'
<1>1. /\ Receive("status") /\ Taken /\ loc_eng_report_status(Head(mQ).v) /\ modem' = modem
  BY DEF LocEngReportStatus
<1>2. CASE modem.told
  BY <1>1, <1>2 DEF MuteInv
<1>3. CASE ~modem.told
  <2>1. /\ mute_session_state = "in session" => Holds(mQ, Ends)
        /\ Followed(mQ, Begins, Ends)
    BY <1>3 DEF MuteInv
  <2>2. /\ Holds(mQ, Ends) /\ Head(mQ) \notin Ends => Holds(mQ', Ends)
        /\ Followed(mQ', Begins, Ends) /\ (Head(mQ) \in Begins => Holds(mQ', Ends))
    BY <1>1, <2>1, TakenKeeps
  <2>3. ASSUME mute_session_state' = "in session" PROVE Holds(mQ', Ends)
    <3>1. Head(mQ).v \in {"begin", "on"} \/ mute_session_state = "in session"
      BY <1>1, <2>3 DEF loc_eng_report_status
    <3>2. Head(mQ).v \in {"end", "off"} => mute_session_state # "in session"
      BY <1>1, <2>3 DEF loc_eng_report_status
    <3>3. QED
      BY <1>1, <2>1, <2>2, <3>1, <3>2, StatusHead
  <2>4. QED
    BY <2>2, <2>3 DEF MuteInv
<1>4. QED
  BY <1>2, <1>3

LEMMA MuteDown == ASSUME MuteInv, Types, loc_eng_handle_engine_down PROVE MuteInv'
<1>1. /\ Receive("down") /\ Taken /\ modem' = modem
      /\ mute_session_state' # "in session"
  BY DEF loc_eng_handle_engine_down, loc_eng_report_status, Types
<1>2. Followed(mQ, Begins, Ends) => Followed(mQ', Begins, Ends)
  BY <1>1, TakenKeeps
<1>3. QED
  BY <1>1, <1>2 DEF MuteInv

LEMMA MuteReported == ASSUME MuteInv, Types, reportStatus PROVE MuteInv'
<1>1. modem'.told = active
  BY DEF reportStatus, Types, Modems
<1>2. CASE active
  BY <1>1, <1>2 DEF MuteInv
<1>3. CASE ~active
  <2> DEFINE more == <<Value("status", "end"), Value("status", "off")>>
  <2>1. mQ' = mQ \o more /\ mQ \in Seq(Messages)
    BY <1>3 DEF reportStatus, ModemPosts, sendMsg, post, Types
  <2>2. /\ Value("status", "end") \in Messages /\ Value("status", "off") \in Messages
        /\ Value("status", "end") \in Ends /\ Value("status", "off") \in Ends
        /\ Value("status", "end") \notin Begins /\ Value("status", "off") \notin Begins
    BY MessageTypes DEF Ends, Begins, Statuses, Value
  <2>3. more \in Seq(Messages) /\ Len(more) = 2 /\ more[1] = Value("status", "end")
        /\ more[2] = Value("status", "off")
    BY <2>2
  <2>4. Holds(more, Ends) /\ Followed(more, Begins, Ends)
    BY <2>2, <2>3 DEF Holds, Followed
  <2> HIDE DEF more
  <2>5. Holds(mQ', Ends) /\ Followed(mQ', Begins, Ends)
    BY <2>1, <2>3, <2>4, HoldsGrown, FollowedGrown
  <2>6. QED
    BY <2>5 DEF MuteInv
<1>4. QED
  BY <1>2, <1>3

LEMMA MuteWentDown == ASSUME MuteInv, Types, handleEngineDownEvent PROVE MuteInv'
<1> DEFINE more == <<Msg("down")>>
<1>1. mQ' = mQ \o more /\ mQ \in Seq(Messages)
  BY DEF handleEngineDownEvent, ModemPosts, sendMsg, post, Types
<1>2. Msg("down") \in Messages /\ Msg("down") \in Ends /\ Msg("down") \notin Begins
  BY MessageTypes DEF Ends, Begins, Statuses, Value, Msg, Bare
<1>3. more \in Seq(Messages) /\ Len(more) = 1 /\ more[1] = Msg("down")
  BY <1>2
<1>4. Holds(more, Ends) /\ Followed(more, Begins, Ends)
  BY <1>2, <1>3 DEF Holds, Followed
<1> HIDE DEF more
<1>5. Holds(mQ', Ends) /\ Followed(mQ', Begins, Ends)
  BY <1>1, <1>3, <1>4, HoldsGrown, FollowedGrown
<1>6. QED
  BY <1>5 DEF MuteInv

-----------------------------------------------------------------------------
(* Aiding data.                                                            *)

LEMMA OnGrows ==
  ASSUME Types, OnInv, NEW K, Grew(K), "status" \notin K,
         engine_status' = engine_status, modem'.told = modem.told,
         count'.restarts = 0 => count.restarts = 0
  PROVE  OnInv'
<1>1. \A m \in Statuses({"on"}) : m.what \notin K
  BY StatusKinds
<1>2. /\ Holds(mQ, Statuses({"off"})) => Holds(mQ', Statuses({"off"}))
      /\ Followed(mQ, Statuses({"on"}), Statuses({"off"}))
           => Followed(mQ', Statuses({"on"}), Statuses({"off"}))
  BY <1>1, GrewKeeps
<1>3. QED
  BY <1>2 DEF OnInv

LEMMA OnTaken ==
  ASSUME Types, OnInv, NEW h, Receive(h), Taken, h # "status",
         engine_status' = engine_status, modem'.told = modem.told, count' = count
  PROVE  OnInv'
<1>1. Head(mQ) \notin Statuses({"off"})
  BY TakenKeeps, StatusKinds
<1>2. /\ Holds(mQ, Statuses({"off"})) => Holds(mQ', Statuses({"off"}))
      /\ Followed(mQ, Statuses({"on"}), Statuses({"off"}))
           => Followed(mQ', Statuses({"on"}), Statuses({"off"}))
  BY <1>1, TakenKeeps
<1>3. QED
  BY <1>2 DEF OnInv

LEMMA OnTold == ASSUME OnInv, Types, LocEngReportStatus PROVE OnInv'
<1>1. /\ Receive("status") /\ Taken /\ loc_eng_report_status(Head(mQ).v) /\ modem' = modem
      /\ count' = count
  BY DEF LocEngReportStatus, outside
<1>2. CASE modem.told \/ count.restarts # 0
  BY <1>1, <1>2 DEF OnInv
<1>3. CASE ~modem.told /\ count.restarts = 0
  <2>1. /\ engine_status = "on" => Holds(mQ, Statuses({"off"}))
        /\ Followed(mQ, Statuses({"on"}), Statuses({"off"}))
    BY <1>3 DEF OnInv
  <2>2. /\ Holds(mQ, Statuses({"off"})) /\ Head(mQ) \notin Statuses({"off"})
             => Holds(mQ', Statuses({"off"}))
        /\ Followed(mQ', Statuses({"on"}), Statuses({"off"}))
        /\ Head(mQ) \in Statuses({"on"}) => Holds(mQ', Statuses({"off"}))
    BY <1>1, <2>1, TakenKeeps
  <2>3. ASSUME engine_status' = "on" PROVE Holds(mQ', Statuses({"off"}))
    <3>1. Head(mQ).v = "on" \/ (Head(mQ).v # "off" /\ engine_status = "on")
      BY <1>1, <2>3 DEF loc_eng_report_status
    <3>2. QED
      BY <1>1, <2>1, <2>2, <3>1, StatusHead
  <2>4. QED
    BY <2>2, <2>3 DEF OnInv
<1>4. QED
  BY <1>2, <1>3

LEMMA OnReported == ASSUME OnInv, Types, reportStatus PROVE OnInv'
<1>1. modem'.told = active
  BY DEF reportStatus, Types, Modems
<1>2. CASE active
  BY <1>1, <1>2 DEF OnInv
<1>3. CASE ~active
  <2> DEFINE more == <<Value("status", "end"), Value("status", "off")>>
  <2>1. mQ' = mQ \o more /\ mQ \in Seq(Messages)
    BY <1>3 DEF reportStatus, ModemPosts, sendMsg, post, Types
  <2>2. /\ Value("status", "end") \in Messages /\ Value("status", "off") \in Messages
        /\ Value("status", "off") \in Statuses({"off"})
        /\ Value("status", "end") \notin Statuses({"on"})
        /\ Value("status", "off") \notin Statuses({"on"})
    BY MessageTypes DEF Statuses, Value
  <2>3. more \in Seq(Messages) /\ Len(more) = 2 /\ more[1] = Value("status", "end")
        /\ more[2] = Value("status", "off")
    BY <2>2
  <2>4. Holds(more, Statuses({"off"})) /\ Followed(more, Statuses({"on"}), Statuses({"off"}))
    BY <2>2, <2>3 DEF Holds, Followed
  <2> HIDE DEF more
  <2>5. Holds(mQ', Statuses({"off"})) /\ Followed(mQ', Statuses({"on"}), Statuses({"off"}))
    BY <2>1, <2>3, <2>4, HoldsGrown, FollowedGrown
  <2>6. QED
    BY <2>5 DEF OnInv
<1>4. QED
  BY <1>2, <1>3

LEMMA AidGrows ==
  ASSUME Types, AidInv, NEW K, Grew(K),
         UNCHANGED <<engine_status, aiding_data_for_deletion, undeleted, replaced>>,
         count'.restarts = 0 => count.restarts = 0
  PROVE  AidInv'
<1>1. \A t : Holds(mQ, Asking(t)) => Holds(mQ', Asking(t))
  BY GrewKeeps
<1>2. QED
  BY <1>1 DEF AidInv, Asking

LEMMA AidTaken ==
  ASSUME Types, AidInv, NEW h, Receive(h), Taken, h # "delete",
         UNCHANGED <<engine_status, aiding_data_for_deletion, undeleted, replaced, count>>
  PROVE  AidInv'
<1>1. \A t : Head(mQ) \notin Asking(t)
  BY DEF Asking, Receive
<1>2. \A t : Holds(mQ, Asking(t)) => Holds(mQ', Asking(t))
  BY <1>1, TakenKeeps
<1>3. QED
  BY <1>2 DEF AidInv, Asking

LEMMA AidAsked ==
  ASSUME Types, AidInv, NEW f \in AidingRequests, loc_delete_aiding_data(f) PROVE AidInv'
<1> DEFINE m == [what |-> "delete", types |-> f]
<1>1. /\ mQ' = mQ \o <<m>> /\ mQ \in Seq(Messages)
      /\ undeleted' = undeleted \cup f /\ replaced' = replaced \ f
      /\ UNCHANGED <<aiding_data_for_deletion,
                     engine_status>> /\ count'.restarts = count.restarts
  BY DEF loc_delete_aiding_data, sendMsg, post, Types, engVars, Counts
<1>2. m \in Messages /\ m.what = "delete" /\ m.types = f
  BY MessageTypes DEF AidingData
<1>3. \A t \in f : m \in Asking(t)
  BY <1>2 DEF Asking
<1> HIDE DEF m
<1>4. <<m>> \in Seq(Messages) /\ Len(<<m>>) = 1 /\ <<m>>[1] = m
  BY <1>2
<1>5. \A t \in f : Holds(<<m>>, Asking(t))
  BY <1>3, <1>4 DEF Holds
<1>6. \A t : t \in f \/ Holds(mQ, Asking(t)) => Holds(mQ', Asking(t))
  BY <1>1, <1>4, <1>5, HoldsGrown
<1>7. QED
  BY <1>1, <1>6 DEF AidInv, Asking

LEMMA AidDeleted == ASSUME AidInv, Types, LocEngDelAidData PROVE AidInv'
<1>1. /\ Receive("delete") /\ Taken /\ count' = count /\ engine_status' = engine_status
      /\ deleteAidingData(engine_status, Head(mQ).types)
  BY DEF LocEngDelAidData, outside
<1>2. ASSUME count.restarts = 0, NEW t \in undeleted' \ replaced'
      PROVE  t \in aiding_data_for_deletion' \/ Holds(mQ', Asking(t))
  <2>1. CASE t \in Head(mQ).types
    BY <1>1, <1>2, <2>1 DEF deleteAidingData
  <2>2. CASE t \notin Head(mQ).types
    <3>1. t \in undeleted \ replaced /\ t \notin aiding_data_for_deletion
      BY <1>1, <1>2, <2>2 DEF deleteAidingData
    <3>2. Holds(mQ, Asking(t)) /\ Head(mQ) \notin Asking(t)
      BY <1>2, <2>2, <3>1 DEF AidInv, Asking
    <3>3. QED
      BY <1>1, <3>2, TakenKeeps
  <2>3. QED
    BY <2>1, <2>2
<1>3. aiding_data_for_deletion' # {} => engine_status' = "on"
  BY <1>1 DEF deleteAidingData
<1>4. QED
  BY <1>1, <1>2, <1>3 DEF AidInv, Asking

LEMMA AidTold == ASSUME AidInv, Types, LocEngReportStatus PROVE AidInv'
<1>1. /\ Receive("status") /\ Taken /\ count' = count
      /\ deleteAidingData(engine_status', aiding_data_for_deletion)
  BY DEF LocEngReportStatus, outside
<1>2. ASSUME count.restarts = 0, NEW t \in undeleted' \ replaced'
      PROVE  t \in aiding_data_for_deletion' \/ Holds(mQ', Asking(t))
  <2>1. CASE t \in aiding_data_for_deletion
    BY <1>1, <1>2, <2>1 DEF deleteAidingData
  <2>2. CASE t \notin aiding_data_for_deletion
    <3>1. t \in undeleted \ replaced
      BY <1>1, <1>2, <2>2 DEF deleteAidingData
    <3>2. Holds(mQ, Asking(t)) /\ Head(mQ) \notin Asking(t)
      BY <1>1, <1>2, <2>2, <3>1 DEF AidInv, Asking, Receive
    <3>3. QED
      BY <1>1, <3>2, TakenKeeps
  <2>3. QED
    BY <2>1, <2>2
<1>3. aiding_data_for_deletion' # {} => engine_status' = "on"
  BY <1>1 DEF deleteAidingData
<1>4. QED
  BY <1>1, <1>2, <1>3 DEF AidInv, Asking

-----------------------------------------------------------------------------
(* The modem's parameters.                                                 *)

LEMMA ConfGrows ==
  ASSUME Types, ConfInv, NEW K, Grew(K), "conf" \notin K, TaskKept,
         UNCHANGED <<adapter, gps_conf, stale>>, (hal.at = "post" => hal'.at = "post"),
         modem'.up = modem.up, modem'.conf = modem.conf
  PROVE  ConfInv'
<1>1. /\ Has(mQ, "init") => Has(mQ', "init")
      /\ Has(mQ, "up") => Has(mQ', "up")
      /\ Has(mQ, "conf") => Has(mQ', "conf")
      /\ LastIn(mQ, "conf", {Value("conf", gps_conf)})
           => LastIn(mQ', "conf", {Value("conf", gps_conf)})
  BY GrewKeeps
<1>2. QED
  BY <1>1 DEF ConfInv, TaskKept

LEMMA ConfTaken ==
  ASSUME Types, ConfInv, NEW h, Receive(h), Taken, h \notin {"conf", "init", "up"},
         UNCHANGED <<adapter, gps_conf, stale, hal>>,
         modem'.up = modem.up, modem'.conf = modem.conf
  PROVE  ConfInv'
<1>1. /\ Has(mQ, "init") => Has(mQ', "init")
      /\ Has(mQ, "up") => Has(mQ', "up")
      /\ Has(mQ, "conf") => Has(mQ', "conf")
      /\ LastIn(mQ, "conf", {Value("conf", gps_conf)})
           => LastIn(mQ', "conf", {Value("conf", gps_conf)})
  BY TakenKeeps
<1>2. QED
  BY <1>1 DEF ConfInv, Receive

LEMMA ConfSet == ASSUME ConfInv, Types, LocEngConfigure PROVE ConfInv'
<1>1. /\ Receive("conf") /\ Taken /\ UNCHANGED <<adapter, gps_conf, stale, task, hal>>
      /\ modem'.up = modem.up /\ (modem.up => modem'.conf = Head(mQ).v)
  BY DEF LocEngConfigure, outside, halVars, confVars, Types, Modems
<1>2. /\ Has(mQ, "init") => Has(mQ', "init")
      /\ Has(mQ, "up") => Has(mQ', "up")
      /\ LastIn(mQ, "conf", {Value("conf", gps_conf)}) =>
           /\ LastIn(mQ', "conf", {Value("conf", gps_conf)})
           /\ ~Has(mQ', "conf") => Head(mQ) \in {Value("conf", gps_conf)}
  BY <1>1, TakenKeeps
<1>3. Head(mQ) = Value("conf", gps_conf) => Head(mQ).v = gps_conf
  BY DEF Value
<1>4. CASE modem.up
  BY <1>1, <1>2, <1>3, <1>4 DEF ConfInv
<1>5. CASE ~modem.up
  BY <1>1, <1>5 DEF ConfInv
<1>6. QED
  BY <1>4, <1>5

\* the parameter, posted last, is the one of gps_conf
LEMMA ConfPosted ==
  ASSUME Types, NEW v \in ConfValues, NEW rest \in Seq(Messages), Kinds(rest, {"server"}),
         mQ' = mQ \o (<<Value("conf", v)>> \o rest), v = gps_conf \/ stale', gps_conf' = gps_conf
  PROVE  ConfInv'
<1>1. CASE stale'
  BY <1>1 DEF ConfInv
<1>2. CASE v = gps_conf
  <2> DEFINE m == Value("conf", v)
             more == <<m>> \o rest
  <2>1. m \in Messages /\ m.what = "conf" /\ m \in {Value("conf", gps_conf)}
    BY <1>2, MessageTypes DEF Value
  <2>2. mQ' = mQ \o more /\ mQ \in Seq(Messages)
    BY DEF Types
  <2> HIDE DEF m
  <2>3. <<m>> \in Seq(Messages) /\ Len(<<m>>) = 1 /\ <<m>>[1] = m
    BY <2>1
  <2>4. LastIn(<<m>>, "conf", {Value("conf", gps_conf)}) /\ Has(<<m>>, "conf")
    BY <2>1, <2>3 DEF LastIn, Has
  <2>5. LastIn(rest, "conf", {Value("conf", gps_conf)})
    BY DEF Kinds, LastIn
  <2>6. more \in Seq(Messages) /\ LastIn(more, "conf", {Value("conf", gps_conf)})
        /\ Has(more, "conf")
    BY <2>3, <2>4, <2>5, LastGrown, HasGrown, Grown
  <2> HIDE DEF more
  <2> DEFINE G == {Value("conf", gps_conf)}
  <2> HIDE DEF G
  <2>7. LastIn(mQ \o more, "conf", G) /\ Has(mQ \o more, "conf")
    <3>1. LastIn(more, "conf", G)
      BY <2>6 DEF G
    <3>2. QED
      BY <2>2, <2>6, <3>1, LastGrown, HasGrown
  <2>8. LastIn(mQ', "conf", {Value("conf", gps_conf')}) /\ Has(mQ', "conf")
    BY <2>2, <2>7 DEF G
  <2>9. QED
    BY <2>8 DEF ConfInv
<1>3. QED
  BY <1>1, <1>2

LEMMA ConfFramework ==
  ASSUME Types, ConfInv
  PROVE  /\ loc_init => ConfInv'
         /\ \A v \in ConfValues : configuration_update(v) => ConfInv'
<1>1. ASSUME loc_init PROVE ConfInv'
  <2>1. UNCHANGED <<gps_conf, stale, task, hal, modem>> /\ Grew({"init"})
    BY <1>1, FrameworkGrows DEF loc_init
  <2>2. CASE adapter
    <3>1. adapter' = adapter
      BY <1>1, <2>2 DEF loc_init, loc_eng_init
    <3>2. QED
      BY <2>1, <3>1, ConfGrows DEF TaskKept
  <2>3. CASE ~adapter
    <3>1. mQ' = mQ \o <<Msg("init")>> /\ mQ \in Seq(Messages)
      BY <1>1, <2>3 DEF loc_init, loc_eng_init, sendMsg, post, Types
    <3>2. Msg("init") \in Messages /\ Msg("init").what = "init"
      BY MessageTypes DEF Bare, Msg
    <3>3. <<Msg("init")>> \in Seq(Messages) /\ Has(<<Msg("init")>>, "init")
      BY <3>2 DEF Has
    <3>4. Has(mQ', "init")
      BY <3>1, <3>3, HasGrown
    <3>5. QED
      BY <3>4 DEF ConfInv
  <2>4. QED
    BY <2>2, <2>3 DEF Types
<1>2. ASSUME NEW v \in ConfValues, configuration_update(v) PROVE ConfInv'
  <2>1. /\ UNCHANGED <<adapter, stale, task, modem>> /\ Grew({}) /\ gps_conf' = v
        /\ hal' = IF adapter /\ v # gps_conf THEN [at |-> "post", v |-> v] ELSE hal
    BY <1>2, FrameworkGrows DEF configuration_update
  <2>2. CASE adapter /\ v # gps_conf
    BY <2>1, <2>2 DEF ConfInv
  <2>3. CASE ~adapter
    BY <2>1, <2>3 DEF ConfInv
  <2>4. CASE v = gps_conf
    BY <2>1, <2>4, ConfGrows DEF TaskKept
  <2>5. QED
    BY <2>2, <2>3, <2>4
<1>3. QED
  BY <1>1, <1>2

LEMMA UpPosted == ASSUME Types, handleEngineUpEvent PROVE Has(mQ', "up")
<1> DEFINE more == <<Msg("ssr"), Msg("up")>>
<1>1. mQ' = mQ \o more /\ mQ \in Seq(Messages)
  BY DEF handleEngineUpEvent, ModemPosts, sendMsg, post, Types
<1>2. Msg("ssr") \in Messages /\ Msg("up") \in Messages /\ Msg("up").what = "up"
  BY MessageTypes DEF Bare, Msg
<1>3. more \in Seq(Messages) /\ Has(more, "up")
  BY <1>2 DEF Has
<1> HIDE DEF more
<1>4. Has(mQ \o more, "up")
  BY <1>1, <1>3, HasGrown
<1>5. QED
  BY <1>1, <1>4

LEMMA ConfOthers ==
  ASSUME Types, ConfInv
  PROVE  /\ PostUpdate => ConfInv'
         /\ handleEngineDownEvent => ConfInv'
         /\ handleEngineUpEvent => ConfInv'
         /\ loc_eng_reinit => ConfInv'
         /\ LocEngInit => ConfInv'
         /\ loc_eng_handle_engine_up => ConfInv'
<1>0. <<>> \in Seq(Messages) /\ Kinds(<<>>, {"server"})
  BY DEF Kinds
<1>1. ASSUME PostUpdate PROVE ConfInv'
  <2>1. /\ mQ' = mQ \o <<Value("conf", hal.v)>> /\ hal.v = gps_conf /\ gps_conf \in ConfValues
        /\ gps_conf' = gps_conf
    BY <1>1 DEF PostUpdate, sendMsg, post, Types
  <2>2. <<Value("conf", hal.v)>> \o <<>> = <<Value("conf", hal.v)>>
    <3>1. Value("conf", hal.v) \in Messages
      BY <2>1, MessageTypes
    <3>2. <<Value("conf", hal.v)>> \in Seq(Messages)
      BY <3>1
    <3>3. QED
      BY <3>2, ConcatEmptySeq
  <2>3. QED
    BY <1>0, <2>1, <2>2, ConfPosted
<1>2. ASSUME handleEngineDownEvent PROVE ConfInv'
  BY <1>2 DEF handleEngineDownEvent, ConfInv, Types, Modems
<1>3. ASSUME handleEngineUpEvent PROVE ConfInv'
  BY <1>3, UpPosted DEF ConfInv
<1>4. ASSUME loc_eng_reinit PROVE ConfInv'
  <2>1. task'.at \in {"init", "up"}
    BY <1>4 DEF loc_eng_reinit, Receive
  <2>2. QED
    BY <2>1 DEF ConfInv
<1>5. ASSUME LocEngInit PROVE ConfInv'
  <2>1. /\ mQ' = mQ \o (<<Value("conf", task.v)>> \o <<>>) /\ stale' = (task.v # gps_conf)
        /\ task.v \in ConfValues /\ gps_conf' = gps_conf
    BY <1>5 DEF LocEngInit, PostConf, post, Types
  <2>2. QED
    BY <1>0, <2>1, ConfPosted
<1>6. ASSUME loc_eng_handle_engine_up PROVE ConfInv'
  <2> DEFINE more == IF agps THEN SetServer(supl_host) ELSE <<>>
  <2>1. more \in Seq(Messages)
    BY SetServerTypes DEF Types
  <2>2. Kinds(more, {"server"})
    BY DEF Kinds, SetServer, Value
  <2>3. /\ mQ' = mQ \o (<<Value("conf", task.v)>> \o more) /\ stale' = (task.v # gps_conf)
        /\ task.v \in ConfValues /\ gps_conf' = gps_conf
    BY <1>6 DEF loc_eng_handle_engine_up, PostConf, post, Types
  <2> HIDE DEF more
  <2>4. QED
    BY <2>1, <2>2, <2>3, ConfPosted
<1>7. QED
  BY <1>1, <1>2, <1>3, <1>4, <1>5, <1>6

-----------------------------------------------------------------------------
(* The SUPL server.                                                        *)

LEMMA ServerGrows ==
  ASSUME Types, ServerInv, NEW K, Grew(K), "server" \notin K,
         TaskKept, UNCHANGED <<adapter, supl_host, agps>>,
         modem'.up = modem.up, modem'.server = modem.server,
         count.restarts > 0 => count'.restarts > 0
  PROVE  ServerInv'
<1>1. /\ Has(mQ, "up") => Has(mQ', "up")
      /\ Has(mQ, "server") => Has(mQ', "server")
      /\ LastIn(mQ, "server", {Value("server", supl_host)})
           => LastIn(mQ', "server", {Value("server", supl_host)})
  BY GrewKeeps
<1>2. QED
  BY <1>1 DEF ServerInv, TaskKept

LEMMA ServerTaken ==
  ASSUME Types, ServerInv, NEW h, Receive(h), Taken, h \notin {"server", "up"},
         UNCHANGED <<adapter, supl_host, agps, count>>,
         modem'.up = modem.up, modem'.server = modem.server
  PROVE  ServerInv'
<1>1. /\ Has(mQ, "up") => Has(mQ', "up")
      /\ Has(mQ, "server") => Has(mQ', "server")
      /\ LastIn(mQ, "server", {Value("server", supl_host)})
           => LastIn(mQ', "server", {Value("server", supl_host)})
  BY TakenKeeps
<1>2. task.at # "up"
  BY DEF Receive
<1>3. QED
  BY <1>1, <1>2 DEF ServerInv

LEMMA ServerSet == ASSUME ServerInv, Types, LocEngSetServer PROVE ServerInv'
<1>1. /\ Receive("server") /\ Taken /\ UNCHANGED <<adapter, supl_host, agps, task, count>>
      /\ modem'.up = modem.up /\ (modem.up => modem'.server = Head(mQ).v)
  BY DEF LocEngSetServer, outside, halVars, confVars, Types, Modems
<1>2. /\ Has(mQ, "up") => Has(mQ', "up")
      /\ LastIn(mQ, "server", {Value("server", supl_host)}) =>
           /\ LastIn(mQ', "server", {Value("server", supl_host)})
           /\ ~Has(mQ', "server") => Head(mQ) \in {Value("server", supl_host)}
  BY <1>1, TakenKeeps
<1>3. Head(mQ) = Value("server", supl_host) => Head(mQ).v = supl_host
  BY DEF Value
<1>4. CASE modem.up
  BY <1>1, <1>2, <1>3, <1>4 DEF ServerInv
<1>5. CASE ~modem.up
  BY <1>1, <1>5 DEF ServerInv
<1>6. QED
  BY <1>4, <1>5

\* the server, posted last
LEMMA ServerPosted ==
  ASSUME Types, NEW before \in Seq(Messages), NEW v \in Servers \cup {None}, supl_host' = v,
         mQ' = mQ \o (before \o SetServer(v))
  PROVE  ServerInv'
<1>1. CASE v = None
  BY <1>1 DEF ServerInv
<1>2. CASE v # None
  <2> DEFINE m == Value("server", v)
             G == {m}
  <2>1. m \in Messages /\ m.what = "server" /\ SetServer(v) = <<m>>
    BY <1>2, MessageTypes DEF Value, SetServer
  <2> HIDE DEF m
  <2>2. <<m>> \in Seq(Messages) /\ Len(<<m>>) = 1 /\ <<m>>[1] = m
    BY <2>1
  <2>3. LastIn(<<m>>, "server", G) /\ Has(<<m>>, "server")
    BY <2>1, <2>2 DEF LastIn, Has
  <2> HIDE DEF G
  <2> DEFINE more == before \o <<m>>
  <2>4. more \in Seq(Messages) /\ LastIn(more, "server", G) /\ Has(more, "server")
    BY <2>2, <2>3, LastGrown, HasGrown, Grown
  <2> HIDE DEF more
  <2>5. mQ \in Seq(Messages)
    BY DEF Types
  <2>6. LastIn(mQ \o more, "server", G) /\ Has(mQ \o more, "server")
    BY <2>4, <2>5, LastGrown, HasGrown
  <2>7. LastIn(mQ', "server", {Value("server", supl_host')}) /\ Has(mQ', "server")
    BY <2>1, <2>6 DEF G, m, more
  <2>8. QED
    BY <2>7 DEF ServerInv
<1>3. QED
  BY <1>1, <1>2

LEMMA ServerAlone ==
  ASSUME NEW v \in Servers \cup {None}
  PROVE  <<>> \in Seq(Messages) /\ <<>> \o SetServer(v) = SetServer(v)
<1>1. SetServer(v) \in Seq(Messages) /\ <<>> \in Seq(Messages)
  BY SetServerTypes
<1>2. QED
  BY <1>1, ConcatEmptySeq

LEMMA ServerFramework ==
  ASSUME Types, ServerInv
  PROVE  /\ loc_init => ServerInv'
         /\ agps_init => ServerInv'
         /\ \A v \in Servers : loc_agps_set_server(v) => ServerInv'
<1>1. ASSUME loc_init PROVE ServerInv'
  <2>1. UNCHANGED <<agps, task, modem, count>> /\ Grew({"init"})
    BY <1>1, FrameworkGrows DEF loc_init
  <2>2. CASE adapter
    <3>1. UNCHANGED <<adapter, supl_host>>
      BY <1>1, <2>2 DEF loc_init, loc_eng_init
    <3>2. QED
      BY <2>1, <3>1, ServerGrows DEF TaskKept
  <2>3. CASE ~adapter
    BY <1>1, <2>3 DEF loc_init, loc_eng_init, ServerInv
  <2>4. QED
    BY <2>2, <2>3 DEF Types
<1>2. ASSUME agps_init PROVE ServerInv'
  <2>1. /\ supl_host \in Servers \cup {None} /\ supl_host' = supl_host
        /\ UNCHANGED <<adapter, task, modem, count>>
        /\ mQ' = mQ \o (IF HasMs THEN SetServer(supl_host) ELSE <<>>)
    BY <1>2 DEF agps_init, sendMsg, post, Types, halVars
  <2>2. CASE HasMs
    <3>1. mQ' = mQ \o (<<>> \o SetServer(supl_host)) /\ <<>> \in Seq(Messages)
      BY <2>1, <2>2, ServerAlone
    <3>2. QED
      BY <2>1, <3>1, ServerPosted
  <2>3. CASE ~HasMs
    <3>1. mQ' = mQ
      BY <2>1, <2>3, NothingPosted
    <3>2. QED
      BY <2>1, <2>3, <3>1 DEF ServerInv
  <2>4. QED
    BY <2>2, <2>3
<1>3. ASSUME NEW v \in Servers, loc_agps_set_server(v) PROVE ServerInv'
  <2>1. /\ supl_host' = v /\ adapter' = adapter
        /\ mQ' = mQ \o (IF adapter THEN SetServer(v) ELSE <<>>)
    BY <1>3 DEF loc_agps_set_server, sendMsg, post, halVars
  <2>2. CASE adapter
    <3>1. mQ' = mQ \o (<<>> \o SetServer(v)) /\ <<>> \in Seq(Messages)
      BY <2>1, <2>2, ServerAlone
    <3>2. QED
      BY <2>1, <3>1, ServerPosted
  <2>3. CASE ~adapter
    BY <2>1, <2>3 DEF ServerInv
  <2>4. QED
    BY <2>2, <2>3
<1>4. QED
  BY <1>1, <1>2, <1>3

LEMMA ServerOthers ==
  ASSUME Types, ServerInv, RestartInv
  PROVE  /\ handleEngineDownEvent => ServerInv'
         /\ handleEngineUpEvent => ServerInv'
         /\ loc_eng_reinit => ServerInv'
         /\ LocEngInit => ServerInv'
         /\ loc_eng_handle_engine_up => ServerInv'
<1>2. ASSUME handleEngineDownEvent PROVE ServerInv'
  BY <1>2 DEF handleEngineDownEvent, ServerInv, Types, Modems
<1>3. ASSUME handleEngineUpEvent PROVE ServerInv'
  BY <1>3, UpPosted DEF ServerInv
<1>4. ASSUME loc_eng_reinit PROVE ServerInv'
  <2>1. PICK h \in {"init", "up"} : Receive(h)
    BY <1>4 DEF loc_eng_reinit
  <2>2. /\ Taken /\ task'.at = h /\ UNCHANGED <<adapter, supl_host, agps, count, modem>>
    BY <1>4, <2>1 DEF loc_eng_reinit, Receive, outside, halVars, confVars
  <2>3. CASE h = "up"
    BY <2>2, <2>3 DEF ServerInv
  <2>4. CASE h = "init"
    <3>1. task.at # "up"
      BY <2>1 DEF Receive
    <3>2. QED
      BY <2>1, <2>2, <2>4, <3>1, ServerTaken
  <2>5. QED
    BY <2>3, <2>4
<1>5. ASSUME LocEngInit PROVE ServerInv'
  <2>1. /\ mQ' = mQ \o (<<Value("conf", task.v)>> \o <<>>) /\ task.v \in ConfValues
        /\ task.at = "init"
        /\ UNCHANGED <<adapter, supl_host, agps, count, modem>>
    BY <1>5 DEF LocEngInit, PostConf, post, Types, halVars
  <2>2. Value("conf", task.v) \in Messages /\ Value("conf", task.v).what = "conf"
    BY <2>1, MessageTypes DEF Value
  <2>3. <<Value("conf", task.v)>> \in Seq(Messages)
    BY <2>2
  <2>4. mQ' = mQ \o <<Value("conf", task.v)>>
    BY <2>1, <2>3, ConcatEmptySeq
  <2>5. Grew({"conf"})
    BY <2>2, <2>4, GrewOne
  <2>6. /\ Has(mQ, "up") => Has(mQ', "up")
        /\ Has(mQ, "server") => Has(mQ', "server")
        /\ LastIn(mQ, "server", {Value("server", supl_host)})
             => LastIn(mQ', "server", {Value("server", supl_host)})
    BY <2>5, GrewKeeps
  <2>7. QED
    BY <2>1, <2>6 DEF ServerInv
<1>6. ASSUME loc_eng_handle_engine_up PROVE ServerInv'
  <2>1. /\ mQ' = mQ \o (<<Value("conf", task.v)>>
                         \o (IF agps THEN SetServer(supl_host) ELSE <<>>))
        /\ task.at = "up" /\ UNCHANGED <<supl_host, agps, count>>
        /\ task.v \in ConfValues /\ supl_host \in Servers \cup {None}
    BY <1>6 DEF loc_eng_handle_engine_up, PostConf, post, Types
  <2>2. CASE agps
    <3>1. <<Value("conf", task.v)>> \in Seq(Messages)
      BY <2>1, MessageTypes
    <3>2. QED
      BY <2>1, <2>2, <3>1, ServerPosted
  <2>3. CASE ~agps
    BY <2>1, <2>3 DEF ServerInv, RestartInv
  <2>4. QED
    BY <2>2, <2>3 DEF Types
<1>7. QED
  BY <1>2, <1>3, <1>4, <1>5, <1>6

-----------------------------------------------------------------------------
(* Restarts.                                                               *)

LEMMA SomeLeft ==
  ASSUME NEW S, NEW q \in Seq(S) PROVE (q # <<>> <=> Len(q) > 0) /\ Len(q) \in Nat
<1>1. Len(q) \in Nat
  BY LenProperties
<1>2. q = <<>> <=> Len(q) = 0
  BY EmptySeq
<1>3. QED
  BY <1>1, <1>2

LEMMA PairedTail ==
  ASSUME NEW S, NEW q \in Seq(S), q # <<>>, Paired(q)
  PROVE  /\ Paired(Tail(q))
         /\ First(Tail(q), "up") <=> Head(q).what = "ssr"
<1>0. /\ Tail(q) \in Seq(S) /\ Len(q) \in Nat \ {0} /\ Len(Tail(q)) = Len(q) - 1
      /\ \A i \in 1 .. Len(q) - 1 : Tail(q)[i] = q[i + 1]
      /\ Head(q) = q[1]
  BY TailOf
<1>1. ASSUME NEW i \in 1 .. Len(Tail(q))
      PROVE  /\ Tail(q)[i].what = "ssr" => i < Len(Tail(q)) /\ Tail(q)[i + 1].what = "up"
             /\ Tail(q)[i].what = "up" /\ i # 1 => Tail(q)[i - 1].what = "ssr"
  <2>1. i + 1 \in 1 .. Len(q) /\ Tail(q)[i] = q[i + 1] /\ i + 1 # 1
    BY <1>0
  <2>2. /\ q[i + 1].what = "ssr" => i + 1 < Len(q) /\ q[(i + 1) + 1].what = "up"
        /\ q[i + 1].what = "up" => q[(i + 1) - 1].what = "ssr"
    BY <2>1 DEF Paired
  <2>3. i + 1 < Len(q) => Tail(q)[i + 1] = q[(i + 1) + 1]
    BY <1>0
  <2>4. i # 1 => Tail(q)[i - 1] = q[(i - 1) + 1] /\ (i - 1) + 1 = (i + 1) - 1
    BY <1>0
  <2>5. QED
    BY <1>0, <2>1, <2>2, <2>3, <2>4
<1>2. Tail(q) # <<>> <=> Len(q) > 1
  <2>1. Tail(q) # <<>> <=> Len(Tail(q)) > 0
    BY <1>0, SomeLeft
  <2>2. QED
    BY <1>0, <2>1
<1>3. Len(q) > 1 => Tail(q)[1] = q[2]
  BY <1>0
<1>4. ASSUME Head(q).what = "ssr" PROVE First(Tail(q), "up")
  <2>1. 1 < Len(q) /\ q[1 + 1].what = "up"
    BY <1>0, <1>4 DEF Paired
  <2>2. QED
    BY <1>2, <1>3, <2>1 DEF First
<1>5. ASSUME First(Tail(q), "up") PROVE Head(q).what = "ssr"
  <2>1. 2 \in 1 .. Len(q) /\ q[2].what = "up"
    BY <1>0, <1>2, <1>3, <1>5 DEF First
  <2>2. q[2 - 1].what = "ssr"
    BY <2>1 DEF Paired
  <2>3. QED
    BY <1>0, <2>2
<1>6. QED
  BY <1>1, <1>4, <1>5 DEF Paired

LEMMA PairedGrown ==
  ASSUME NEW S, NEW q \in Seq(S), NEW more \in Seq(S), Paired(q), Paired(more),
         ~First(more, "up")
  PROVE  Paired(q \o more) /\ (First(q \o more, "up") => First(q, "up"))
<1>0. /\ q \o more \in Seq(S) /\ Len(q) \in Nat /\ Len(more) \in Nat
      /\ Len(q \o more) = Len(q) + Len(more)
      /\ \A i \in 1 .. Len(q) : (q \o more)[i] = q[i]
      /\ \A i \in 1 .. Len(more) : (q \o more)[Len(q) + i] = more[i]
      /\ \A i \in 1 .. Len(q \o more) :
           i \in 1 .. Len(q) \/ \E k \in 1 .. Len(more) : i = Len(q) + k
  BY Grown
<1>1. more # <<>> <=> Len(more) > 0
  BY <1>0, EmptySeq
<1>2. q # <<>> <=> Len(q) > 0
  BY <1>0, EmptySeq
<1>3. Len(more) > 0 => more[1].what # "up"
  BY <1>1 DEF First
<1> DEFINE r == q \o more
<1>4. ASSUME NEW i \in 1 .. Len(q)
      PROVE  /\ r[i].what = "ssr" => i < Len(r) /\ r[i + 1].what = "up"
             /\ r[i].what = "up" /\ i # 1 => r[i - 1].what = "ssr"
  <2>1. r[i] = q[i] /\ (i < Len(q) => r[i + 1] = q[i + 1]) /\ (i # 1 => r[i - 1] = q[i - 1])
    BY <1>0
  <2>2. /\ q[i].what = "ssr" => i < Len(q) /\ q[i + 1].what = "up"
        /\ q[i].what = "up" /\ i # 1 => q[i - 1].what = "ssr"
    BY DEF Paired
  <2>3. i < Len(q) => i < Len(r)
    BY <1>0
  <2>4. QED
    BY <2>1, <2>2, <2>3
<1>5. ASSUME NEW k \in 1 .. Len(more)
      PROVE  /\ r[Len(q) + k].what = "ssr" =>
                  Len(q) + k < Len(r) /\ r[(Len(q) + k) + 1].what = "up"
             /\ r[Len(q) + k].what = "up" /\ Len(q) + k # 1 => r[(Len(q) + k) - 1].what = "ssr"
  <2>1. r[Len(q) + k] = more[k]
    BY <1>0
  <2>2. /\ more[k].what = "ssr" => k < Len(more) /\ more[k + 1].what = "up"
        /\ more[k].what = "up" /\ k # 1 => more[k - 1].what = "ssr"
    BY DEF Paired
  <2>3. k < Len(more) => /\ Len(q) + k < Len(r) /\ (Len(q) + k) + 1 = Len(q) + (k + 1)
                         /\ r[Len(q) + (k + 1)] = more[k + 1]
    BY <1>0
  <2>4. k # 1 => (Len(q) + k) - 1 = Len(q) + (k - 1) /\ r[Len(q) + (k - 1)] = more[k - 1]
    <3>1. k # 1 => k - 1 \in 1 .. Len(more) /\ (Len(q) + k) - 1 = Len(q) + (k - 1)
      BY <1>0
    <3>2. QED
      BY <1>0, <3>1
  <2>5. more[k].what = "up" => k # 1
    BY <1>0, <1>3
  <2>6. QED
    BY <2>1, <2>2, <2>3, <2>4, <2>5
<1>6. Paired(r)
  <2>1. ASSUME NEW i \in 1 .. Len(r)
        PROVE  /\ r[i].what = "ssr" => i < Len(r) /\ r[i + 1].what = "up"
               /\ r[i].what = "up" /\ i # 1 => r[i - 1].what = "ssr"
    <3>1. CASE i \in 1 .. Len(q)
      BY <1>4, <3>1
    <3>2. ASSUME NEW k \in 1 .. Len(more), i = Len(q) + k
          PROVE  /\ r[i].what = "ssr" => i < Len(r) /\ r[i + 1].what = "up"
                 /\ r[i].what = "up" /\ i # 1 => r[i - 1].what = "ssr"
      BY <1>5, <3>2
    <3>3. i \in 1 .. Len(q) \/ \E k \in 1 .. Len(more) : i = Len(q) + k
      BY <1>0
    <3>4. QED
      BY <3>1, <3>2, <3>3, Zenon
  <2>2. QED
    BY <2>1, Zenon DEF Paired
<1>7. ASSUME First(r, "up") PROVE First(q, "up")
  <2>1. Len(r) > 0 /\ r[1].what = "up"
    BY <1>0, <1>7, EmptySeq DEF First
  <2>2. Len(q) > 0
    <3>1. CASE Len(q) = 0
      <4>1. Len(more) > 0 /\ Len(q) + 1 = 1 /\ r[Len(q) + 1] = more[1]
        BY <1>0, <2>1, <3>1
      <4>2. QED
        BY <1>3, <2>1, <4>1
    <3>2. QED
      BY <1>0, <3>1
  <2>3. r[1] = q[1]
    BY <1>0, <2>2
  <2>4. QED
    BY <1>2, <2>1, <2>2, <2>3 DEF First
<1>8. QED
  BY <1>6, <1>7

LEMMA RestartGrows ==
  ASSUME Types, RestartInv, NEW K, Grew(K), K \cap {"ssr", "up", "down"} = {},
         modem'.up = modem.up, modem'.fix \in {modem.fix, NoFix},
         (task'.at = "up" => task.at = "up"), (task.at = "idle" => task'.at = "idle"),
         count'.restarts = count.restarts
  PROVE  RestartInv'
<1>1. PICK more \in Seq(Messages) : mQ' = mQ \o more /\ Kinds(more, K)
  BY DEF Grew
<1>2. mQ \in Seq(Messages)
  BY DEF Types
<1>3. Paired(more) /\ ~First(more, "up")
  <2>1. \A i \in 1 .. Len(more) : more[i].what \notin {"ssr", "up"}
    BY <1>1 DEF Kinds
  <2>2. more # <<>> => 1 \in 1 .. Len(more)
    BY EmptySeq, LenProperties
  <2>3. QED
    BY <2>1, <2>2 DEF Paired, First
<1>4. Paired(mQ') /\ (First(mQ', "up") => First(mQ, "up"))
  BY <1>1, <1>2, <1>3, PairedGrown DEF RestartInv
<1>5. /\ Has(mQ', "down") => Has(mQ, "down")
      /\ Has(mQ', "ssr") => Has(mQ, "ssr")
      /\ Has(mQ', "up") => Has(mQ, "up")
  <2>1. \A what \in {"ssr", "up", "down"} : what \notin K
    OBVIOUS
  <2>2. QED
    BY <2>1, GrewKeeps
<1>6. QED
  BY <1>4, <1>5 DEF RestartInv

LEMMA RestartTaken ==
  ASSUME Types, RestartInv, NEW h, Receive(h), Taken, h # "ssr",
         modem'.up = modem.up, count' = count,
         task'.at = "up" => h = "up" /\ modem'.fix = modem.fix,
         modem'.fix \in {modem.fix, NoFix} \/ modem.up
  PROVE  RestartInv'
<1>1. mQ \in Seq(Messages) /\ mQ # <<>> /\ mQ' = Tail(mQ) /\ Head(mQ).what = h
  BY TakenTypes DEF Taken
<1>2. Paired(mQ') /\ ~First(mQ', "up")
  BY <1>1, PairedTail DEF RestartInv
<1>3. \A what : Has(mQ', what) => Has(mQ, what)
  BY TakenKeeps
<1>4. task'.at = "up" => modem'.fix = NoFix /\ count.restarts > 0
  <2>1. mQ[1] = Head(mQ)
    BY <1>1, TailOf
  <2>2. h = "up" => Has(mQ, "up") /\ First(mQ, "up")
    BY <1>1, <2>1, TakenKeeps DEF First
  <2>3. QED
    BY <2>2 DEF RestartInv
<1>5. /\ Has(mQ', "down") => Has(mQ, "down")
      /\ Has(mQ', "ssr") => Has(mQ, "ssr")
      /\ Has(mQ', "up") => Has(mQ, "up")
  BY <1>3
<1>6. QED
  BY <1>2, <1>4, <1>5 DEF RestartInv

LEMMA RestartSsr == ASSUME Types, RestartInv, LocSsrMsg PROVE RestartInv'
<1>1. /\ Receive("ssr") /\ Taken /\ UNCHANGED <<task, count>> /\ task.at = "idle"
      /\ modem'.up = modem.up /\ modem'.fix = NoFix
  BY DEF LocSsrMsg, Receive, outside, Types, Modems
<1>2. mQ \in Seq(Messages) /\ mQ # <<>> /\ mQ' = Tail(mQ)
  BY <1>1, TakenTypes DEF Taken
<1>3. Paired(mQ')
  BY <1>2, PairedTail DEF RestartInv
<1>4. \A what : Has(mQ', what) => Has(mQ, what)
  BY <1>1, TakenKeeps
<1>5. /\ Has(mQ', "down") => Has(mQ, "down")
      /\ Has(mQ', "ssr") => Has(mQ, "ssr")
      /\ Has(mQ', "up") => Has(mQ, "up")
  BY <1>4
<1>6. QED
  BY <1>1, <1>3, <1>5 DEF RestartInv

LEMMA RestartEvents ==
  ASSUME Types, RestartInv
  PROVE  /\ handleEngineDownEvent => RestartInv'
         /\ handleEngineUpEvent => RestartInv'
<1>0. mQ \in Seq(Messages) /\ count.restarts \in Nat
  BY DEF Types, Counts
<1>1. ASSUME handleEngineDownEvent PROVE RestartInv'
  <2> DEFINE more == <<Msg("down")>>
  <2>1. mQ' = mQ \o more /\ task' = task
    BY <1>1 DEF handleEngineDownEvent, ModemPosts, sendMsg, post
  <2>2. Msg("down") \in Messages /\ Msg("down").what = "down"
    BY MessageTypes DEF Bare, Msg
  <2>3. more \in Seq(Messages) /\ Paired(more) /\ ~First(more, "up")
    BY <2>2 DEF Paired, First
  <2> HIDE DEF more
  <2>4. Paired(mQ') /\ (First(mQ', "up") => First(mQ, "up"))
    BY <1>0, <2>1, <2>3, PairedGrown DEF RestartInv
  <2>5. modem'.fix = NoFix /\ count'.restarts > 0
    <3>1. modem'.fix = NoFix
      BY <1>1 DEF handleEngineDownEvent, Types, Modems
    <3>2. count' = [count EXCEPT !.restarts = @ + 1] /\ count \in Counts
      BY <1>1 DEF handleEngineDownEvent, Types
    <3>3. count'.restarts = count.restarts + 1
      BY <3>2 DEF Counts
    <3>4. QED
      BY <1>0, <3>1, <3>3
  <2>6. QED
    BY <2>1, <2>4, <2>5 DEF RestartInv
<1>2. ASSUME handleEngineUpEvent PROVE RestartInv'
  <2> DEFINE more == <<Msg("ssr"), Msg("up")>>
  <2>1. mQ' = mQ \o more /\ task' = task
    BY <1>2 DEF handleEngineUpEvent, ModemPosts, sendMsg, post
  <2>2. /\ Msg("ssr") \in Messages /\ Msg("ssr").what = "ssr"
        /\ Msg("up") \in Messages /\ Msg("up").what = "up"
    BY MessageTypes DEF Bare, Msg
  <2>3. more \in Seq(Messages) /\ Paired(more) /\ ~First(more, "up")
    <3>1. more \in Seq(Messages) /\ Len(more) = 2 /\ more[1].what = "ssr" /\ more[2].what = "up"
      BY <2>2
    <3> HIDE DEF more
    <3>2. QED
      BY <3>1 DEF Paired, First
  <2> HIDE DEF more
  <2>4. Paired(mQ') /\ (First(mQ', "up") => First(mQ, "up"))
    BY <1>0, <2>1, <2>3, PairedGrown DEF RestartInv
  <2>5. modem'.fix = NoFix /\ count'.restarts > 0
    BY <1>2 DEF handleEngineUpEvent, RestartInv, Types, Modems
  <2>6. QED
    BY <2>1, <2>4, <2>5 DEF RestartInv
<1>3. QED
  BY <1>1, <1>2

\* the session that is started again
LEMMA RestartUp == ASSUME Types, RestartInv, loc_eng_handle_engine_up PROVE RestartInv'
<1>1. Grew({"conf", "server"})
  <2>1. PostConf(<<>>) \/ PostConf(SetServer(supl_host))
    BY DEF loc_eng_handle_engine_up
  <2>2. task.at \in {"init", "up"} /\ supl_host \in Servers \cup {None}
    BY DEF loc_eng_handle_engine_up, Types
  <2>3. QED
    BY <2>1, <2>2, PostConfGrows
<1>2. /\ task'.at = "idle" /\ count' = count /\ task.at = "up"
      /\ modem'.up = modem.up /\ (modem'.fix \in {modem.fix, NoFix} \/ modem.up)
  BY DEF loc_eng_handle_engine_up, PostConf, Quiescent, StartSession, Types, Modems
<1>3. PICK more \in Seq(Messages) : mQ' = mQ \o more /\ Kinds(more, {"conf", "server"})
  BY <1>1 DEF Grew
<1>4. mQ \in Seq(Messages)
  BY DEF Types
<1>5. Paired(more) /\ ~First(more, "up")
  <2>1. \A i \in 1 .. Len(more) : more[i].what \notin {"ssr", "up"}
    BY <1>3 DEF Kinds
  <2>2. more # <<>> => 1 \in 1 .. Len(more)
    BY EmptySeq, LenProperties
  <2>3. QED
    BY <2>1, <2>2 DEF Paired, First
<1>6. Paired(mQ') /\ ~First(mQ', "up")
  BY <1>2, <1>3, <1>4, <1>5, PairedGrown DEF RestartInv
<1>7. count'.restarts > 0
  BY <1>2 DEF RestartInv
<1>8. QED
  BY <1>2, <1>6, <1>7 DEF RestartInv

-----------------------------------------------------------------------------
(* All of these together.                                                  *)

QueueVars == <<engVars, undeleted, replaced, adapter, gps_conf, supl_host, agps, stale>>

LEMMA QueueGrows ==
  ASSUME Types, QueueInv, NEW K, Grew(K),
         K \cap {"status", "delete", "conf", "server", "ssr", "up", "down"} = {},
         UNCHANGED QueueVars, TaskKept, (hal.at = "post" => hal'.at = "post"),
         modem'.up = modem.up, modem'.told = modem.told, modem'.conf = modem.conf,
         modem'.server = modem.server, modem'.fix \in {modem.fix, NoFix},
         count'.restarts = count.restarts
  PROVE  QueueInv'
<1>1. /\ "status" \notin K /\ "delete" \notin K /\ "conf" \notin K /\ "server" \notin K
      /\ K \cap {"ssr", "up", "down"} = {}
  OBVIOUS
<1>2. RestartInv'
  BY <1>1, RestartGrows DEF QueueInv, TaskKept
<1>3. ConfInv' /\ ServerInv'
  BY <1>1, ConfGrows, ServerGrows DEF QueueInv, QueueVars
<1>4. MuteInv' /\ OnInv' /\ AidInv'
  BY <1>1, MuteGrows, OnGrows, AidGrows DEF QueueInv, QueueVars, engVars
<1>5. QED
  BY <1>2, <1>3, <1>4 DEF QueueInv

LEMMA QueueTaken ==
  ASSUME Types, QueueInv, NEW h, Receive(h), Taken,
         h \notin {"status", "delete", "conf", "server", "ssr", "up", "init", "down"},
         mute_session_state' \in {mute_session_state, "wait"},
         UNCHANGED <<engine_status, aiding_data_for_deletion, aidVars, adapter, gps_conf,
                     supl_host, agps, stale, hal, count>>, task'.at # "up",
         modem'.up = modem.up, modem'.told = modem.told, modem'.conf = modem.conf,
         modem'.server = modem.server, modem'.fix \in {modem.fix, NoFix} \/ modem.up
  PROVE  QueueInv'
<1>1. task.at = "idle"
  BY DEF Receive
<1>2. RestartInv'
  BY <1>1, RestartTaken DEF QueueInv
<1>3. ConfInv' /\ ServerInv'
  BY ConfTaken, ServerTaken DEF QueueInv
<1>4. MuteInv' /\ OnInv' /\ AidInv'
  BY MuteTaken, OnTaken, AidTaken DEF QueueInv, aidVars
<1>5. QED
  BY <1>2, <1>3, <1>4 DEF QueueInv

LEMMA QueueFramework == Types /\ QueueInv /\ Framework => QueueInv'
<1> SUFFICES ASSUME Types, QueueInv, Framework PROVE QueueInv'
  OBVIOUS
<1> USE DEF QueueInv
<1>1. ASSUME loc_init PROVE QueueInv'
  <2>1. /\ Grew({"init"}) /\ UNCHANGED <<engVars, aidVars, agps, task, modem, count>>
    BY <1>1, FrameworkGrows DEF loc_init
  <2>2. RestartInv'
    BY <2>1, RestartGrows
  <2>3. MuteInv' /\ OnInv' /\ AidInv'
    BY <2>1, MuteGrows, OnGrows, AidGrows DEF aidVars, engVars
  <2>4. QED
    BY <1>1, <2>2, <2>3, ConfFramework, ServerFramework
<1>2. ASSUME agps_init PROVE QueueInv'
  <2>1. /\ Grew({"server"})
        /\ UNCHANGED <<engVars, aidVars, adapter, hal, gps_conf, stale, task, modem, count>>
    BY <1>2, FrameworkGrows DEF agps_init, halVars
  <2>2. RestartInv' /\ ConfInv'
    BY <2>1, RestartGrows, ConfGrows DEF TaskKept
  <2>3. MuteInv' /\ OnInv' /\ AidInv'
    BY <2>1, MuteGrows, OnGrows, AidGrows DEF aidVars, engVars
  <2>4. QED
    BY <1>2, <2>2, <2>3, ServerFramework
<1>3. ASSUME loc_start \/ loc_stop PROVE QueueInv'
  <2>1. Grew({}) /\ UNCHANGED QueueVars /\ UNCHANGED <<task, modem>> /\ hal.at = "idle"
    BY <1>3, FrameworkGrows DEF loc_start, loc_stop, Hal, QueueVars, confVars, aidVars
  <2>2. count'.restarts = count.restarts
    <3>1. count' = count \/ count' = [count EXCEPT !.calls = @ + 1]
      BY <1>3 DEF loc_start, loc_stop
    <3>2. QED
      BY <3>1 DEF Types, Counts
  <2>3. QED
    BY <2>1, <2>2, QueueGrows DEF TaskKept
<1>e. ASSUME Event PROVE count'.restarts = count.restarts
  <2>1. count' = [count EXCEPT !.events = @ + 1] /\ count \in Counts
    BY <1>e DEF Event, Types
  <2>2. QED
    BY <2>1 DEF Counts
<1>5. ASSUME loc_cleanup PROVE QueueInv'
  <2>1. Grew({}) /\ UNCHANGED QueueVars /\ UNCHANGED <<task, modem>> /\ hal.at = "idle"
    BY <1>5, FrameworkGrows DEF loc_cleanup, Hal, QueueVars, confVars, aidVars
  <2>2. count'.restarts = count.restarts
    BY <1>5, <1>e DEF loc_cleanup
  <2>3. QED
    BY <2>1, <2>2, QueueGrows DEF TaskKept
<1>6. ASSUME NEW m \in LocModes, NEW r \in {"periodic", "single"}, loc_set_position_mode(m, r)
      PROVE  QueueInv'
  <2>1. Grew({}) /\ UNCHANGED QueueVars /\ UNCHANGED <<task, modem, count>> /\ hal.at = "idle"
    BY <1>6, FrameworkGrows DEF loc_set_position_mode, Hal, QueueVars, confVars, aidVars
  <2>2. QED
    BY <2>1, QueueGrows DEF TaskKept
<1>7. ASSUME NEW f \in AidingRequests, loc_delete_aiding_data(f) PROVE QueueInv'
  <2>1. /\ Grew({"delete"})
        /\ UNCHANGED <<engVars, adapter, hal, gps_conf, supl_host, agps, stale, task, modem>>
    BY <1>7, FrameworkGrows DEF loc_delete_aiding_data, halVars, confVars
  <2>2. count'.restarts = count.restarts
    <3>1. count' = [count EXCEPT !.calls = @ + 1]
      BY <1>7 DEF loc_delete_aiding_data
    <3>2. QED
      BY <3>1 DEF Types, Counts
  <2>3. RestartInv' /\ ConfInv' /\ ServerInv'
    BY <2>1, <2>2, RestartGrows, ConfGrows, ServerGrows DEF TaskKept
  <2>4. MuteInv' /\ OnInv'
    BY <2>1, <2>2, MuteGrows, OnGrows DEF engVars
  <2>5. QED
    BY <1>7, <2>3, <2>4, AidAsked
<1>8. ASSUME NEW v \in Servers, loc_agps_set_server(v) PROVE QueueInv'
  <2>1. /\ Grew({"server"})
        /\ UNCHANGED <<engVars, aidVars, adapter, hal, gps_conf, agps, stale, task, modem>>
    BY <1>8, FrameworkGrows DEF loc_agps_set_server, halVars
  <2>2. count'.restarts = count.restarts
    BY <1>8, <1>e DEF loc_agps_set_server
  <2>3. RestartInv' /\ ConfInv'
    BY <2>1, <2>2, RestartGrows, ConfGrows DEF TaskKept
  <2>4. MuteInv' /\ OnInv' /\ AidInv'
    BY <2>1, <2>2, MuteGrows, OnGrows, AidGrows DEF aidVars, engVars
  <2>5. QED
    BY <1>8, <2>3, <2>4, ServerFramework
<1>9. ASSUME NEW v \in ConfValues, configuration_update(v) PROVE QueueInv'
  <2>1. /\ Grew({})
        /\ UNCHANGED <<engVars, aidVars, adapter, supl_host, agps, stale, task, modem>>
    BY <1>9, FrameworkGrows DEF configuration_update
  <2>2. count'.restarts = count.restarts
    BY <1>9, <1>e DEF configuration_update
  <2>3. RestartInv' /\ ServerInv'
    BY <2>1, <2>2, RestartGrows, ServerGrows DEF TaskKept
  <2>4. MuteInv' /\ OnInv' /\ AidInv'
    BY <2>1, <2>2, MuteGrows, OnGrows, AidGrows DEF aidVars, engVars
  <2>5. QED
    BY <1>9, <2>3, <2>4, ConfFramework
<1>10. QED
  BY <1>1, <1>2, <1>3, <1>5, <1>6, <1>7, <1>8, <1>9 DEF Framework

LEMMA QueueOthers ==
  ASSUME Types, QueueInv, HalSteps \/ requestUlp \/ ForwardInt \/ Modem \/ handleEngineUpEvent
  PROVE  QueueInv'
<1> USE DEF QueueInv
<1>e. ASSUME Event PROVE count'.restarts = count.restarts
  <2>1. count' = [count EXCEPT !.events = @ + 1] /\ count \in Counts
    BY <1>e DEF Event, Types
  <2>2. QED
    BY <2>1 DEF Counts
<1>1. ASSUME PostUpdate PROVE QueueInv'
  <2>1. /\ Grew({"conf"})
        /\ UNCHANGED <<engVars, aidVars, adapter, gps_conf, supl_host, agps, task, modem,
                       count>>
    BY <1>1, OthersGrow DEF PostUpdate
  <2>2. RestartInv' /\ ServerInv'
    BY <2>1, RestartGrows, ServerGrows DEF TaskKept
  <2>3. MuteInv' /\ OnInv' /\ AidInv'
    BY <2>1, MuteGrows, OnGrows, AidGrows DEF aidVars, engVars
  <2>4. QED
    BY <1>1, <2>2, <2>3, ConfOthers
<1>s. ASSUME SendCall PROVE QueueInv'
  <2>1. /\ Grew({"mode", "start", "stop"}) /\ UNCHANGED QueueVars /\ hal.at = "send"
        /\ UNCHANGED <<task, modem, count>>
    BY <1>s, OthersGrow DEF SendCall, QueueVars, confVars, aidVars
  <2>2. QED
    BY <2>1, QueueGrows DEF TaskKept
<1>2. ASSUME requestUlp PROVE QueueInv'
  <2>1. Grew({"ulp"}) /\ UNCHANGED QueueVars /\ UNCHANGED <<hal, task, modem>>
    BY <1>2, OthersGrow DEF requestUlp, QueueVars, confVars, aidVars
  <2>2. count'.restarts = count.restarts
    BY <1>2, <1>e DEF requestUlp
  <2>3. QED
    BY <2>1, <2>2, QueueGrows DEF TaskKept
<1>3. ASSUME ForwardInt PROVE QueueInv'
  <2>1. /\ Grew({"mode", "start", "stop"}) /\ UNCHANGED QueueVars
        /\ UNCHANGED <<hal, task, modem, count>>
    BY <1>3, OthersGrow DEF ForwardInt, QueueVars, confVars, halVars, aidVars
  <2>2. QED
    BY <2>1, QueueGrows DEF TaskKept
<1> DEFINE Rests == UNCHANGED QueueVars /\ UNCHANGED <<hal, task>>
<1>p. ASSUME NEW msgs, ModemPosts(msgs) PROVE Rests
  BY <1>p DEF ModemPosts, QueueVars, halVars, confVars, aidVars
<1> HIDE DEF Rests
<1>4. ASSUME NEW r \in Reports, reportPosition(r) PROVE QueueInv'
  <2>1. Grew({"position"}) /\ Rests
    BY <1>4, <1>p, OthersGrow DEF reportPosition
  <2>2. count'.restarts = count.restarts
    <3>1. count' = [count EXCEPT !.reports = @ + 1] /\ count \in Counts
      BY <1>4 DEF reportPosition, Types
    <3>2. QED
      BY <3>1 DEF Counts
  <2>3. /\ modem'.up = modem.up /\ modem'.told = modem.told /\ modem'.conf = modem.conf
        /\ modem'.server = modem.server /\ modem'.fix \in {modem.fix, NoFix}
    BY <1>4 DEF reportPosition, Types, Modems
  <2>4. QED
    BY <2>1, <2>2, <2>3, QueueGrows DEF Rests, TaskKept
<1>5. ASSUME requestNiNotify PROVE QueueInv'
  <2>1. Grew({"ni"}) /\ Rests
    BY <1>5, <1>p, OthersGrow DEF requestNiNotify
  <2>2. count'.restarts = count.restarts
    BY <1>5, <1>e DEF requestNiNotify
  <2>3. /\ modem'.up = modem.up /\ modem'.told = modem.told /\ modem'.conf = modem.conf
        /\ modem'.server = modem.server /\ modem'.fix \in {modem.fix, NoFix}
    BY <1>5 DEF requestNiNotify, Types, Modems
  <2>4. QED
    BY <2>1, <2>2, <2>3, QueueGrows DEF Rests, TaskKept
<1>6. ASSUME NiEnds PROVE QueueInv'
  <2>1. Grew({}) /\ Rests /\ count' = count
    BY <1>6, <1>p, OthersGrow DEF NiEnds
  <2>2. /\ modem'.up = modem.up /\ modem'.told = modem.told /\ modem'.conf = modem.conf
        /\ modem'.server = modem.server /\ modem'.fix \in {modem.fix, NoFix}
    BY <1>6 DEF NiEnds, Types, Modems
  <2>3. QED
    BY <2>1, <2>2, QueueGrows DEF Rests, TaskKept
<1>7. ASSUME reportStatus PROVE QueueInv'
  <2>1. Grew({"status"}) /\ Rests /\ count' = count
    BY <1>7, <1>p, OthersGrow DEF reportStatus
  <2>2. /\ modem'.up = modem.up /\ modem'.conf = modem.conf
        /\ modem'.server = modem.server /\ modem'.fix = modem.fix
    BY <1>7 DEF reportStatus, Types, Modems
  <2>3. RestartInv' /\ ConfInv' /\ ServerInv'
    BY <2>1, <2>2, RestartGrows, ConfGrows, ServerGrows DEF TaskKept, Rests, QueueVars
  <2>4. AidInv'
    BY <2>1, AidGrows DEF Rests, QueueVars, aidVars, engVars
  <2>5. QED
    BY <1>7, <2>3, <2>4, MuteReported, OnReported
<1>8. ASSUME handleEngineDownEvent PROVE QueueInv'
  <2>1. Grew({"down"}) /\ Rests
    BY <1>8, <1>p, OthersGrow DEF handleEngineDownEvent
  <2>2. count'.restarts > 0
    <3>1. count' = [count EXCEPT !.restarts = @ + 1] /\ count \in Counts
      BY <1>8 DEF handleEngineDownEvent, Types
    <3>2. QED
      BY <3>1 DEF Counts
  <2>3. OnInv' /\ AidInv'
    BY <2>2 DEF OnInv, AidInv
  <2>4. QED
    BY <1>8, <2>3, RestartEvents, ConfOthers, ServerOthers, MuteWentDown
<1>9. ASSUME handleEngineUpEvent PROVE QueueInv'
  <2>1. Grew({"ssr", "up"}) /\ Rests /\ count' = count
    BY <1>9, <1>p, OthersGrow DEF handleEngineUpEvent
  <2>2. modem'.told = modem.told
    BY <1>9 DEF handleEngineUpEvent, Types, Modems
  <2>3. MuteInv' /\ OnInv' /\ AidInv'
    BY <2>1, <2>2, MuteGrows, OnGrows, AidGrows DEF aidVars, Rests, QueueVars, engVars
  <2>4. QED
    BY <1>9, <2>3, RestartEvents, ConfOthers, ServerOthers
<1>10. QED
  BY <1>1, <1>s, <1>2, <1>3, <1>4, <1>5, <1>6, <1>7, <1>8, <1>9 DEF Modem, HalSteps

LEMMA QueueMsgTask == Types /\ QueueInv /\ MsgTask => QueueInv'
<1> SUFFICES ASSUME Types, QueueInv, MsgTask PROVE QueueInv'
  OBVIOUS
<1> USE DEF QueueInv
<1> DEFINE Rests == UNCHANGED <<adapter, hal, gps_conf, supl_host, agps, stale, count>>
<1>o. UNCHANGED outside => Rests
  BY DEF outside, halVars, confVars
<1> HIDE DEF Rests
<1>1. ASSUME setUlpProxy PROVE QueueInv'
  <2>1. /\ Receive("ulp") /\ Taken /\ UNCHANGED <<engVars, aidVars, modem>>
        /\ UNCHANGED <<adapter, hal, gps_conf, supl_host, agps, stale, count>>
    BY <1>1 DEF setUlpProxy, halVars, confVars
  <2>2. task'.at # "up"
    <3>1. CASE mUlp.real
      BY <1>1, <2>1, <3>1 DEF setUlpProxy, Receive, ulpVars
    <3>2. CASE ~mUlp.real
      <4>1. task' = [at |-> "told mode", v |-> None]
        BY <1>1, <3>2 DEF setUlpProxy
      <4>2. QED
        BY <4>1
    <3>3. QED
      BY <3>1, <3>2
  <2>3. QED
    BY <2>1, <2>2, QueueTaken DEF engVars
<1>f. ASSUME setUlpProxyFix \/ setUlpProxyKept PROVE QueueInv'
  <2>1. mQ' = mQ /\ UNCHANGED QueueVars /\ UNCHANGED <<hal, modem, count>>
    <3>1. UNCHANGED <<halVars, mQ, confVars, count, modem, aidVars, engVars>>
      BY <1>f DEF setUlpProxyFix, setUlpProxyKept
    <3>2. QED
      BY <3>1 DEF halVars, confVars, QueueVars, aidVars
  <2>2. task.at \in {"told mode", "told fix"} /\ task'.at \in {"told fix", "idle"}
    <3>1. CASE setUlpProxyFix
      BY <3>1 DEF setUlpProxyFix
    <3>2. CASE setUlpProxyKept
      BY <3>2 DEF setUlpProxyKept, Quiescent
    <3>3. QED
      BY <1>f, <3>1, <3>2
  <2>3. Grew({}) /\ TaskKept
    BY <2>1, <2>2, GrewNone DEF TaskKept
  <2>4. QED
    BY <2>1, <2>3, QueueGrows
<1>2. ASSUME LocEngPositionMode PROVE QueueInv'
  <2>1. /\ Receive("mode") /\ Taken /\ UNCHANGED <<engVars, aidVars, task, modem>> /\ Rests
    BY <1>2, <1>o DEF LocEngPositionMode
  <2>2. QED
    BY <2>1, QueueTaken DEF engVars, Rests, Receive
<1>3. ASSUME loc_eng_start_handler PROVE QueueInv'
  <2>1. /\ Receive("start") /\ Taken /\ UNCHANGED <<engVars, aidVars, task>> /\ Rests
    BY <1>3, <1>o DEF loc_eng_start_handler
  <2>2. /\ modem'.up = modem.up /\ modem'.told = modem.told /\ modem'.conf = modem.conf
        /\ modem'.server = modem.server /\ (modem'.fix \in {modem.fix, NoFix} \/ modem.up)
    BY <1>3 DEF loc_eng_start_handler, StartSession, Types, Modems
  <2>3. QED
    BY <2>1, <2>2, QueueTaken DEF engVars, Rests, Receive
<1>4. ASSUME loc_eng_stop_handler PROVE QueueInv'
  <2>1. /\ Receive("stop") /\ Taken /\ UNCHANGED <<engVars, aidVars, task>> /\ Rests
    BY <1>4, <1>o DEF loc_eng_stop_handler
  <2>2. /\ modem'.up = modem.up /\ modem'.told = modem.told /\ modem'.conf = modem.conf
        /\ modem'.server = modem.server /\ modem'.fix \in {modem.fix, NoFix}
    BY <1>4 DEF loc_eng_stop_handler, Types, Modems
  <2>3. QED
    BY <2>1, <2>2, QueueTaken DEF engVars, Rests, Receive
<1>5. ASSUME LocEngReportPosition PROVE QueueInv'
  <2>1. /\ Receive("position") /\ Taken /\ UNCHANGED <<engVars, aidVars, task>> /\ Rests
    BY <1>5, <1>o DEF LocEngReportPosition
  <2>2. modem' = modem \/ modem' = [modem EXCEPT !.fix = NoFix]
                       \/ modem' = [modem EXCEPT !.fix = @]
    BY <1>5 DEF LocEngReportPosition
  <2>3. /\ modem'.up = modem.up /\ modem'.told = modem.told /\ modem'.conf = modem.conf
        /\ modem'.server = modem.server /\ modem'.fix \in {modem.fix, NoFix}
    BY <2>2 DEF Types, Modems
  <2>4. QED
    BY <2>1, <2>3, QueueTaken DEF engVars, Rests, Receive
<1>6. ASSUME loc_eng_mute_one_session PROVE QueueInv'
  <2>1. /\ Receive("ni") /\ Taken /\ mute_session_state' = "wait" /\ Rests
        /\ UNCHANGED <<engine_status, aiding_data_for_deletion, aidVars, task, modem>>
    BY <1>6, <1>o DEF loc_eng_mute_one_session
  <2>2. QED
    BY <2>1, QueueTaken DEF Rests, Receive
<1>7. ASSUME LocEngDelAidData PROVE QueueInv'
  <2>1. /\ Receive("delete") /\ Taken /\ Rests
        /\ UNCHANGED <<mute_session_state, engine_status, task, modem>>
    BY <1>7, <1>o DEF LocEngDelAidData
  <2>2. RestartInv' /\ ConfInv' /\ ServerInv'
    BY <2>1, RestartTaken, ConfTaken, ServerTaken DEF Rests, Receive
  <2>3. MuteInv' /\ OnInv'
    BY <2>1, MuteTaken, OnTaken DEF Rests
  <2>4. QED
    BY <1>7, <2>2, <2>3, AidDeleted
<1>8. ASSUME LocEngReportStatus PROVE QueueInv'
  <2>1. Receive("status") /\ Taken /\ Rests /\ UNCHANGED <<task, modem>>
    BY <1>8, <1>o DEF LocEngReportStatus
  <2>2. RestartInv' /\ ConfInv' /\ ServerInv'
    BY <2>1, RestartTaken, ConfTaken, ServerTaken DEF Rests, Receive
  <2>3. QED
    BY <1>8, <2>2, MuteTold, OnTold, AidTold
<1>9. ASSUME LocEngConfigure PROVE QueueInv'
  <2>1. Receive("conf") /\ Taken /\ Rests /\ UNCHANGED <<engVars, aidVars, task>>
    BY <1>9, <1>o DEF LocEngConfigure
  <2>2. /\ modem'.up = modem.up /\ modem'.told = modem.told /\ modem'.server = modem.server
        /\ modem'.fix = modem.fix
    BY <1>9 DEF LocEngConfigure, Types, Modems
  <2>3. RestartInv' /\ ServerInv'
    BY <2>1, <2>2, RestartTaken, ServerTaken DEF Rests, Receive
  <2>4. MuteInv' /\ OnInv' /\ AidInv'
    BY <2>1, <2>2, MuteTaken, OnTaken, AidTaken DEF aidVars, Rests, engVars
  <2>5. QED
    BY <1>9, <2>3, <2>4, ConfSet
<1>10. ASSUME LocEngSetServer PROVE QueueInv'
  <2>1. Receive("server") /\ Taken /\ Rests /\ UNCHANGED <<engVars, aidVars, task>>
    BY <1>10, <1>o DEF LocEngSetServer
  <2>2. /\ modem'.up = modem.up /\ modem'.told = modem.told /\ modem'.conf = modem.conf
        /\ modem'.fix = modem.fix
    BY <1>10 DEF LocEngSetServer, Types, Modems
  <2>3. RestartInv' /\ ConfInv'
    BY <2>1, <2>2, RestartTaken, ConfTaken DEF Rests, Receive
  <2>4. MuteInv' /\ OnInv' /\ AidInv'
    BY <2>1, <2>2, MuteTaken, OnTaken, AidTaken DEF aidVars, Rests, engVars
  <2>5. QED
    BY <1>10, <2>3, <2>4, ServerSet
<1>11. ASSUME loc_eng_handle_engine_down PROVE QueueInv'
  <2>1. Receive("down") /\ Taken /\ Rests /\ UNCHANGED <<aidVars, task, modem>>
    BY <1>11, <1>o DEF loc_eng_handle_engine_down
  <2>2. RestartInv' /\ ConfInv' /\ ServerInv'
    BY <2>1, RestartTaken, ConfTaken, ServerTaken DEF Rests, Receive
  <2>3. count'.restarts > 0
    <3>1. Has(mQ, "down")
      BY <2>1, TakenKeeps
    <3>2. QED
      BY <2>1, <3>1 DEF RestartInv, Rests
  <2>4. OnInv' /\ AidInv'
    BY <2>3 DEF OnInv, AidInv
  <2>5. QED
    BY <1>11, <2>2, <2>4, MuteDown
<1>12. ASSUME LocSsrMsg PROVE QueueInv'
  <2>1. Receive("ssr") /\ Taken /\ Rests /\ UNCHANGED <<engVars, aidVars, task>>
    BY <1>12, <1>o DEF LocSsrMsg
  <2>2. /\ modem'.up = modem.up /\ modem'.told = modem.told /\ modem'.conf = modem.conf
        /\ modem'.server = modem.server
    BY <1>12 DEF LocSsrMsg, Types, Modems
  <2>3. ConfInv' /\ ServerInv'
    BY <2>1, <2>2, ConfTaken, ServerTaken DEF Rests
  <2>4. MuteInv' /\ OnInv' /\ AidInv'
    BY <2>1, <2>2, MuteTaken, OnTaken, AidTaken DEF aidVars, Rests, engVars
  <2>5. QED
    BY <1>12, <2>3, <2>4, RestartSsr
<1>13. ASSUME loc_eng_reinit PROVE QueueInv'
  <2>1. PICK h \in {"init", "up"} : Receive(h)
    BY <1>13 DEF loc_eng_reinit
  <2>2. Taken /\ Rests /\ UNCHANGED <<engVars, aidVars, modem>> /\ task'.at = h
    BY <1>13, <1>o, <2>1 DEF loc_eng_reinit, Receive
  <2>3. RestartInv'
    BY <2>1, <2>2, RestartTaken DEF Rests
  <2>4. MuteInv' /\ OnInv' /\ AidInv'
    BY <2>1, <2>2, MuteTaken, OnTaken, AidTaken DEF aidVars, Rests, engVars
  <2>5. QED
    BY <1>13, <2>3, <2>4, ConfOthers, ServerOthers
<1>14. ASSUME LocEngInit PROVE QueueInv'
  <2>1. PostConf(<<>>) /\ task.at \in {"init", "up"} /\ UNCHANGED <<engVars, aidVars, modem,
                                                                    count>>
    BY <1>14 DEF LocEngInit
  <2>2. Grew({"conf", "server"}) /\ task'.at = "idle"
    BY <2>1, PostConfGrows DEF PostConf, Quiescent
  <2>3. RestartInv'
    BY <2>1, <2>2, RestartGrows
  <2>4. MuteInv' /\ OnInv' /\ AidInv'
    BY <2>1, <2>2, MuteGrows, OnGrows, AidGrows DEF aidVars, engVars
  <2>5. QED
    BY <1>14, <2>3, <2>4, ConfOthers, ServerOthers
<1>15. ASSUME loc_eng_handle_engine_up PROVE QueueInv'
  <2>1. /\ PostConf(<<>>) \/ PostConf(SetServer(supl_host))
        /\ task.at \in {"init", "up"} /\ UNCHANGED <<engVars, aidVars, count>>
    BY <1>15 DEF loc_eng_handle_engine_up
  <2>2. Grew({"conf", "server"})
    BY <2>1, PostConfGrows DEF Types
  <2>3. modem'.told = modem.told
    BY <1>15 DEF loc_eng_handle_engine_up, StartSession, Types, Modems
  <2>4. MuteInv' /\ OnInv' /\ AidInv'
    BY <2>1, <2>2, <2>3, MuteGrows, OnGrows, AidGrows DEF aidVars, engVars
  <2>5. QED
    BY <1>15, <2>4, RestartUp, ConfOthers, ServerOthers
<1>16. QED
  BY <1>1, <1>f, <1>2, <1>3, <1>4, <1>5, <1>6, <1>7, <1>8, <1>9, <1>10, <1>11, <1>12, <1>13,
     <1>14, <1>15 DEF MsgTask

LEMMA QueueInit == Init => QueueInv
<1> SUFFICES ASSUME Init PROVE QueueInv
  OBVIOUS
<1>1. mQ = <<>> /\ Len(mQ) = 0 /\ modem.up /\ modem.fix = NoFix /\ task.at = "idle"
      /\ ~adapter /\ mute_session_state = "none" /\ engine_status = "none" /\ undeleted = {}
      /\ aiding_data_for_deletion = {}
  BY DEF Init, Quiescent
<1>2. \A what : ~Has(mQ, what)
  BY <1>1 DEF Has
<1>3. \A what, G : LastIn(mQ, what, G)
  BY <1>1 DEF LastIn
<1>4. \A A, B : Followed(mQ, A, B)
  BY <1>1 DEF Followed
<1>5. RestartInv
  BY <1>1, <1>2 DEF RestartInv, Paired, First
<1>6. ConfInv /\ ServerInv
  BY <1>1 DEF ConfInv, ServerInv
<1>7. MuteInv /\ OnInv /\ AidInv
  BY <1>1, <1>3, <1>4 DEF MuteInv, OnInv, AidInv
<1>8. QED
  BY <1>5, <1>6, <1>7 DEF QueueInv

LEMMA QueueHolds == Spec => [](Types /\ QueueInv)
<1>1. Types /\ QueueInv /\ [Next]_vars => QueueInv'
  <2>1. ASSUME Types, QueueInv, UNCHANGED vars PROVE QueueInv'
    <3>1. /\ Grew({})
          /\ UNCHANGED QueueVars /\ UNCHANGED <<hal, modem, count>> /\ TaskKept
      BY <2>1, GrewNone DEF vars, QueueVars, engVars, TaskKept
    <3>2. QED
      BY <2>1, <3>1, QueueGrows
  <2>2. QED
    BY <2>1, QueueFramework, QueueOthers, QueueMsgTask DEF Next
<1>2. QED
  BY <1>1, QueueInit, TypesHold, PTL DEF Spec

LEMMA NothingHeld == ASSUME NEW q, Len(q) = 0, NEW B PROVE ~Holds(q, B)
BY DEF Holds

\* "Mutes one session": the theorem behind MuteEnds.  Muting ends with the
\* session, or the message that ends it is still in the queue.
THEOREM MuteAlwaysEnds == Spec => []MuteEnds
<1>1. Types /\ QueueInv => MuteEnds
  <2> SUFFICES ASSUME Types, MuteInv, Settled, ~active, mute_session_state = "in session"
               PROVE  FALSE
    BY DEF MuteEnds, QueueInv
  <2>1. ~modem.told /\ mQ = <<>> /\ Len(mQ) = 0
    BY DEF Settled, Types, Modems
  <2>2. ~Holds(mQ, Ends)
    BY <2>1, NothingHeld
  <2>3. QED
    BY <2>1, <2>2, Zenon DEF MuteInv
<1>2. QED
  BY <1>1, QueueHolds, PTL

\* "If the GPS engine is off, the aiding data will be deleted.  Otherwise, the
\* actual action will happen when gps engine is turned off": loc_eng.cpp keeps
\* what it owes in aiding_data_for_deletion or in the queue, but for what a later
\* request put out of the former.
THEOREM AidingAlwaysDeleted == Spec => []AidingDeleted
<1>1. Types /\ QueueInv => AidingDeleted
  <2> SUFFICES ASSUME Types, OnInv, AidInv, Settled, ~active, count.restarts = 0,
                      NEW t \in undeleted \ replaced
               PROVE  FALSE
    BY DEF AidingDeleted, QueueInv
  <2>1. ~modem.told /\ mQ = <<>> /\ Len(mQ) = 0
    BY DEF Settled, Types, Modems
  <2>2. ~Holds(mQ, Asking(t)) /\ ~Holds(mQ, Statuses({"off"}))
    BY <2>1, NothingHeld
  <2>3. engine_status = "on"
    BY <2>2 DEF AidInv
  <2>4. QED
    BY <2>1, <2>2, <2>3 DEF OnInv
<1>2. QED
  BY <1>1, QueueHolds, PTL

LEMMA SpellsNone == Spells(<<>>, <<>>)
<1> DEFINE f == [i \in 1 .. 0 |-> 1]
<1>1. f \in [1 .. Len(<<>>) -> 1 .. Len(<<>>)] /\ 1 .. Len(<<>>) = {}
  OBVIOUS
<1>2. Reads(<<>>, <<>>, f)
  BY <1>1 DEF Reads
<1>3. QED
  BY <1>2 DEF Spells

LEMMA SpellsEmpty ==
  ASSUME NEW q, Len(q) = 0, NEW c \in Seq(Commands), Spells(q, c) PROVE c = <<>>
<1>1. PICK f : Reads(q, c, f)
  BY DEF Spells
<1>2. Len(c) \in Nat /\ (c # <<>> <=> Len(c) > 0)
  BY SomeLeft
<1>3. CASE Len(c) > 0
  <2>1. 1 \in 1 .. Len(c) /\ f[1] \in 1 .. 0
    BY <1>1, <1>2, <1>3 DEF Reads
  <2>2. QED
    BY <2>1
<1>4. QED
  BY <1>2, <1>3

LEMMA SpellsGrown ==
  ASSUME NEW q \in Seq(Messages), NEW more \in Seq(Messages), NEW c \in Seq(Commands),
         Spells(q, c), \A i \in 1 .. Len(more) : more[i] \notin Commands
  PROVE  Spells(q \o more, c)
<1>1. PICK f : Reads(q, c, f)
  BY DEF Spells
<1>2. /\ Len(q) \in Nat /\ Len(more) \in Nat /\ Len(q \o more) = Len(q) + Len(more)
      /\ \A i \in 1 .. Len(q) : (q \o more)[i] = q[i]
      /\ \A i \in 1 .. Len(more) : (q \o more)[Len(q) + i] = more[i]
      /\ \A i \in 1 .. Len(q \o more) :
           i \in 1 .. Len(q) \/ \E k \in 1 .. Len(more) : i = Len(q) + k
  <2>1. Len(q) \in Nat /\ Len(more) \in Nat /\ Len(q \o more) = Len(q) + Len(more)
    BY Grown
  <2>2. \A i \in 1 .. Len(q) : (q \o more)[i] = q[i]
    BY Grown
  <2>3. \A i \in 1 .. Len(more) : (q \o more)[Len(q) + i] = more[i]
    BY Grown
  <2>4. ASSUME NEW i \in 1 .. Len(q \o more)
        PROVE  i \in 1 .. Len(q) \/ \E k \in 1 .. Len(more) : i = Len(q) + k
    BY Grown
  <2>5. QED
    BY <2>1, <2>2, <2>3, <2>4
<1>3. f \in [1 .. Len(c) -> 1 .. Len(q \o more)]
  <2>1. 1 .. Len(q) \subseteq 1 .. Len(q \o more)
    BY <1>2
  <2>2. QED
    BY <1>1, <2>1 DEF Reads
<1>4. \A i \in 1 .. Len(c) : (q \o more)[f[i]] = c[i]
  BY <1>1, <1>2 DEF Reads
<1>5. ASSUME NEW k \in 1 .. Len(q \o more), (q \o more)[k] \in Commands
      PROVE  \E i \in 1 .. Len(c) : f[i] = k
  <2>1. k \in 1 .. Len(q) /\ q[k] \in Commands
    BY <1>2, <1>5
  <2>2. QED
    BY <1>1, <2>1 DEF Reads
<1>6. Reads(q \o more, c, f)
  BY <1>1, <1>3, <1>4, <1>5 DEF Reads
<1>7. QED
  BY <1>6 DEF Spells

LEMMA SpellsCommand ==
  ASSUME NEW q \in Seq(Messages), NEW c \in Seq(Commands), Spells(q, c), NEW m \in Commands
  PROVE  Spells(q \o <<m>>, Append(c, m))
<1>1. PICK f : Reads(q, c, f)
  BY DEF Spells
<1>2. m \in Messages /\ <<m>> \in Seq(Messages) /\ Len(<<m>>) = 1 /\ <<m>>[1] = m
  BY MessageTypes
<1> DEFINE r == q \o <<m>>
           n == Len(q) + 1
<1>3. /\ Len(q) \in Nat /\ Len(r) = n /\ r[n] = m
      /\ \A i \in 1 .. Len(q) : r[i] = q[i]
  BY <1>2, Grown
<1>4. /\ Len(c) \in Nat /\ Len(Append(c, m)) = Len(c) + 1
      /\ \A i \in 1 .. Len(c) : Append(c, m)[i] = c[i]
      /\ Append(c, m)[Len(c) + 1] = m
  BY AppendProperties, LenProperties
<1> DEFINE d == Append(c, m)
           g == [i \in 1 .. Len(d) |-> IF i = Len(c) + 1 THEN n ELSE f[i]]
<1> HIDE DEF r, d
<1>5. \A i \in 1 .. Len(c) : f[i] \in 1 .. Len(q) /\ q[f[i]] = c[i]
  BY <1>1 DEF Reads
<1>6. \A i \in 1 .. Len(d) : i \in 1 .. Len(c) \/ i = Len(c) + 1
  BY <1>4 DEF d
<1>7. /\ \A i \in 1 .. Len(c) : i \in 1 .. Len(d) /\ i # Len(c) + 1 /\ g[i] = f[i]
      /\ Len(c) + 1 \in 1 .. Len(d) /\ g[Len(c) + 1] = n
  BY <1>4 DEF d
<1>8. g \in [1 .. Len(d) -> 1 .. Len(r)]
  <2>1. \A i \in 1 .. Len(c) : g[i] \in 1 .. Len(r)
    BY <1>3, <1>5, <1>7
  <2>2. g[Len(c) + 1] \in 1 .. Len(r)
    BY <1>3, <1>7
  <2>3. \A i \in 1 .. Len(d) : g[i] \in 1 .. Len(r)
    BY <2>1, <2>2, <1>6
  <2>4. QED
    BY <2>3
<1> HIDE DEF g
<1>9. \A i \in 1 .. Len(d) : r[g[i]] = d[i]
  <2>1. ASSUME NEW i \in 1 .. Len(c) PROVE r[g[i]] = d[i]
    <3>1. g[i] = f[i] /\ f[i] \in 1 .. Len(q) /\ q[f[i]] = c[i]
      BY <1>5, <1>7
    <3>2. r[f[i]] = q[f[i]]
      BY <1>3, <3>1
    <3>3. d[i] = c[i]
      BY <1>4 DEF d
    <3>4. QED
      BY <3>1, <3>2, <3>3
  <2>2. QED
    BY <1>3, <1>4, <1>6, <1>7, <2>1 DEF d
<1>10. ASSUME NEW i \in 1 .. Len(d), NEW j \in 1 .. Len(d), i < j PROVE g[i] < g[j]
  <2>1. i \in 1 .. Len(c)
    BY <1>4, <1>6, <1>10
  <2>2. g[i] = f[i] /\ f[i] \in 1 .. Len(q)
    BY <1>5, <1>7, <2>1
  <2>3. CASE j = Len(c) + 1
    BY <1>3, <1>7, <2>2, <2>3
  <2>4. CASE j \in 1 .. Len(c)
    <3>1. f[i] < f[j]
      BY <1>1, <1>10, <2>1, <2>4 DEF Reads
    <3>2. QED
      BY <1>7, <2>2, <2>4, <3>1
  <2>5. QED
    BY <1>6, <2>3, <2>4
<1>11. ASSUME NEW k \in 1 .. Len(r), r[k] \in Commands
       PROVE  \E i \in 1 .. Len(d) : g[i] = k
  <2>1. CASE k = n
    BY <1>7, <2>1
  <2>2. CASE k \in 1 .. Len(q)
    <3>1. q[k] \in Commands
      BY <1>3, <1>11, <2>2
    <3>2. PICK i \in 1 .. Len(c) : f[i] = k
      BY <1>1, <2>2, <3>1 DEF Reads
    <3>3. QED
      BY <1>7, <3>2
  <2>3. k = n \/ k \in 1 .. Len(q)
    BY <1>3
  <2>4. QED
    BY <2>1, <2>2, <2>3
<1>12. Reads(r, d, g)
  BY <1>8, <1>9, <1>10, <1>11 DEF Reads
<1>13. QED
  BY <1>12 DEF Spells, r, d

LEMMA SpellsTaken ==
  ASSUME NEW q \in Seq(Messages), q # <<>>, NEW c \in Seq(Commands), Spells(q, c)
  PROVE  /\ Head(q) \notin Commands => Spells(Tail(q), c)
         /\ Head(q) \in Commands => /\ c # <<>> /\ Head(c) = Head(q)
                                    /\ Spells(Tail(q), Tail(c))
<1>1. PICK f : Reads(q, c, f)
  BY DEF Spells
<1> DEFINE r == Tail(q)
<1>2. /\ Len(q) \in Nat \ {0} /\ Len(r) = Len(q) - 1 /\ Head(q) = q[1]
      /\ \A i \in 1 .. Len(q) - 1 : r[i] = q[i + 1]
  BY TailOf
<1> HIDE DEF r
<1>3. \A i \in 1 .. Len(c) : f[i] \in 1 .. Len(q) /\ q[f[i]] = c[i] /\ c[i] \in Commands
  BY <1>1, ElementOfSeq DEF Reads
<1>4. Len(c) \in Nat /\ (c # <<>> <=> Len(c) > 0)
  BY SomeLeft
<1>5. \A x \in 1 .. Len(q) : x # 1 => x - 1 \in 1 .. Len(r) /\ r[x - 1] = q[x]
  <2>1. ASSUME NEW x \in 1 .. Len(q), x # 1 PROVE x - 1 \in 1 .. Len(r) /\ r[x - 1] = q[x]
    <3>1. x - 1 \in 1 .. Len(q) - 1 /\ (x - 1) + 1 = x
      BY <1>2, <2>1
    <3>2. QED
      BY <1>2, <3>1
  <2>2. QED
    BY <2>1
<1>6. \A k \in 1 .. Len(r) : k + 1 \in 1 .. Len(q) /\ r[k] = q[k + 1] /\ k + 1 # 1 /\ k \in Int
  BY <1>2
<1>7. ASSUME Head(q) \notin Commands PROVE Spells(r, c)
  <2> DEFINE g == [i \in 1 .. Len(c) |-> f[i] - 1]
  <2>1. \A i \in 1 .. Len(c) : f[i] # 1
    BY <1>2, <1>3, <1>7
  <2>2. \A i \in 1 .. Len(c) : g[i] = f[i] - 1 /\ g[i] \in 1 .. Len(r) /\ r[g[i]] = c[i]
    BY <1>3, <1>5, <2>1
  <2>3. g \in [1 .. Len(c) -> 1 .. Len(r)]
    BY <2>2
  <2>4. ASSUME NEW i \in 1 .. Len(c), NEW j \in 1 .. Len(c), i < j PROVE g[i] < g[j]
    <3>1. f[i] < f[j] /\ f[i] \in Int /\ f[j] \in Int
      BY <1>1, <1>3, <2>4 DEF Reads
    <3>2. QED
      BY <2>2, <3>1
  <2>5. ASSUME NEW k \in 1 .. Len(r), r[k] \in Commands PROVE \E i \in 1 .. Len(c) : g[i] = k
    <3>1. PICK i \in 1 .. Len(c) : f[i] = k + 1
      BY <1>1, <1>6, <2>5 DEF Reads
    <3>2. g[i] = k
      BY <1>6, <2>2, <3>1
    <3>3. QED
      BY <3>2
  <2> HIDE DEF g
  <2>6. Reads(r, c, g)
    BY <2>2, <2>3, <2>4, <2>5 DEF Reads
  <2>7. QED
    BY <2>6 DEF Spells
<1>8. ASSUME Head(q) \in Commands
      PROVE  c # <<>> /\ Head(c) = Head(q) /\ Spells(r, Tail(c))
  <2>1. PICK a \in 1 .. Len(c) : f[a] = 1
    <3>1. 1 \in 1 .. Len(q) /\ q[1] \in Commands
      BY <1>2, <1>8
    <3>2. QED
      BY <1>1, <3>1 DEF Reads
  <2>2. c # <<>> /\ 1 \in 1 .. Len(c)
    BY <1>4, <2>1
  <2>3. \A i \in 1 .. Len(c) : i # 1 => f[i] # 1
    <3>1. \A i \in 1 .. Len(c) : i # 1 => f[1] < f[i]
      BY <1>1, <1>4, <2>2 DEF Reads
    <3>2. f[1] \in 1 .. Len(q)
      BY <1>3, <2>2
    <3>3. QED
      BY <1>3, <3>1, <3>2
  <2>4. f[1] = 1
    BY <2>1, <2>3
  <2> DEFINE d == Tail(c)
             g == [i \in 1 .. Len(d) |-> f[i + 1] - 1]
  <2>5. /\ Len(d) = Len(c) - 1 /\ Head(c) = c[1]
        /\ \A i \in 1 .. Len(c) - 1 : d[i] = c[i + 1]
    BY <2>2, TailOf
  <2>6. Head(c) = Head(q)
    BY <1>2, <1>3, <2>2, <2>4, <2>5
  <2> HIDE DEF d
  <2>7. \A i \in 1 .. Len(d) : i + 1 \in 1 .. Len(c) /\ i + 1 # 1 /\ d[i] = c[i + 1]
    BY <1>4, <2>5
  <2>8. \A i \in 1 .. Len(d) : g[i] = f[i + 1] - 1 /\ g[i] \in 1 .. Len(r) /\ r[g[i]] = d[i]
    <3>1. SUFFICES ASSUME NEW i \in 1 .. Len(d)
                  PROVE  g[i] = f[i + 1] - 1 /\ g[i] \in 1 .. Len(r) /\ r[g[i]] = d[i]
      OBVIOUS
    <3>2. i + 1 \in 1 .. Len(c) /\ f[i + 1] # 1 /\ d[i] = c[i + 1]
      BY <2>3, <2>7
    <3>3. g[i] = f[i + 1] - 1
      OBVIOUS
    <3> HIDE DEF g
    <3>4. QED
      BY <1>3, <1>5, <3>2, <3>3
  <2>9. g \in [1 .. Len(d) -> 1 .. Len(r)]
    BY <2>8
  <2>10. ASSUME NEW i \in 1 .. Len(d), NEW j \in 1 .. Len(d), i < j PROVE g[i] < g[j]
    <3>1. /\ i + 1 \in 1 .. Len(c) /\ j + 1 \in 1 .. Len(c) /\ i + 1 < j + 1
      BY <2>7, <2>10
    <3>2. f[i + 1] < f[j + 1] /\ f[i + 1] \in Int /\ f[j + 1] \in Int
      BY <1>1, <1>3, <3>1 DEF Reads
    <3>3. QED
      BY <2>8, <3>2
  <2>11. ASSUME NEW k \in 1 .. Len(r), r[k] \in Commands PROVE \E i \in 1 .. Len(d) : g[i] = k
    <3>1. PICK i \in 1 .. Len(c) : f[i] = k + 1
      BY <1>1, <1>6, <2>11 DEF Reads
    <3>2. i # 1
      BY <1>6, <2>4, <3>1
    <3>3. i - 1 \in 1 .. Len(d) /\ (i - 1) + 1 = i
      BY <1>4, <2>5, <3>2
    <3>4. g[i - 1] = k
      BY <1>6, <2>8, <3>1, <3>3
    <3>5. QED
      BY <3>3, <3>4
  <2> HIDE DEF g
  <2>12. Reads(r, d, g)
    BY <2>8, <2>9, <2>10, <2>11 DEF Reads
  <2>13. QED
    BY <2>2, <2>6, <2>12 DEF Spells, d
<1>9. QED
  BY <1>7, <1>8 DEF r

-----------------------------------------------------------------------------
(* A command is added.                                                     *)

LEMMA Added ==
  ASSUME NEW s \in Seq(Commands), NEW m \in Commands
  PROVE  /\ Len(s) \in Nat /\ Len(Append(s, m)) = Len(s) + 1 /\ Append(s, m) \in Seq(Commands)
         /\ \A i \in 1 .. Len(s) : Append(s, m)[i] = s[i]
         /\ Append(s, m)[Len(s) + 1] = m /\ Append(s, m) # <<>>
         /\ \A i \in 1 .. Len(s) : i \in 1 .. Len(Append(s, m))
         /\ \A i \in 1 .. Len(Append(s, m)) : i \in 1 .. Len(s) \/ i = Len(s) + 1
         /\ (s # <<>> <=> Len(s) > 0)
<1>1. /\ Len(s) \in Nat /\ Len(Append(s, m)) = Len(s) + 1 /\ Append(s, m) \in Seq(Commands)
      /\ \A i \in 1 .. Len(s) : Append(s, m)[i] = s[i]
      /\ Append(s, m)[Len(s) + 1] = m /\ Append(s, m) # <<>>
  BY AppendProperties, LenProperties
<1>2. (s # <<>> <=> Len(s) > 0)
  BY SomeLeft
<1>3. QED
  BY <1>1, <1>2

\* whether there is a stop
LEMMA AddedStops ==
  ASSUME NEW s \in Seq(Commands), NEW m \in Commands
  PROVE  /\ \A i, j \in Nat : j =< Len(s) /\ i > 0 => (NoStop(Append(s, m), i, j) <=> NoStop(s, i, j))
         /\ \A i \in 1 .. Len(s) + 1 : NoStop(Append(s, m), i, Len(s) + 1)
                                         => m.what # "stop" /\ NoStop(s, i, Len(s))
<1> DEFINE t == Append(s, m)
<1>0. /\ Len(s) \in Nat /\ t[Len(s) + 1] = m
      /\ \A i \in 1 .. Len(s) : t[i] = s[i]
  BY Added
<1> HIDE DEF t
<1>1. ASSUME NEW i \in Nat, NEW j \in Nat, j =< Len(s), i > 0
      PROVE  NoStop(t, i, j) <=> NoStop(s, i, j)
  <2>1. \A k \in i .. j : t[k] = s[k]
    BY <1>0, <1>1
  <2>2. QED
    BY <2>1 DEF NoStop
<1>2. ASSUME NEW i \in 1 .. Len(s) + 1, NoStop(t, i, Len(s) + 1)
      PROVE  m.what # "stop" /\ NoStop(s, i, Len(s))
  <2>1. Len(s) + 1 \in i .. Len(s) + 1
    BY <1>0
  <2>2. m.what # "stop"
    BY <1>0, <1>2, <2>1 DEF NoStop
  <2>3. \A k \in i .. Len(s) : k \in i .. Len(s) + 1 /\ t[k] = s[k]
    BY <1>0
  <2>4. QED
    BY <1>2, <2>2, <2>3 DEF NoStop
<1>3. QED
  BY <1>1, <1>2 DEF t

\* the criteria a start takes are the same
LEMMA AddedGiven ==
  ASSUME NEW s \in Seq(Commands), NEW m \in Commands, NEW w
  PROVE  /\ \A i \in 1 .. Len(s) : Given(Append(s, m), i, w) = Given(s, i, w)
         /\ Given(Append(s, m), Len(s) + 1, w)
              = IF s = <<>> THEN w.criteria ELSE s[Len(s)].criteria
<1>0. /\ Len(s) \in Nat /\ (s # <<>> <=> Len(s) > 0)
      /\ \A i \in 1 .. Len(s) : Append(s, m)[i] = s[i]
  BY Added
<1>1. ASSUME NEW i \in 1 .. Len(s) PROVE Given(Append(s, m), i, w) = Given(s, i, w)
  <2>1. i # 1 => i - 1 \in 1 .. Len(s)
    OBVIOUS
  <2>2. QED
    BY <1>0, <2>1 DEF Given
<1>2. CASE s = <<>>
  BY <1>0, <1>1, <1>2 DEF Given
<1>3. CASE s # <<>>
  <2>1. Len(s) \in 1 .. Len(s) /\ Len(s) + 1 # 1 /\ (Len(s) + 1) - 1 = Len(s)
    BY <1>0, <1>3
  <2>2. QED
    BY <1>0, <1>1, <1>3, <2>1 DEF Given
<1>4. QED
  BY <1>2, <1>3

\* what was said about the modes
LEMMA AddedModes ==
  ASSUME NEW s \in Seq(Commands), NEW m \in Commands, NEW w, ModesSame(s, w),
         m.what = "mode" =>
           /\ \A i \in 1 .. Len(s) : s[i].what = "start" /\ NoStop(s, i + 1, Len(s)) =>
                m.criteria.recurrence = Given(s, i, w).recurrence
           /\ w.on /\ NoStop(s, 1, Len(s)) =>
                m.criteria.recurrence = w.criteria.recurrence
  PROVE  ModesSame(Append(s, m), w)
<1> DEFINE t == Append(s, m)
<1>0. /\ Len(s) \in Nat /\ Len(t) = Len(s) + 1 /\ t[Len(s) + 1] = m
      /\ \A i \in 1 .. Len(s) : t[i] = s[i]
      /\ \A i \in 1 .. Len(t) : i \in 1 .. Len(s) \/ i = Len(s) + 1
      /\ \A i \in 1 .. Len(s) : Given(t, i, w) = Given(s, i, w)
      /\ \A i, j \in Nat : j =< Len(s) /\ i > 0 => (NoStop(t, i, j) <=> NoStop(s, i, j))
  BY Added, AddedGiven, AddedStops
<1> HIDE DEF t
<1>1. ASSUME NEW j \in 1 .. Len(t), t[j].what = "mode", NEW i \in 1 .. j - 1,
             t[i].what = "start", NoStop(t, i + 1, j - 1)
      PROVE  t[j].criteria.recurrence = Given(t, i, w).recurrence
  <2>1. /\ i \in 1 .. Len(s) /\ j - 1 \in Nat /\ j - 1 =< Len(s) /\ i + 1 \in Nat
    BY <1>0
  <2>2. NoStop(s, i + 1, j - 1) /\ s[i].what = "start" /\ Given(t, i, w) = Given(s, i, w)
    BY <1>0, <1>1, <2>1
  <2>3. CASE j \in 1 .. Len(s)
    <3>1. t[j] = s[j]
      BY <1>0, <2>3
    <3>2. QED
      BY <1>1, <2>2, <2>3, <3>1 DEF ModesSame
  <2>4. CASE j = Len(s) + 1
    <3>1. t[j] = m /\ j - 1 = Len(s)
      BY <1>0, <2>4
    <3>2. QED
      BY <1>1, <2>1, <2>2, <3>1
  <2>5. QED
    BY <1>0, <2>3, <2>4
<1>2. ASSUME NEW j \in 1 .. Len(t), t[j].what = "mode", w.on, NoStop(t, 1, j - 1)
      PROVE  t[j].criteria.recurrence = w.criteria.recurrence
  <2>1. j - 1 \in Nat /\ j - 1 =< Len(s)
    BY <1>0
  <2>2. NoStop(s, 1, j - 1)
    BY <1>0, <1>2, <2>1
  <2>3. CASE j \in 1 .. Len(s)
    <3>1. t[j] = s[j]
      BY <1>0, <2>3
    <3>2. QED
      BY <1>2, <2>2, <2>3, <3>1 DEF ModesSame
  <2>4. CASE j = Len(s) + 1
    <3>1. t[j] = m /\ j - 1 = Len(s)
      BY <1>0, <2>4
    <3>2. QED
      BY <1>2, <2>2, <3>1
  <2>5. QED
    BY <1>0, <2>3, <2>4
<1>3. QED
  BY <1>1, <1>2 DEF ModesSame, t

\* a session that goes on has the recurrence asked for
LEMMA NavigatingNear ==
  ASSUME NEW s \in Seq(Commands), NEW a, NEW w, Orders(s, a, w), w.on, NoStop(s, 1, Len(s)),
         a.criteria # Unset
  PROVE  w.criteria.recurrence = a.criteria.recurrence
<1>0. Len(s) \in Nat /\ (s # <<>> <=> Len(s) > 0)
  BY SomeLeft
<1>1. CASE s = <<>>
  BY <1>1 DEF Orders, LastNear, Near
<1> DEFINE n == Len(s)
<1>2. CASE s # <<>> /\ s[n].what = "mode"
  <2>1. n \in 1 .. Len(s) /\ NoStop(s, 1, n - 1)
    BY <1>0, <1>2 DEF NoStop
  <2>2. s[n].criteria.recurrence = w.criteria.recurrence
    BY <1>2, <2>1 DEF Orders, ModesSame
  <2>3. s[n].criteria.recurrence = a.criteria.recurrence
    BY <1>2 DEF Orders, LastNear, Near
  <2>4. QED
    BY <2>2, <2>3
<1>3. CASE s # <<>> /\ s[n].what = "start"
  <2>1. n \in 1 .. Len(s) /\ NoStop(s, n + 1, Len(s))
    BY <1>0, <1>3 DEF NoStop
  <2>2. Given(s, n, w).recurrence = a.criteria.recurrence
    BY <1>3, <2>1 DEF Orders, StartsNear, Near
  <2>3. CASE n = 1
    BY <2>2, <2>3 DEF Given
  <2>4. CASE n # 1
    <3>b. \A x \in Nat : x > 0 /\ x # 1 => x \in 2 .. x /\ x - 1 \in 1 .. x
      OBVIOUS
    <3>0. n \in 2 .. Len(s) /\ n - 1 \in 1 .. Len(s)
      BY <1>0, <1>3, <2>4, <3>b, Zenon
    <3>a. \A k \in 1 .. (n - 1) - 1 : k \in 1 .. Len(s)
      BY <1>0
    <3>1. n \in 2 .. Len(s) /\ n - 1 \in 1 .. Len(s) /\ NoStop(s, 1, (n - 1) - 1)
      BY <3>0, <3>a, Zenon DEF NoStop
    <3>2. s[n - 1].what = "mode"
      BY <1>3, <3>1 DEF Orders, ModeFirst
    <3>3. s[n - 1].criteria.recurrence = w.criteria.recurrence
      BY <3>1, <3>2 DEF Orders, ModesSame
    <3>4. QED
      BY <2>2, <2>4, <3>3 DEF Given
  <2>5. QED
    BY <2>3, <2>4
<1>4. QED
  BY <1>1, <1>2, <1>3 DEF Orders, LastNear

\* a mode: from the framework, or told to a ULP again
LEMMA ModeAdded ==
  ASSUME NEW s \in Seq(Commands), NEW b, NEW w, Orders(s, b, w), NEW p \in Criteria,
         b.command \in {"start", "stop"}, b.command = "start" => b.criteria # Unset,
         periodic(w.runs) => w.on,
         NEW a, a.command = b.command, a.criteria # Unset => p = a.criteria,
         \/ b.command = "stop" /\ a.criteria = p
         \/ a.criteria = b.criteria
  PROVE  Orders(Append(s, Mode(p)), a, w)
<1> DEFINE m == Mode(p)
           t == Append(s, m)
<1>1. m \in Commands /\ m.what = "mode" /\ m.criteria = p
  BY MessageTypes DEF Mode
<1> HIDE DEF m
<1>0. /\ Len(s) \in Nat /\ Len(t) = Len(s) + 1 /\ t[Len(s) + 1] = m /\ t # <<>>
      /\ \A i \in 1 .. Len(s) : t[i] = s[i]
      /\ \A i \in 1 .. Len(t) : i \in 1 .. Len(s) \/ i = Len(s) + 1
      /\ \A i \in 1 .. Len(s) : Given(t, i, w) = Given(s, i, w)
      /\ \A i \in 1 .. Len(s) + 1 : NoStop(t, i, Len(s) + 1) => NoStop(s, i, Len(s))
  BY <1>1, Added, AddedGiven, AddedStops
<1>2. b.command \in {"start", "stop"} /\ (b.command = "start" => b.criteria # Unset)
  OBVIOUS
<1>3. ASSUME NEW i \in 1 .. Len(s), s[i].what = "start", NoStop(s, i + 1, Len(s))
      PROVE  /\ a.command = "start" /\ a.criteria = b.criteria /\ a.criteria = p
             /\ Near(Given(s, i, w), a, w)
  BY <1>2, <1>3 DEF Orders, StartsNear, Near
<1> HIDE DEF t
<1>4. ModeFirst(t)
  <2> SUFFICES ASSUME NEW i \in 2 .. Len(t), t[i].what = "start" PROVE t[i - 1].what = "mode"
    BY DEF ModeFirst
  <2>1. i \in 1 .. Len(s)
    BY <1>0, <1>1
  <2>2. i \in 2 .. Len(s) /\ i - 1 \in 1 .. Len(s) /\ s[i].what = "start"
    BY <1>0, <2>1
  <2>3. QED
    BY <1>0, <2>2 DEF Orders, ModeFirst
<1>5. StartsNear(t, a, w)
  <2> SUFFICES ASSUME NEW i \in 1 .. Len(t), t[i].what = "start", NoStop(t, i + 1, Len(t))
               PROVE  a.command = "start" /\ Near(Given(t, i, w), a, w)
    BY DEF StartsNear
  <2>1. i \in 1 .. Len(s) /\ i + 1 \in 1 .. Len(s) + 1
    BY <1>0, <1>1
  <2>2. s[i].what = "start" /\ NoStop(s, i + 1, Len(s)) /\ Given(t, i, w) = Given(s, i, w)
    BY <1>0, <2>1
  <2>3. QED
    BY <1>3, <2>1, <2>2
<1>6. ModesSame(t, w)
  <2>1. \A i \in 1 .. Len(s) : s[i].what = "start" /\ NoStop(s, i + 1, Len(s)) =>
          m.criteria.recurrence = Given(s, i, w).recurrence
    BY <1>1, <1>3 DEF Near
  <2>2. ASSUME w.on, NoStop(s, 1, Len(s))
        PROVE  m.criteria.recurrence = w.criteria.recurrence
    <3>1. b.command # "stop"
      BY <2>2 DEF Orders, Unstopped
    <3>2. b.criteria # Unset /\ a.criteria = b.criteria
      BY <1>2, <3>1
    <3>3. QED
      BY <1>1, <2>2, <3>2, NavigatingNear
  <2>3. ModesSame(s, w)
    BY DEF Orders
  <2>4. QED
    BY <1>1, <2>1, <2>2, <2>3, AddedModes DEF t
<1>7. LastNear(t, a, w)
  <2>1. t[Len(t)] = m
    BY <1>0
  <2>2. QED
    BY <1>0, <1>1, <2>1 DEF LastNear, Near
<1>8. Unstopped(t, a, w)
  <2> SUFFICES ASSUME NoStop(t, 1, Len(t))
               PROVE  /\ a.command = "stop" => ~w.on
                      /\ periodic(w.runs) /\ ~w.restarted => w.runs = a.criteria
                      /\ w.on /\ periodic(w.criteria) =>
                           periodic(w.runs) \/ w.excused
    BY DEF Unstopped
  <2>1. NoStop(s, 1, Len(s))
    BY <1>0
  <2>2. /\ b.command = "stop" => ~w.on
        /\ periodic(w.runs) /\ ~w.restarted => w.runs = b.criteria
        /\ w.on /\ periodic(w.criteria) => periodic(w.runs) \/ w.excused
    BY <2>1 DEF Orders, Unstopped
  <2>3. periodic(w.runs) => w.on
    OBVIOUS
  <2>4. QED
    BY <1>2, <2>2, <2>3
<1>9. QED
  BY <1>4, <1>5, <1>6, <1>7, <1>8 DEF Orders, t, m

\* a start, after its mode
LEMMA StartAdded ==
  ASSUME NEW s \in Seq(Commands), NEW b, NEW w, Orders(s, b, w), b.criteria # Unset,
         NEW a, a.command = "start", a.criteria = b.criteria,
         b.command = "stop" \/ (s # <<>> /\ s[Len(s)].what = "mode")
  PROVE  Orders(Append(s, Msg("start")), a, w)
<1> DEFINE m == Msg("start")
           t == Append(s, m)
<1>1. m \in Commands /\ m.what = "start"
  BY MessageTypes DEF Msg
<1> HIDE DEF m
<1>0. /\ Len(s) \in Nat /\ Len(t) = Len(s) + 1 /\ t[Len(s) + 1] = m /\ t # <<>>
      /\ \A i \in 1 .. Len(s) : t[i] = s[i]
      /\ \A i \in 1 .. Len(t) : i \in 1 .. Len(s) \/ i = Len(s) + 1
      /\ \A i \in 1 .. Len(s) : Given(t, i, w) = Given(s, i, w)
      /\ Given(t, Len(s) + 1, w) = IF s = <<>> THEN w.criteria ELSE s[Len(s)].criteria
      /\ \A i \in 1 .. Len(s) + 1 : NoStop(t, i, Len(s) + 1) => NoStop(s, i, Len(s))
      /\ (s # <<>> <=> Len(s) > 0)
  BY <1>1, Added, AddedGiven, AddedStops
<1> HIDE DEF t
<1>2. \A c : Near(c, b, w) <=> Near(c, a, w)
  BY DEF Near
<1>3. s # <<>> => s[Len(s)].what = "mode" /\ Near(s[Len(s)].criteria, a, w)
  <2>1. ASSUME s # <<>>, s[Len(s)].what = "start" PROVE b.command = "start"
    <3>1. Len(s) \in 1 .. Len(s) /\ NoStop(s, Len(s) + 1, Len(s))
      BY <1>0, <2>1 DEF NoStop
    <3>2. QED
      BY <2>1, <3>1 DEF Orders, StartsNear
  <2>2. QED
    BY <1>2, <2>1 DEF Orders, LastNear
<1>4. ModeFirst(t)
  <2> SUFFICES ASSUME NEW i \in 2 .. Len(t), t[i].what = "start" PROVE t[i - 1].what = "mode"
    BY DEF ModeFirst
  <2>1. CASE i \in 1 .. Len(s)
    <3>1. i \in 2 .. Len(s) /\ i - 1 \in 1 .. Len(s) /\ s[i].what = "start"
      BY <1>0, <2>1
    <3>2. QED
      BY <1>0, <3>1 DEF Orders, ModeFirst
  <2>2. CASE i = Len(s) + 1
    <3>1. i - 1 = Len(s) /\ Len(s) \in 1 .. Len(s)
      BY <1>0, <2>2
    <3>2. QED
      BY <1>0, <1>3, <3>1
  <2>3. QED
    BY <1>0, <2>1, <2>2
<1>5. StartsNear(t, a, w)
  <2> SUFFICES ASSUME NEW i \in 1 .. Len(t), t[i].what = "start", NoStop(t, i + 1, Len(t))
               PROVE  Near(Given(t, i, w), a, w)
    BY DEF StartsNear
  <2>1. CASE i \in 1 .. Len(s)
    <3>1. i + 1 \in 1 .. Len(s) + 1
      BY <1>0, <2>1
    <3>2. s[i].what = "start" /\ NoStop(s, i + 1, Len(s)) /\ Given(t, i, w) = Given(s, i, w)
      BY <1>0, <2>1, <3>1
    <3>3. QED
      BY <1>2, <2>1, <3>2 DEF Orders, StartsNear
  <2>2. CASE i = Len(s) + 1
    <3>1. s = <<>> => Near(w.criteria, a, w)
      BY <1>2 DEF Orders, LastNear
    <3>2. QED
      BY <1>0, <1>3, <2>2, <3>1
  <2>3. QED
    BY <1>0, <2>1, <2>2
<1>6. ModesSame(t, w)
  <2>1. ModesSame(s, w) /\ m.what # "mode"
    BY <1>1 DEF Orders
  <2>2. QED
    BY <1>1, <2>1, AddedModes DEF t
<1>7. LastNear(t, a, w)
  <2>1. t[Len(t)] = m
    BY <1>0
  <2>2. QED
    BY <1>0, <1>1, <2>1 DEF LastNear
<1>8. Unstopped(t, a, w)
  <2>1. NoStop(t, 1, Len(t)) => NoStop(s, 1, Len(s))
    BY <1>0
  <2>2. QED
    BY <2>1 DEF Orders, Unstopped
<1>9. QED
  BY <1>4, <1>5, <1>6, <1>7, <1>8 DEF Orders, t, m

LEMMA StopAdded ==
  ASSUME NEW s \in Seq(Commands), NEW b, NEW w, Orders(s, b, w), NEW a, a.criteria = Unset
  PROVE  Orders(Append(s, Msg("stop")), a, w)
<1> DEFINE m == Msg("stop")
           t == Append(s, m)
<1>1. m \in Commands /\ m.what = "stop"
  BY MessageTypes DEF Msg
<1> HIDE DEF m
<1>0. /\ Len(s) \in Nat /\ Len(t) = Len(s) + 1 /\ t[Len(s) + 1] = m /\ t # <<>>
      /\ \A i \in 1 .. Len(s) : t[i] = s[i]
      /\ \A i \in 1 .. Len(t) : i \in 1 .. Len(s) \/ i = Len(s) + 1
      /\ \A i \in 1 .. Len(s) + 1 : ~NoStop(t, i, Len(s) + 1)
  BY <1>1, Added, AddedStops
<1> HIDE DEF t
<1>4. ModeFirst(t)
  <2> SUFFICES ASSUME NEW i \in 2 .. Len(t), t[i].what = "start" PROVE t[i - 1].what = "mode"
    BY DEF ModeFirst
  <2>1. i \in 1 .. Len(s)
    BY <1>0, <1>1
  <2>2. i \in 2 .. Len(s) /\ i - 1 \in 1 .. Len(s) /\ s[i].what = "start"
    BY <1>0, <2>1
  <2>3. QED
    BY <1>0, <2>2 DEF Orders, ModeFirst
<1>5. StartsNear(t, a, w)
  <2> SUFFICES ASSUME NEW i \in 1 .. Len(t), t[i].what = "start", NoStop(t, i + 1, Len(t))
               PROVE  FALSE
    BY DEF StartsNear
  <2>1. i \in 1 .. Len(s) /\ i + 1 \in 1 .. Len(s) + 1
    BY <1>0, <1>1
  <2>2. QED
    BY <1>0, <2>1
<1>6. ModesSame(t, w)
  <2>1. ModesSame(s, w) /\ m.what # "mode"
    BY <1>1 DEF Orders
  <2>2. QED
    BY <1>1, <2>1, AddedModes DEF t
<1>7. LastNear(t, a, w)
  BY DEF LastNear
<1>8. Unstopped(t, a, w)
  <2>1. ~NoStop(t, 1, Len(t))
    BY <1>0
  <2>2. QED
    BY <2>1 DEF Unstopped
<1>9. QED
  BY <1>4, <1>5, <1>6, <1>7, <1>8 DEF Orders, t, m

-----------------------------------------------------------------------------
(* What is done changes, or a command is taken.                            *)

\* no command is added or taken
LEMMA OrdersKept ==
  ASSUME NEW s \in Seq(Commands), NEW a, NEW w, Orders(s, a, w), NEW b, NEW x,
         b.command = a.command, b.criteria = a.criteria,
         x.on => w.on, x.criteria.recurrence = w.criteria.recurrence,
         Near(w.criteria, a, w) => Near(x.criteria, a, x),
         periodic(x.runs) /\ ~x.restarted => x.runs = w.runs,
         w.restarted => x.restarted,
         NoStop(s, 1, Len(s)) /\ x.on /\ periodic(x.criteria) =>
           \/ periodic(x.runs) \/ x.excused
           \/ ~periodic(w.runs) /\ ~w.excused
  PROVE  Orders(s, b, x)
<1>1. \A c : Near(c, a, w) => Near(c, b, x)
  BY DEF Near
<1>2. Near(w.criteria, a, w) => Near(x.criteria, b, x)
  BY DEF Near
<1>3. \A i \in 1 .. Len(s) : Near(Given(s, i, w), a, w) => Near(Given(s, i, x), b, x)
  BY <1>1, <1>2 DEF Given
<1>4. \A i \in 1 .. Len(s) : Given(s, i, x).recurrence = Given(s, i, w).recurrence
  BY DEF Given
<1>5. StartsNear(s, b, x)
  BY <1>3 DEF Orders, StartsNear
<1>6. ModesSame(s, x)
  <2>1. ASSUME NEW j \in 1 .. Len(s), s[j].what = "mode", NEW i \in 1 .. j - 1,
               s[i].what = "start", NoStop(s, i + 1, j - 1)
        PROVE  s[j].criteria.recurrence = Given(s, i, x).recurrence
    <3>1. i \in 1 .. Len(s)
      BY SomeLeft
    <3>2. s[j].criteria.recurrence = Given(s, i, w).recurrence
      BY <2>1 DEF Orders, ModesSame
    <3>3. QED
      BY <1>4, <3>1, <3>2
  <2>2. ASSUME NEW j \in 1 .. Len(s), s[j].what = "mode", x.on, NoStop(s, 1, j - 1)
        PROVE  s[j].criteria.recurrence = x.criteria.recurrence
    BY <2>2 DEF Orders, ModesSame
  <2>3. QED
    BY <2>1, <2>2 DEF ModesSame
<1>7. LastNear(s, b, x)
  BY <1>1, <1>2 DEF Orders, LastNear
<1>8. Unstopped(s, b, x)
  <2> SUFFICES ASSUME NoStop(s, 1, Len(s))
               PROVE  /\ b.command = "stop" => ~x.on
                      /\ periodic(x.runs) /\ ~x.restarted => x.runs = b.criteria
                      /\ x.on /\ periodic(x.criteria) => periodic(x.runs) \/ x.excused
    BY DEF Unstopped
  <2>1. /\ a.command = "stop" => ~w.on
        /\ periodic(w.runs) /\ ~w.restarted => w.runs = a.criteria
        /\ w.on /\ periodic(w.criteria) => periodic(w.runs) \/ w.excused
    BY DEF Orders, Unstopped
  <2>2. periodic(x.criteria) <=> periodic(w.criteria)
    BY DEF periodic
  <2>3. QED
    BY <2>1, <2>2
<1>9. QED
  BY <1>5, <1>6, <1>7, <1>8 DEF Orders

\* what is left of the commands
LEMMA CommandTaken ==
  ASSUME NEW s \in Seq(Commands), s # <<>>
  PROVE  /\ Len(s) \in Nat \ {0} /\ Len(Tail(s)) = Len(s) - 1 /\ Tail(s) \in Seq(Commands)
         /\ s[1] \in Commands
         /\ \A i \in 1 .. Len(Tail(s)) : i + 1 \in 1 .. Len(s) /\ Tail(s)[i] = s[i + 1]
         /\ \A i, j \in Nat : i > 0 /\ j < Len(s) =>
              (NoStop(Tail(s), i, j) <=> NoStop(s, i + 1, j + 1))
         /\ (Tail(s) # <<>> <=> Len(s) > 1)
<1> DEFINE d == Tail(s)
<1>1. /\ d \in Seq(Commands) /\ Len(s) \in Nat \ {0} /\ Len(d) = Len(s) - 1
      /\ \A i \in 1 .. Len(s) - 1 : d[i] = s[i + 1]
      /\ \A i \in 1 .. Len(s) : s[i] \in Commands
  BY TailOf
<1> HIDE DEF d
<1>2. (d # <<>> <=> Len(d) > 0) /\ 1 \in 1 .. Len(s)
  BY <1>1, SomeLeft
<1>3. ASSUME NEW i \in Nat, NEW j \in Nat, i > 0, j < Len(s)
      PROVE  NoStop(d, i, j) <=> NoStop(s, i + 1, j + 1)
  <2>1. ASSUME NoStop(d, i, j), NEW k \in i + 1 .. j + 1 PROVE s[k].what # "stop"
    <3>1. k - 1 \in i .. j /\ k - 1 \in 1 .. Len(s) - 1 /\ (k - 1) + 1 = k
      BY <1>1, <1>3
    <3>2. QED
      BY <1>1, <2>1, <3>1 DEF NoStop
  <2>2. ASSUME NoStop(s, i + 1, j + 1), NEW k \in i .. j PROVE d[k].what # "stop"
    <3>1. k + 1 \in i + 1 .. j + 1 /\ k \in 1 .. Len(s) - 1
      BY <1>1, <1>3
    <3>2. QED
      BY <1>1, <2>2, <3>1 DEF NoStop
  <2>3. QED
    BY <2>1, <2>2 DEF NoStop
<1>4. QED
  BY <1>1, <1>2, <1>3 DEF d

LEMMA OrdersTaken ==
  ASSUME NEW s \in Seq(Commands), s # <<>>, NEW a, NEW w, Orders(s, a, w), NEW x,
         s[1].what = "mode" => x.criteria = s[1].criteria,
         x.restarted <=> w.restarted,
         \A j \in 1 .. Len(Tail(s)) :
           Tail(s)[j].what = "mode" /\ x.on /\ NoStop(s, 2, j) =>
             Tail(s)[j].criteria.recurrence = x.criteria.recurrence,
         Tail(s) = <<>> /\ a.criteria # Unset => Near(x.criteria, a, x),
         Unstopped(Tail(s), a, x)
  PROVE  Orders(Tail(s), a, x)
<1> DEFINE d == Tail(s)
<1>0. /\ Len(s) \in Nat \ {0} /\ Len(d) = Len(s) - 1 /\ d \in Seq(Commands)
      /\ \A i \in 1 .. Len(d) : i + 1 \in 1 .. Len(s) /\ d[i] = s[i + 1]
      /\ \A i, j \in Nat : i > 0 /\ j < Len(s) => (NoStop(d, i, j) <=> NoStop(s, i + 1, j + 1))
      /\ (d # <<>> <=> Len(s) > 1)
  BY CommandTaken
<1>a. Len(d) \in Nat /\ Len(s) \in Nat /\ Len(d) < Len(s) /\ Len(d) + 1 = Len(s)
  BY <1>0, SMTT(20)
<1>h. /\ \A j \in 1 .. Len(d) : d[j].what = "mode" /\ x.on /\ NoStop(s, 2, j) =>
           d[j].criteria.recurrence = x.criteria.recurrence
      /\ d = <<>> /\ a.criteria # Unset => Near(x.criteria, a, x)
      /\ Unstopped(d, a, x)
  OBVIOUS
<1> HIDE DEF d
<1>1. ModeFirst(d)
  <2> SUFFICES ASSUME NEW i \in 2 .. Len(d), d[i].what = "start" PROVE d[i - 1].what = "mode"
    BY DEF ModeFirst
  <2>1. i \in 1 .. Len(d) /\ i - 1 \in 1 .. Len(d) /\ i + 1 \in 2 .. Len(s)
        /\ (i + 1) - 1 = i /\ (i - 1) + 1 = i
    BY <1>0
  <2>2. d[i] = s[i + 1] /\ d[i - 1] = s[i]
    BY <1>0, <2>1
  <2>3. QED
    BY <2>1, <2>2 DEF Orders, ModeFirst
<1>2. \A i \in 1 .. Len(d) : d[i].what = "start" => Given(d, i, x) = Given(s, i + 1, w)
  <2> SUFFICES ASSUME NEW i \in 1 .. Len(d), d[i].what = "start"
               PROVE  Given(d, i, x) = Given(s, i + 1, w)
    OBVIOUS
  <2>1. i + 1 \in 2 .. Len(s) /\ i + 1 # 1 /\ (i + 1) - 1 = i
    BY <1>0
  <2>2. s[i].what = "mode"
    BY <1>0, <2>1 DEF Orders, ModeFirst
  <2>3. Given(s, i + 1, w) = s[i].criteria
    BY <2>1 DEF Given
  <2>4. CASE i = 1
    BY <2>2, <2>3, <2>4 DEF Given
  <2>5. CASE i # 1
    <3>1. i - 1 \in 1 .. Len(d) /\ (i - 1) + 1 = i
      BY <2>5
    <3>2. d[i - 1] = s[i]
      BY <1>0, <3>1
    <3>3. QED
      BY <2>3, <2>5, <3>2 DEF Given
  <2>6. QED
    BY <2>4, <2>5
<1>3. \A c : Near(c, a, w) <=> Near(c, a, x)
  BY DEF Near
<1>4. StartsNear(d, a, x)
  <2> SUFFICES ASSUME NEW i \in 1 .. Len(d), d[i].what = "start", NoStop(d, i + 1, Len(d))
               PROVE  a.command = "start" /\ Near(Given(d, i, x), a, x)
    BY DEF StartsNear
  <2>1. i + 1 \in 1 .. Len(s) /\ s[i + 1].what = "start"
    BY <1>0
  <2>2. i + 1 \in Nat /\ i + 1 > 0 /\ Len(d) \in Nat /\ Len(d) < Len(s) /\ Len(d) + 1 = Len(s)
    BY <1>a
  <2>3. NoStop(s, (i + 1) + 1, Len(s))
    BY <1>0, <2>2
  <2>4. a.command = "start" /\ Near(Given(s, i + 1, w), a, w)
    BY <2>1, <2>3 DEF Orders, StartsNear
  <2>5. QED
    BY <1>2, <1>3, <2>4
<1>5. ModesSame(d, x)
  <2>1. ASSUME NEW j \in 1 .. Len(d), d[j].what = "mode", NEW i \in 1 .. j - 1,
               d[i].what = "start", NoStop(d, i + 1, j - 1)
        PROVE  d[j].criteria.recurrence = Given(d, i, x).recurrence
    <3>1. /\ i \in 1 .. Len(d) /\ i + 1 \in 1 .. (j + 1) - 1 /\ j + 1 \in 1 .. Len(s)
          /\ i + 1 \in Nat /\ i + 1 > 0 /\ j - 1 \in Nat /\ j - 1 < Len(s)
          /\ (j - 1) + 1 = (j + 1) - 1
      BY <1>a
    <3>2. s[j + 1] = d[j] /\ s[i + 1] = d[i] /\ NoStop(s, (i + 1) + 1, (j + 1) - 1)
      BY <1>0, <2>1, <3>1
    <3>3. s[j + 1].criteria.recurrence = Given(s, i + 1, w).recurrence
      BY <2>1, <3>1, <3>2 DEF Orders, ModesSame
    <3>4. QED
      BY <1>2, <2>1, <3>1, <3>2, <3>3
  <2>2. ASSUME NEW j \in 1 .. Len(d), d[j].what = "mode", x.on, NoStop(d, 1, j - 1)
        PROVE  d[j].criteria.recurrence = x.criteria.recurrence
    <3>1. j - 1 \in Nat /\ j - 1 < Len(s) /\ (j - 1) + 1 = j /\ 1 + 1 = 2 /\ 1 \in Nat /\ 1 > 0
      BY <1>0
    <3>2. NoStop(s, 2, j)
      BY <1>0, <2>2, <3>1
    <3>3. QED
      BY <1>h, <2>2, <3>2
  <2>3. QED
    BY <2>1, <2>2 DEF ModesSame
<1>6. LastNear(d, a, x)
  <2>1. CASE d = <<>>
    BY <1>h, <2>1 DEF LastNear
  <2>2. CASE d # <<>>
    <3>1. Len(d) \in 1 .. Len(d) /\ Len(d) + 1 = Len(s)
      BY <1>0, <2>2
    <3>2. d[Len(d)] = s[Len(s)]
      BY <1>0, <3>1
    <3>3. QED
      BY <1>3, <2>2, <3>2 DEF Orders, LastNear
  <2>3. QED
    BY <2>1, <2>2
<1>7. QED
  BY <1>1, <1>4, <1>5, <1>6, <1>h DEF Orders, d

\* a stop is on its way behind the command that is taken, or none is
LEMMA StopsLeft ==
  ASSUME NEW s \in Seq(Commands), s # <<>>, s[1].what # "stop"
  PROVE  /\ NoStop(Tail(s), 1, Len(Tail(s))) => NoStop(s, 1, Len(s)) /\ NoStop(s, 2, Len(s))
         /\ \A j \in 1 .. Len(Tail(s)) : NoStop(s, 2, j) => NoStop(s, 1, j)
<1> DEFINE d == Tail(s)
<1>0. /\ Len(s) \in Nat \ {0} /\ Len(d) = Len(s) - 1
      /\ \A i, j \in Nat : i > 0 /\ j < Len(s) => (NoStop(d, i, j) <=> NoStop(s, i + 1, j + 1))
  BY CommandTaken
<1> HIDE DEF d
<1>1. Len(d) \in Nat /\ Len(d) < Len(s) /\ Len(d) + 1 = Len(s) /\ 1 \in Nat /\ 1 > 0 /\ 1 + 1 = 2
  BY <1>0, SMTT(20)
<1>2. \A j \in Nat : NoStop(s, 2, j) => NoStop(s, 1, j)
  <2> SUFFICES ASSUME NEW j \in Nat, NoStop(s, 2, j), NEW k \in 1 .. j PROVE s[k].what # "stop"
    BY DEF NoStop
  <2>1. k = 1 \/ k \in 2 .. j
    OBVIOUS
  <2>2. QED
    BY <2>1 DEF NoStop
<1>3. NoStop(d, 1, Len(d)) => NoStop(s, 2, Len(s))
  BY <1>0, <1>1
<1>4. QED
  BY <1>0, <1>1, <1>2, <1>3 DEF d

LEMMA ModeTaken ==
  ASSUME NEW s \in Seq(Commands), s # <<>>, NEW a, NEW w, Orders(s, a, w), NEW x,
         s[1].what = "mode", x.criteria = s[1].criteria,
         x.restarted <=> w.restarted, x.on <=> w.on, x.runs = w.runs, x.excused <=> w.excused
  PROVE  Orders(Tail(s), a, x)
<1> DEFINE d == Tail(s)
<1>0. /\ Len(s) \in Nat \ {0} /\ Len(d) = Len(s) - 1
      /\ \A i \in 1 .. Len(d) : i + 1 \in 1 .. Len(s) /\ d[i] = s[i + 1]
      /\ (d # <<>> <=> Len(s) > 1)
  BY CommandTaken
<1>s. /\ NoStop(d, 1, Len(d)) => NoStop(s, 1, Len(s)) /\ NoStop(s, 2, Len(s))
      /\ \A j \in 1 .. Len(d) : NoStop(s, 2, j) => NoStop(s, 1, j)
  BY StopsLeft
<1> HIDE DEF d
<1>1. w.on => s[1].criteria.recurrence = w.criteria.recurrence
  <2>1. 1 \in 1 .. Len(s) /\ NoStop(s, 1, 1 - 1)
    BY <1>0 DEF NoStop
  <2>2. QED
    BY <2>1 DEF Orders, ModesSame
<1>2. ASSUME NEW j \in 1 .. Len(d), d[j].what = "mode", x.on, NoStop(s, 2, j)
      PROVE  d[j].criteria.recurrence = x.criteria.recurrence
  <2>1. j + 1 \in 1 .. Len(s) /\ s[j + 1] = d[j] /\ (j + 1) - 1 = j /\ NoStop(s, 1, j)
    BY <1>0, <1>s, <1>2
  <2>2. s[j + 1].criteria.recurrence = w.criteria.recurrence
    BY <1>2, <2>1 DEF Orders, ModesSame
  <2>3. QED
    BY <1>1, <1>2, <2>1, <2>2
<1>3. ASSUME d = <<>>, a.criteria # Unset PROVE Near(x.criteria, a, x)
  <2>1. Len(s) = 1
    BY <1>0, <1>3
  <2>2. Near(s[1].criteria, a, w)
    BY <1>3, <2>1 DEF Orders, LastNear
  <2>3. QED
    BY <2>2 DEF Near
<1>4. Unstopped(d, a, x)
  <2>1. NoStop(d, 1, Len(d)) =>
          /\ a.command = "stop" => ~w.on
          /\ periodic(w.runs) /\ ~w.restarted => w.runs = a.criteria
          /\ w.on /\ periodic(w.criteria) => periodic(w.runs) \/ w.excused
    BY <1>s DEF Orders, Unstopped
  <2>2. w.on => (periodic(x.criteria) <=> periodic(w.criteria))
    BY <1>1 DEF periodic
  <2>3. QED
    BY <2>1, <2>2 DEF Unstopped
<1>5. QED
  BY <1>2, <1>3, <1>4, OrdersTaken DEF d

LEMMA StartTaken ==
  ASSUME NEW s \in Seq(Commands), s # <<>>, NEW a, NEW w, Orders(s, a, w), NEW x,
         s[1].what = "start", x.criteria = w.criteria, x.restarted <=> w.restarted,
         \/ w.on /\ x.on /\ x.runs = w.runs /\ (w.excused => x.excused)
         \/ /\ ~w.on /\ x.runs \in {w.runs, w.criteria}
            /\ x.on => x.runs = w.criteria \/ x.excused
  PROVE  Orders(Tail(s), a, x)
<1> DEFINE d == Tail(s)
<1>0. /\ Len(s) \in Nat \ {0} /\ Len(d) = Len(s) - 1
      /\ \A i \in 1 .. Len(d) : i + 1 \in 1 .. Len(s) /\ d[i] = s[i + 1]
      /\ (d # <<>> <=> Len(s) > 1)
  BY CommandTaken
<1>s. /\ NoStop(d, 1, Len(d)) => NoStop(s, 1, Len(s)) /\ NoStop(s, 2, Len(s))
      /\ \A j \in 1 .. Len(d) : NoStop(s, 2, j) => NoStop(s, 1, j)
  BY StopsLeft
<1> HIDE DEF d
<1>1. 1 \in 1 .. Len(s) /\ Given(s, 1, w) = w.criteria /\ 1 + 1 = 2
  BY <1>0 DEF Given
<1>2. NoStop(s, 2, Len(s)) => a.command = "start" /\ Near(w.criteria, a, w)
  BY <1>1 DEF Orders, StartsNear
<1>3. ASSUME NEW j \in 1 .. Len(d), d[j].what = "mode", x.on, NoStop(s, 2, j)
      PROVE  d[j].criteria.recurrence = x.criteria.recurrence
  <2>1. /\ j + 1 \in 1 .. Len(s) /\ s[j + 1] = d[j] /\ (j + 1) - 1 = j
        /\ 1 \in 1 .. (j + 1) - 1
    BY <1>0
  <2>2. s[j + 1].criteria.recurrence = Given(s, 1, w).recurrence
    BY <1>1, <1>3, <2>1 DEF Orders, ModesSame
  <2>3. QED
    BY <1>1, <2>1, <2>2
<1>4. ASSUME d = <<>>, a.criteria # Unset PROVE Near(x.criteria, a, x)
  <2>1. NoStop(s, 2, Len(s))
    BY <1>0, <1>4 DEF NoStop
  <2>2. QED
    BY <1>2, <2>1 DEF Near
<1>5. Unstopped(d, a, x)
  <2> SUFFICES ASSUME NoStop(d, 1, Len(d))
               PROVE  /\ a.command = "stop" => ~x.on
                      /\ periodic(x.runs) /\ ~x.restarted => x.runs = a.criteria
                      /\ x.on /\ periodic(x.criteria) => periodic(x.runs) \/ x.excused
    BY DEF Unstopped
  <2>1. /\ periodic(w.runs) /\ ~w.restarted => w.runs = a.criteria
        /\ w.on /\ periodic(w.criteria) => periodic(w.runs) \/ w.excused
    BY <1>s DEF Orders, Unstopped
  <2>2. a.command = "start" /\ (periodic(w.criteria) /\ ~w.restarted => w.criteria = a.criteria)
    BY <1>s, <1>2 DEF Near
  <2>3. QED
    BY <2>1, <2>2
<1>6. QED
  BY <1>3, <1>4, <1>5, OrdersTaken DEF d

LEMMA StopTaken ==
  ASSUME NEW s \in Seq(Commands), s # <<>>, NEW a, NEW w, Orders(s, a, w), NEW x,
         s[1].what = "stop", x.restarted <=> w.restarted, ~x.on, ~periodic(x.runs)
  PROVE  Orders(Tail(s), a, x)
<1> DEFINE d == Tail(s)
<1>0. Len(s) \in Nat \ {0} /\ (d # <<>> <=> Len(s) > 1)
  BY CommandTaken
<1> HIDE DEF d
<1>1. ASSUME d = <<>>, a.criteria # Unset PROVE FALSE
  <2>a. \A n \in Nat \ {0} : ~(n > 1) => n = 1
    OBVIOUS
  <2>1. Len(s) = 1
    BY <1>0, <1>1, <2>a, Zenon
  <2>2. QED
    BY <1>1, <2>1 DEF Orders, LastNear
<1>2. Unstopped(d, a, x)
  BY DEF Unstopped
<1>3. QED
  BY <1>1, <1>2, OrdersTaken DEF d

-----------------------------------------------------------------------------
(* The commands in the queue and those that a ULP has still to forward.    *)

LEMMA ConcatAppend ==
  ASSUME NEW S, NEW c \in Seq(S), NEW u \in Seq(S), NEW m \in S
  PROVE  c \o Append(u, m) = Append(c \o u, m)
<1>1. <<m>> \in Seq(S) /\ c \o u \in Seq(S)
  BY ConcatProperties, Singles
<1>2. Append(u, m) = u \o <<m>> /\ Append(c \o u, m) = (c \o u) \o <<m>>
  BY <1>1, AppendIsConcat
<1>3. (c \o u) \o <<m>> = c \o (u \o <<m>>)
  BY <1>1, ConcatAssociative
<1>4. QED
  BY <1>2, <1>3

LEMMA ConcatTail ==
  ASSUME NEW S, NEW c \in Seq(S), NEW u \in Seq(S), c # <<>>
  PROVE  /\ c \o u \in Seq(S) /\ c \o u # <<>> /\ (c \o u)[1] = Head(c)
         /\ Tail(c \o u) = Tail(c) \o u
<1> DEFINE s == c \o u
           d == Tail(c)
<1>1. /\ s \in Seq(S) /\ Len(c) \in Nat /\ Len(u) \in Nat /\ Len(s) = Len(c) + Len(u)
      /\ \A i \in 1 .. Len(c) + Len(u) : s[i] = IF i <= Len(c) THEN c[i] ELSE u[i - Len(c)]
  BY ConcatProperties, LenProperties
<1>2. /\ d \in Seq(S) /\ Len(c) \in Nat \ {0} /\ Len(d) = Len(c) - 1 /\ Head(c) = c[1]
      /\ \A i \in 1 .. Len(c) - 1 : d[i] = c[i + 1]
  BY TailOf
<1> HIDE DEF s
<1>3. Len(s) > 0 /\ s # <<>> /\ s[1] = c[1]
  <2>1. Len(s) > 0 /\ 1 \in 1 .. Len(c) + Len(u) /\ 1 <= Len(c)
    BY <1>1, <1>2
  <2>2. s # <<>>
    BY <1>1, <2>1, SomeLeft
  <2>3. QED
    BY <1>1, <2>1, <2>2
<1>4. /\ Tail(s) \in Seq(S) /\ Len(Tail(s)) = Len(s) - 1
      /\ \A i \in 1 .. Len(s) - 1 : Tail(s)[i] = s[i + 1]
  BY <1>1, <1>3, TailOf
<1> HIDE DEF d
<1>5. /\ d \o u \in Seq(S) /\ Len(d \o u) = Len(d) + Len(u)
      /\ \A i \in 1 .. Len(d) + Len(u) : (d \o u)[i] = IF i <= Len(d) THEN d[i] ELSE u[i - Len(d)]
  BY <1>2, ConcatProperties
<1>6. Len(d \o u) = Len(Tail(s))
  BY <1>1, <1>2, <1>4, <1>5
<1>7. ASSUME NEW i \in 1 .. Len(d \o u) PROVE (d \o u)[i] = Tail(s)[i]
  <2>1. /\ i \in 1 .. Len(d) + Len(u) /\ i + 1 \in 1 .. Len(c) + Len(u) /\ i \in 1 .. Len(s) - 1
        /\ i + 1 - Len(c) = i - Len(d)
        /\ (i <= Len(d) <=> i + 1 <= Len(c)) /\ (i <= Len(d) => i \in 1 .. Len(c) - 1)
    BY <1>1, <1>2, <1>5
  <2>2. Tail(s)[i] = s[i + 1]
    BY <1>4, <2>1
  <2>3. QED
    BY <1>1, <1>2, <1>5, <2>1, <2>2
<1>8. Tail(s) = d \o u
  BY <1>4, <1>5, <1>6, <1>7, SeqEqual
<1>9. QED
  BY <1>1, <1>2, <1>3, <1>8 DEF s, d

LEMMA ConcatShift ==
  ASSUME NEW S, NEW c \in Seq(S), NEW u \in Seq(S), u # <<>>
  PROVE  Append(c, Head(u)) \o Tail(u) = c \o u
<1> DEFINE h == <<Head(u)>>
<1>1. h \in Seq(S) /\ Tail(u) \in Seq(S) /\ Head(u) \in S /\ Head(u) = u[1]
      /\ Len(u) \in Nat \ {0}
  BY TailOf, Singles
<1>2. u = h \o Tail(u)
  <2>1. 1 \in 1 .. Len(u) /\ Len(u) \in 1 .. Len(u)
    BY <1>1
  <2>2. SubSeq(u, 1, Len(u)) = <<u[1]>> \o SubSeq(u, 1 + 1, Len(u))
    BY <2>1, SubSeqRecursiveFirst
  <2>3. SubSeq(u, 1, Len(u)) = u
    BY SubSeqFull
  <2>4. Tail(u) = SubSeq(u, 2, Len(u))
    BY TailIsSubSeq
  <2>5. QED
    BY <1>1, <2>2, <2>3, <2>4
<1>3. Append(c, Head(u)) = c \o h
  BY <1>1, AppendIsConcat
<1>4. (c \o h) \o Tail(u) = c \o (h \o Tail(u))
  BY <1>1, ConcatAssociative
<1>5. QED
  BY <1>2, <1>3, <1>4

\* a command is given to a ULP, or posted
LEMMA Appended ==
  ASSUME Types, NEW call \in Commands, NEW c \in Seq(Commands), Spells(mQ, c),
         \/ ulpQ' = Append(ulpQ, call) /\ mQ' = mQ
         \/ ulpQ = <<>> /\ ulpQ' = ulpQ /\ mQ' = mQ \o <<call>>
  PROVE  \E d \in Seq(Commands) : Spells(mQ', d) /\ d \o ulpQ' = Append(c \o ulpQ, call)
<1>1. CASE ulpQ' = Append(ulpQ, call) /\ mQ' = mQ
  <2>1. ulpQ \in Seq(Commands)
    BY DEF Types
  <2>2. c \o Append(ulpQ, call) = Append(c \o ulpQ, call)
    BY <2>1, ConcatAppend
  <2>3. QED
    BY <1>1, <2>2
<1>2. CASE ulpQ = <<>> /\ ulpQ' = ulpQ /\ mQ' = mQ \o <<call>>
  <2>1. mQ \in Seq(Messages)
    BY DEF Types
  <2>2. Append(c, call) \in Seq(Commands) /\ Spells(mQ', Append(c, call))
    BY <1>2, <2>1, SpellsCommand, AppendProperties
  <2>3. c \o <<>> = c /\ Append(c, call) \o <<>> = Append(c, call)
    BY <2>2, ConcatEmptySeq
  <2>4. QED
    BY <1>2, <2>2, <2>3
<1>3. QED
  BY <1>1, <1>2

\* messages that are not commands are posted, or taken
LEMMA GrewSpells ==
  ASSUME Types, NEW K, Grew(K), K \cap {"mode", "start", "stop"} = {},
         NEW c \in Seq(Commands), Spells(mQ, c)
  PROVE  Spells(mQ', c)
<1>1. PICK more \in Seq(Messages) : mQ' = mQ \o more /\ Kinds(more, K)
  BY DEF Grew
<1>2. \A i \in 1 .. Len(more) : more[i] \notin Commands
  BY <1>1 DEF Kinds, Commands
<1>3. QED
  BY <1>1, <1>2, SpellsGrown DEF Types

LEMMA TakenSpells ==
  ASSUME Types, NEW h, Receive(h), Taken, NEW c \in Seq(Commands), Spells(mQ, c)
  PROVE  /\ h \notin {"mode", "start", "stop"} => Spells(mQ', c)
         /\ h \in {"mode", "start", "stop"} =>
              /\ c # <<>> /\ Head(c) = Head(mQ) /\ Tail(c) \in Seq(Commands)
              /\ Spells(mQ', Tail(c))
<1>1. /\ mQ \in Seq(Messages) /\ mQ # <<>> /\ mQ' = Tail(mQ) /\ Head(mQ).what = h
      /\ Head(mQ) \in Messages
  BY TakenTypes DEF Taken
<1>2. Head(mQ) \in Commands <=> h \in {"mode", "start", "stop"}
  <2>1. h = "mode" => Head(mQ) \in Commands
    BY <1>1, MessageFields
  <2>2. h \in {"start", "stop"} => Head(mQ) = Msg(h)
    BY <1>1, MessageFields DEF Bare
  <2>3. h \in {"start", "stop"} => Head(mQ) \in Commands
    BY <2>2, MessageTypes
  <2>4. Head(mQ) \in Commands => h \in {"mode", "start", "stop"}
    BY <1>1 DEF Commands
  <2>5. QED
    BY <2>1, <2>3, <2>4
<1>3. c # <<>> => Tail(c) \in Seq(Commands)
  BY TailOf
<1>4. QED
  BY <1>1, <1>2, <1>3, SpellsTaken

LEMMA SessionFields ==
  /\ Session.criteria = mFixCriteria /\ Session.runs = modem.fix
  /\ Session.on = mNavigating /\ Session.restarted = (count.restarts > 0)
  /\ Session.excused = (refused \/ Restarting)
  /\ Session'.criteria = mFixCriteria' /\ Session'.runs = modem'.fix
  /\ Session'.on = mNavigating' /\ Session'.restarted = (count'.restarts > 0)
  /\ Session'.excused = (refused' \/ Restarting')
BY DEF Session

\* no command is posted or taken
LEMMA CommandKept ==
  ASSUME Types, CommandInv, \A c \in Seq(Commands) : Spells(mQ, c) => Spells(mQ', c),
         task'.at = "told mode" => task.at = "told mode", mUlp'.mFixSet = mUlp.mFixSet,
         ulpQ' = ulpQ, asked'.command = asked.command, asked'.criteria = asked.criteria,
         mNavigating' => mNavigating,
         mFixCriteria'.recurrence = mFixCriteria.recurrence,
         mFixCriteria' = mFixCriteria \/ ~periodic(mFixCriteria') \/ count'.restarts > 0,
         modem'.fix = modem.fix \/ ~periodic(modem'.fix) \/ count'.restarts > 0,
         count.restarts > 0 => count'.restarts > 0,
         mNavigating' /\ periodic(mFixCriteria') =>
           \/ periodic(modem'.fix) \/ refused' \/ Restarting'
           \/ ~periodic(modem.fix) /\ ~refused /\ ~Restarting
  PROVE  CommandInv'
<1>1. PICK c \in Seq(Commands) :
        Spells(mQ, c) /\ Orders(c \o ulpQ, asked, Session) /\ Told(c \o ulpQ)
  BY DEF CommandInv
<1>2. PICK s \in Seq(Commands) : s = c \o ulpQ
  BY ConcatProperties DEF Types
<1>3. PICK w : w = Session
  OBVIOUS
<1>4. PICK x : x = Session'
  OBVIOUS
<1>5. /\ w.criteria = mFixCriteria /\ w.runs = modem.fix
      /\ w.on = mNavigating /\ w.restarted = (count.restarts > 0)
      /\ w.excused = (refused \/ Restarting)
      /\ x.criteria = mFixCriteria' /\ x.runs = modem'.fix
      /\ x.on = mNavigating' /\ x.restarted = (count'.restarts > 0)
      /\ x.excused = (refused' \/ Restarting')
  BY <1>3, <1>4, SessionFields
<1>6. mNavigating \in BOOLEAN /\ refused \in BOOLEAN
  BY DEF Types
<1>7. Near(w.criteria, asked, w) => Near(x.criteria, asked, x)
  BY <1>5 DEF Near, periodic
<1>8. /\ x.on => w.on
      /\ x.criteria.recurrence = w.criteria.recurrence
      /\ periodic(x.runs) /\ ~x.restarted => x.runs = w.runs
      /\ w.restarted => x.restarted
  BY <1>5
<1>9. x.on /\ periodic(x.criteria) =>
        \/ periodic(x.runs) \/ x.excused
        \/ ~periodic(w.runs) /\ ~w.excused
  BY <1>5
<1>10. Orders(s, asked, w)
  BY <1>1, <1>2, <1>3
<1>11. Orders(s, asked', x)
  BY <1>7, <1>8, <1>9, <1>10, OrdersKept
<1>12. Spells(mQ', c) /\ Orders(c \o ulpQ', asked', Session')
  BY <1>1, <1>2, <1>4, <1>11
<1>13. (Told(c \o ulpQ))'
  BY <1>1 DEF Told
<1>14. QED
  BY <1>12, <1>13 DEF CommandInv

\* what a call asks for is asked for
LEMMA OrdersAdded ==
  ASSUME Types, AskedInv, NEW call \in Commands, Allowed(call), Asks(call),
         NEW s \in Seq(Commands), NEW w, Orders(s, asked, w), periodic(w.runs) => w.on
  PROVE  Orders(Append(s, call), asked', w)
<1>1. /\ asked'.command = IF call.what = "mode" THEN asked.command ELSE call.what
      /\ asked'.criteria = IF call.what = "mode" THEN call.criteria
                           ELSE IF call.what = "stop" THEN Unset ELSE asked.criteria
  BY CallFields
<1>2. CASE call.what = "mode"
  <2>1. PICK p \in Criteria : call = Mode(p) /\ call.criteria = p
    BY <1>2, CommandKinds DEF Msg
  <2>2. asked.command = "stop" /\ asked'.command = "stop" /\ asked'.criteria = p
    BY <1>1, <1>2, <2>1 DEF Allowed
  <2>3. Orders(Append(s, Mode(p)), asked', w)
    BY <2>2, ModeAdded
  <2>4. QED
    BY <2>1, <2>3
<1>3. CASE call.what = "start"
  <2>1. call = Msg("start") /\ asked.command = "stop" /\ asked.criteria # Unset
    BY <1>3, CommandKinds DEF Allowed, Msg, Mode
  <2>2. asked'.command = "start" /\ asked'.criteria = asked.criteria
    BY <1>1, <1>3
  <2>3. QED
    BY <2>1, <2>2, StartAdded
<1>4. CASE call.what = "stop"
  <2>1. call = Msg("stop")
    BY <1>4, CommandKinds DEF Msg, Mode
  <2>2. asked'.criteria = Unset
    BY <1>1, <1>4
  <2>3. QED
    BY <2>1, <2>2, StopAdded
<1>5. QED
  BY <1>2, <1>3, <1>4, CommandKinds

\* a start is asked for when no session runs but one that a stop will end
LEMMA StartAllowed ==
  ASSUME NEW s, NEW a, NEW w, Orders(s, a, w), a.command = "stop", NoStop(s, 1, Len(s))
  PROVE  ~w.on
BY DEF Orders, Unstopped

\* the framework's call reaches the ULP or the queue
LEMMA CallAdded ==
  ASSUME Types, AskedInv, CommandInv, NEW call \in Commands, Allowed(call), Asks(call),
         \/ ulpQ' = Append(ulpQ, call) /\ mQ' = mQ
         \/ ulpQ = <<>> /\ ulpQ' = ulpQ /\ mQ' = mQ \o <<call>>,
         UNCHANGED <<task, modem, adapterVars>>, count'.restarts = count.restarts,
         task.at \notin Swapping, Has(mQ, "up") => Has(mQ', "up"),
         refused' = refused \/ call.what = "start"
  PROVE  CommandInv'
<1>1. PICK c \in Seq(Commands) : Spells(mQ, c) /\ Orders(c \o ulpQ, asked, Session)
  BY DEF CommandInv
<1>2. PICK s \in Seq(Commands) : s = c \o ulpQ
  BY ConcatProperties DEF Types
<1>3. PICK d \in Seq(Commands) : Spells(mQ', d) /\ d \o ulpQ' = Append(s, call)
  BY <1>1, <1>2, Appended
<1>4. PICK w : w = Session
  OBVIOUS
<1>5. PICK x : x = Session'
  OBVIOUS
<1>6. /\ w.criteria = mFixCriteria /\ w.runs = modem.fix
      /\ w.on = mNavigating /\ w.restarted = (count.restarts > 0)
      /\ w.excused = (refused \/ Restarting)
      /\ x.criteria = mFixCriteria' /\ x.runs = modem'.fix
      /\ x.on = mNavigating' /\ x.restarted = (count'.restarts > 0)
      /\ x.excused = (refused' \/ Restarting')
  BY <1>4, <1>5, SessionFields
<1>7. /\ mFixCriteria' = mFixCriteria /\ mNavigating' = mNavigating /\ modem' = modem
      /\ mNavigating \in BOOLEAN
  BY DEF adapterVars, Types
<1>8. Restarting => Restarting'
  BY DEF Restarting
<1>9. PICK t \in Seq(Commands) : t = Append(s, call)
  BY AppendProperties
<1>10. Orders(s, asked, w) /\ (periodic(w.runs) => w.on)
  BY <1>1, <1>2, <1>4, <1>6 DEF AskedInv
<1>11. Orders(t, asked', w)
  BY <1>9, <1>10, OrdersAdded
<1>12. Near(w.criteria, asked', w) => Near(x.criteria, asked', x)
  BY <1>6, <1>7 DEF Near
<1>13. /\ x.on => w.on
       /\ x.criteria.recurrence = w.criteria.recurrence
       /\ periodic(x.runs) /\ ~x.restarted => x.runs = w.runs
       /\ w.restarted => x.restarted
  BY <1>6, <1>7
<1>14. NoStop(t, 1, Len(t)) /\ x.on /\ periodic(x.criteria) =>
         \/ periodic(x.runs) \/ x.excused
         \/ ~periodic(w.runs) /\ ~w.excused
  <2>1. CASE refused' = refused
    BY <1>6, <1>7, <1>8, <2>1
  <2>2. CASE call.what = "start"
    <3>1. /\ Len(t) = Len(s) + 1 /\ 1 \in 1 .. Len(s) + 1
      BY <1>9, Added
    <3>2. NoStop(t, 1, Len(s) + 1) => NoStop(s, 1, Len(s))
      BY <1>9, <3>1, AddedStops
    <3>3. asked.command = "stop"
      BY <2>2 DEF Allowed
    <3>4. NoStop(t, 1, Len(t)) => ~w.on
      BY <1>10, <3>1, <3>2, <3>3, StartAllowed
    <3>5. QED
      BY <1>13, <3>4
  <2>3. QED
    BY <2>1, <2>2
<1>15. Orders(t, asked', x)
  BY <1>11, <1>12, <1>13, <1>14, OrdersKept
<1>16. Spells(mQ', d) /\ Orders(d \o ulpQ', asked', Session')
  BY <1>3, <1>5, <1>9, <1>15
<1>17. (Told(d \o ulpQ))'
  BY DEF Told, Swapping
<1>18. QED
  BY <1>16, <1>17 DEF CommandInv

\* or is on its way: a start that is not refused
LEMMA CallMade ==
  ASSUME Types, AskedInv, CommandInv, NEW call \in Commands, Allowed(call),
         UNCHANGED <<ulpQ, mQ, asked, task, modem, adapterVars>>,
         count'.restarts = count.restarts,
         task.at \notin Swapping, refused' = refused \/ call.what = "start"
  PROVE  CommandInv'
<1>1. PICK c \in Seq(Commands) : Spells(mQ, c) /\ Orders(c \o ulpQ, asked, Session)
  BY DEF CommandInv
<1>2. PICK s \in Seq(Commands) : s = c \o ulpQ
  BY ConcatProperties DEF Types
<1>4. PICK w : w = Session
  OBVIOUS
<1>5. PICK x : x = Session'
  OBVIOUS
<1>6. /\ w.criteria = mFixCriteria /\ w.runs = modem.fix
      /\ w.on = mNavigating /\ w.restarted = (count.restarts > 0)
      /\ w.excused = (refused \/ Restarting)
      /\ x.criteria = mFixCriteria' /\ x.runs = modem'.fix
      /\ x.on = mNavigating' /\ x.restarted = (count'.restarts > 0)
      /\ x.excused = (refused' \/ Restarting')
  BY <1>4, <1>5, SessionFields
<1>7. /\ mFixCriteria' = mFixCriteria /\ mNavigating' = mNavigating /\ modem' = modem
  BY DEF adapterVars
<1>8. Restarting' <=> Restarting
  BY DEF Restarting
<1>9. Orders(s, asked, w)
  BY <1>1, <1>2, <1>4
<1>10. Near(w.criteria, asked, w) => Near(x.criteria, asked, x)
  BY <1>6, <1>7 DEF Near
<1>11. /\ x.on => w.on
       /\ x.criteria.recurrence = w.criteria.recurrence
       /\ periodic(x.runs) /\ ~x.restarted => x.runs = w.runs
       /\ w.restarted => x.restarted
  BY <1>6, <1>7
<1>12. NoStop(s, 1, Len(s)) /\ x.on /\ periodic(x.criteria) =>
         \/ periodic(x.runs) \/ x.excused
         \/ ~periodic(w.runs) /\ ~w.excused
  <2>1. CASE refused' = refused
    BY <1>6, <1>7, <1>8, <2>1
  <2>2. CASE call.what = "start"
    <3>1. asked.command = "stop"
      BY <2>2 DEF Allowed
    <3>2. NoStop(s, 1, Len(s)) => ~w.on
      BY <1>9, <3>1, StartAllowed
    <3>3. QED
      BY <1>11, <3>2
  <2>3. QED
    BY <2>1, <2>2
<1>13. Orders(s, asked, x)
  BY <1>9, <1>10, <1>11, <1>12, OrdersKept
<1>14. Spells(mQ', c) /\ Orders(c \o ulpQ', asked', Session')
  BY <1>1, <1>2, <1>5, <1>13
<1>15. (Told(c \o ulpQ))'
  BY DEF Told, Swapping
<1>16. QED
  BY <1>14, <1>15 DEF CommandInv

\* other messages are posted
LEMMA CommandGrows ==
  ASSUME Types, CommandInv, NEW K, Grew(K), K \cap {"mode", "start", "stop"} = {},
         ulpQ' = ulpQ, asked'.command = asked.command, asked'.criteria = asked.criteria,
         UNCHANGED <<adapterVars, refused, mUlp>>, task'.at = task.at, modem'.up = modem.up,
         modem'.fix = modem.fix \/ (~periodic(modem'.fix) /\ ~periodic(modem.fix)),
         count'.restarts = count.restarts
  PROVE  CommandInv'
<1>1. \A c \in Seq(Commands) : Spells(mQ, c) => Spells(mQ', c)
  BY GrewSpells
<1>2. mFixCriteria' = mFixCriteria /\ mNavigating' = mNavigating /\ refused' = refused
  BY DEF adapterVars
<1>3. Restarting => Restarting'
  <2>1. Has(mQ, "up") => Has(mQ', "up")
    BY GrewKeeps
  <2>2. QED
    BY <2>1 DEF Restarting
<1>4. mNavigating' /\ periodic(mFixCriteria') =>
        \/ periodic(modem'.fix) \/ refused' \/ Restarting'
        \/ ~periodic(modem.fix) /\ ~refused /\ ~Restarting
  BY <1>2, <1>3
<1>5. QED
  BY <1>1, <1>2, <1>4, CommandKept

LEMMA CallKept ==
  ASSUME CallInv, asked'.command = asked.command, asked'.criteria = asked.criteria,
         mUlp' = mUlp, hal' = hal \/ (hal.at # "send" /\ hal'.at # "send"),
         task'.at \in Swapping => task.at \in Swapping
  PROVE  CallInv'
<1>1. CASE hal' = hal
  BY <1>1 DEF CallInv, Allowed, WantedCommand, WantedCriteria
<1>2. CASE hal.at # "send" /\ hal'.at # "send"
  BY <1>2 DEF CallInv, WantedCommand, WantedCriteria
<1>3. QED
  BY <1>1, <1>2

LEMMA AskedKept ==
  ASSUME AskedInv, asked'.command = asked.command, asked'.criteria = asked.criteria,
         UNCHANGED <<adapterVars, mUlp>>,
         hal' = hal \/ (hal.at # "send" /\ hal'.at # "send"),
         task'.at \in Swapping => task.at \in Swapping,
         modem'.fix = modem.fix \/ ~periodic(modem'.fix)
  PROVE  AskedInv'
<1>1. CallInv'
  BY CallKept DEF AskedInv
<1>2. QED
  BY <1>1 DEF AskedInv, adapterVars

\* what was asked for last, in its own words
LEMMA AskedFacts ==
  ASSUME Types, AskedInv
  PROVE  /\ asked.command \in {"start", "stop"} /\ asked.criteria \in Criteria
         /\ asked.command = "start" => asked.criteria # Unset
         /\ periodic(modem.fix) => mNavigating
         /\ Unset \in Criteria /\ Unset.mode = INVALID
BY DEF Types, Requests, AskedInv, CallInv, Unset, Criteria

\* the framework calls
LEMMA Called ==
  ASSUME Types, AskedInv, CommandInv, ~crossed', NEW call \in Commands, Allowed(call),
         ToUlp(call), hal.at = "idle",
         UNCHANGED <<mQ, task, modem, adapterVars>>, count'.restarts = count.restarts
  PROVE  CommandInv' /\ AskedInv'
<1>1. refused' = refused \/ call.what = "start"
  BY DEF ToUlp, Types
<1>2. CASE mUlp.real
  <2>1. ulpQ' = Append(ulpQ, call) /\ Asks(call) /\ UNCHANGED <<mUlp, crossed, hal>>
    BY <1>2 DEF ToUlp
  <2>2. task.at \notin Swapping
    BY <1>2 DEF Types
  <2>3. Has(mQ, "up") => Has(mQ', "up")
    OBVIOUS
  <2>4. CommandInv'
    BY <1>1, <2>1, <2>2, <2>3, CallAdded
  <2>5. /\ asked'.command = IF call.what = "mode" THEN asked.command ELSE call.what
        /\ asked'.criteria = IF call.what = "mode" THEN call.criteria
                             ELSE IF call.what = "stop" THEN Unset ELSE asked.criteria
    BY <2>1, CallFields
  <2>6. CallInv'
    BY <1>2, <2>1, <2>5 DEF AskedInv, CallInv, Allowed
  <2>7. QED
    BY <2>4, <2>6 DEF AskedInv, adapterVars
<1>3. CASE ~mUlp.real
  <2>1. /\ mUlp' = Recorded(call) /\ hal' = [at |-> "send", v |-> call]
        /\ task.at \notin Swapping /\ UNCHANGED <<ulpQ, asked>>
    BY <1>3 DEF ToUlp
  <2>2. CommandInv'
    BY <1>1, <2>1, CallMade
  <2>3. /\ mUlp'.mFixSet = IF call.what = "mode" THEN mUlp.mFixSet ELSE (call.what = "start")
        /\ mUlp'.mPosMode = IF call.what = "mode" THEN call.criteria ELSE mUlp.mPosMode
        /\ ~mUlp'.real
    BY <1>3, <2>1, CallFields, RecordedTypes
  <2>4. hal'.at = "send" /\ hal'.v = call /\ asked' = asked /\ task' = task
    BY <2>1
  <2>5. /\ mUlp.mFixSet = (asked.command = "start")
        /\ asked.criteria # Unset => mUlp.mPosMode = asked.criteria
        /\ asked.criteria = Unset \/ asked.criteria.mode # INVALID
        /\ asked.command = "start" => asked.criteria # Unset
    BY <1>3 DEF AskedInv, CallInv, WantedCommand, WantedCriteria
  <2>6. /\ WantedCommand' = IF call.what = "mode" THEN asked.command ELSE call.what
        /\ WantedCriteria' = IF call.what = "mode" THEN call.criteria
                             ELSE IF call.what = "stop" THEN Unset ELSE asked.criteria
    BY <2>4 DEF WantedCommand, WantedCriteria
  <2>7. call.what \in {"mode", "start", "stop"}
    BY CommandKinds
  <2>8. /\ mUlp'.mFixSet = (WantedCommand' = "start")
        /\ WantedCriteria' # Unset => mUlp'.mPosMode = WantedCriteria'
    BY <2>3, <2>5, <2>6, <2>7
  <2>9. Allowed(call)'
    BY <2>4 DEF Allowed
  <2>10. CallInv'
    BY <2>1, <2>3, <2>4, <2>5, <2>8, <2>9 DEF CallInv, Allowed
  <2>11. QED
    BY <2>2, <2>10 DEF AskedInv, adapterVars
<1>4. QED
  BY <1>2, <1>3

\* and posts the message
LEMMA CallPosted ==
  ASSUME Types, AskedInv, CommandInv, SendCall PROVE CommandInv' /\ AskedInv'
<1>1. /\ hal.at = "send" /\ mQ' = mQ \o <<hal.v>> /\ Asks(hal.v) /\ hal' = Quiescent
      /\ UNCHANGED <<mUlp, ulpQ, mNavigating, mFixCriteria, task, modem, refused, count>>
  BY DEF SendCall, sendMsg, post, ulpVars, adapterVars
<1>2. hal.v \in Commands
  BY <1>1 DEF Types, Hals
<1>3. ~mUlp.real /\ task.at \notin Swapping /\ Allowed(hal.v)
  BY <1>1 DEF AskedInv, CallInv
<1>4. ulpQ = <<>>
  BY <1>3 DEF Types, UlpIdle
<1>5. Has(mQ, "up") => Has(mQ', "up")
  <2>1. Grew({"mode", "start", "stop"})
    BY OthersGrow
  <2>2. QED
    BY <2>1, GrewKeeps
<1>6. CommandInv'
  BY <1>1, <1>2, <1>3, <1>4, <1>5, CallAdded DEF adapterVars
<1>7. /\ asked'.command = IF hal.v.what = "mode" THEN asked.command ELSE hal.v.what
      /\ asked'.criteria = IF hal.v.what = "mode" THEN hal.v.criteria
                           ELSE IF hal.v.what = "stop" THEN Unset ELSE asked.criteria
  BY <1>1, <1>2, CallFields
<1>8. hal'.at = "idle"
  BY <1>1 DEF Quiescent
<1>9. asked'.command = WantedCommand /\ asked'.criteria = WantedCriteria
  BY <1>1, <1>7 DEF WantedCommand, WantedCriteria
<1>10. WantedCommand' = asked'.command /\ WantedCriteria' = asked'.criteria
  BY <1>8 DEF WantedCommand, WantedCriteria
<1>11. /\ asked'.criteria = Unset \/ asked'.criteria.mode # INVALID
       /\ asked'.command = "start" => asked'.criteria # Unset
  BY <1>3, <1>7 DEF AskedInv, CallInv, Allowed
<1>12. /\ mUlp'.mFixSet = (WantedCommand' = "start")
       /\ WantedCriteria' # Unset => mUlp'.mPosMode = WantedCriteria'
  BY <1>1, <1>3, <1>9, <1>10 DEF AskedInv, CallInv
<1>13. CallInv'
  BY <1>8, <1>11, <1>12 DEF CallInv
<1>14. QED
  BY <1>1, <1>6, <1>13 DEF AskedInv

LEMMA CommandFramework ==
  ASSUME Types, AskedInv, CommandInv, ~crossed', Framework
  PROVE  CommandInv' /\ AskedInv'
<1>e. ASSUME Event PROVE count'.restarts = count.restarts
  <2>1. count' = [count EXCEPT !.events = @ + 1] /\ count \in Counts
    BY <1>e DEF Event, Types
  <2>2. QED
    BY <2>1 DEF Counts
<1> DEFINE Quiet == /\ UNCHANGED <<mUlp, ulpQ, mNavigating, mFixCriteria, refused, task, modem>>
                    /\ hal' = hal \/ (hal.at # "send" /\ hal'.at # "send")
                    /\ count'.restarts = count.restarts
                    /\ asked'.command = asked.command /\ asked'.criteria = asked.criteria
<1>q. ASSUME NEW K, Grew(K), K \cap {"mode", "start", "stop"} = {}, Quiet
      PROVE  CommandInv' /\ AskedInv'
  <2>1. CommandInv'
    BY <1>q, CommandGrows DEF adapterVars
  <2>2. AskedInv'
    BY <1>q, AskedKept DEF adapterVars
  <2>3. QED
    BY <2>1, <2>2
<1>1. ASSUME loc_init PROVE CommandInv' /\ AskedInv'
  <2>1. asked'.command = asked.command /\ asked'.criteria = asked.criteria
    BY <1>1 DEF loc_init, Types, Requests
  <2>2. Quiet
    BY <1>1, <2>1 DEF loc_init, ulpVars, adapterVars
  <2>3. Grew({"init"}) /\ {"init"} \cap {"mode", "start", "stop"} = {}
    BY <1>1, FrameworkGrows
  <2> HIDE DEF Quiet
  <2>4. QED
    BY <1>q, <2>2, <2>3
<1>2. ASSUME agps_init PROVE CommandInv' /\ AskedInv'
  <2>1. Quiet
    BY <1>2 DEF agps_init, ulpVars, adapterVars, halVars
  <2>2. Grew({"server"}) /\ {"server"} \cap {"mode", "start", "stop"} = {}
    BY <1>2, FrameworkGrows
  <2> HIDE DEF Quiet
  <2>3. QED
    BY <1>q, <2>1, <2>2
<1>3. ASSUME NEW m \in LocModes, NEW r \in {"periodic", "single"}, loc_set_position_mode(m, r)
      PROVE  CommandInv' /\ AskedInv'
  <2> DEFINE params == [mode |-> IF HasMs THEN m ELSE "standalone", recurrence |-> r]
             call == Mode(params)
  <2>1. params \in Criteria /\ params.mode # INVALID
    <3>1. m # INVALID
      BY ModesAreModes DEF INVALID
    <3>2. QED
      BY <3>1 DEF Criteria, INVALID
  <2>2. call \in Commands /\ call.what = "mode" /\ call.criteria = params
    BY <2>1, MessageTypes DEF Mode
  <2>3. /\ asked.command = "stop" /\ asked.criteria = Unset /\ hal.at = "idle"
        /\ ToUlp(call) /\ UNCHANGED <<mQ, task, modem, count, adapterVars>>
    BY <1>3 DEF loc_set_position_mode, loc_eng_set_position_mode, Hal
  <2> HIDE DEF params, call
  <2>4. Allowed(call)
    BY <2>1, <2>2, <2>3 DEF Allowed
  <2>5. QED
    BY <2>2, <2>3, <2>4, Called
<1>4. ASSUME loc_start PROVE CommandInv' /\ AskedInv'
  <2>1. /\ asked.command = "stop" /\ asked.criteria # Unset /\ hal.at = "idle"
        /\ ToUlp(Msg("start")) /\ UNCHANGED <<mQ, task, modem, adapterVars>>
    BY <1>4 DEF loc_start, Hal
  <2>2. Msg("start") \in Commands /\ Msg("start").what = "start"
    BY MessageTypes DEF Msg
  <2>3. Allowed(Msg("start"))
    BY <2>1, <2>2 DEF Allowed
  <2>4. count'.restarts = count.restarts
    BY <1>4 DEF loc_start, Types, Counts
  <2>5. QED
    BY <2>1, <2>2, <2>3, <2>4, Called
<1>s. Msg("stop") \in Commands /\ Allowed(Msg("stop"))
  BY MessageTypes DEF Msg, Allowed
<1>5. ASSUME loc_stop PROVE CommandInv' /\ AskedInv'
  <2>1. /\ hal.at = "idle" /\ ToUlp(Msg("stop"))
        /\ UNCHANGED <<mQ, task, modem, adapterVars, count>>
    BY <1>5 DEF loc_stop, Hal
  <2>2. QED
    BY <1>s, <2>1, Called
<1>6. ASSUME loc_cleanup PROVE CommandInv' /\ AskedInv'
  <2>0. /\ hal.at = "idle" /\ UNCHANGED <<mQ, task, modem, adapterVars>>
        /\ count'.restarts = count.restarts
    BY <1>6, <1>e DEF loc_cleanup, Hal
  <2>1. CASE mNavigating
    <3>1. ToUlp(Msg("stop"))
      BY <1>6, <2>1 DEF loc_cleanup, loc_eng_cleanup
    <3>2. QED
      BY <1>s, <2>0, <3>1, Called
  <2>2. CASE ~mNavigating
    <3>1. UNCHANGED <<asked, refused, hal, ulpVars>>
      BY <1>6, <2>2 DEF loc_cleanup, loc_eng_cleanup
    <3>2. Quiet /\ mQ' = mQ
      BY <2>0, <3>1 DEF ulpVars, adapterVars
    <3>3. Grew({}) /\ {} \cap {"mode", "start", "stop"} = {}
      BY <3>2, GrewNone
    <3> HIDE DEF Quiet
    <3>4. QED
      BY <1>q, <3>2, <3>3
  <2>3. QED
    BY <2>1, <2>2
<1>7. ASSUME NEW f \in AidingRequests, loc_delete_aiding_data(f) PROVE CommandInv' /\ AskedInv'
  <2>0. count'.restarts = count.restarts
    BY <1>7 DEF loc_delete_aiding_data, Types, Counts
  <2>1. Quiet
    BY <1>7, <2>0 DEF loc_delete_aiding_data, ulpVars, adapterVars, halVars
  <2>2. Grew({"delete"}) /\ {"delete"} \cap {"mode", "start", "stop"} = {}
    BY <1>7, FrameworkGrows
  <2> HIDE DEF Quiet
  <2>3. QED
    BY <1>q, <2>1, <2>2
<1>8. ASSUME NEW v \in Servers, loc_agps_set_server(v) PROVE CommandInv' /\ AskedInv'
  <2>1. Quiet
    BY <1>8, <1>e DEF loc_agps_set_server, ulpVars, adapterVars, halVars
  <2>2. Grew({"server"}) /\ {"server"} \cap {"mode", "start", "stop"} = {}
    BY <1>8, FrameworkGrows
  <2> HIDE DEF Quiet
  <2>3. QED
    BY <1>q, <2>1, <2>2
<1>9. ASSUME NEW v \in ConfValues, configuration_update(v) PROVE CommandInv' /\ AskedInv'
  <2>1. Quiet
    BY <1>9, <1>e DEF configuration_update, ulpVars, adapterVars
  <2>2. Grew({}) /\ {} \cap {"mode", "start", "stop"} = {}
    BY <1>9, FrameworkGrows
  <2> HIDE DEF Quiet
  <2>3. QED
    BY <1>q, <2>1, <2>2
<1>10. QED
  BY <1>1, <1>2, <1>3, <1>4, <1>5, <1>6, <1>7, <1>8, <1>9 DEF Framework

\* a ULP forwards a command: to the end of the queue, from its own start
LEMMA CommandForwarded ==
  ASSUME Types, CommandInv, AskedInv, ForwardInt PROVE CommandInv' /\ AskedInv'
<1>1. /\ ulpQ # <<>> /\ ulpQ' = Tail(ulpQ) /\ mQ' = mQ \o <<Head(ulpQ)>>
      /\ UNCHANGED <<asked, mUlp, mNavigating, mFixCriteria, refused, task, modem, count, hal>>
  BY DEF ForwardInt, sendMsg, post, halVars, adapterVars
<1>2. PICK c \in Seq(Commands) : Spells(mQ, c) /\ Orders(c \o ulpQ, asked, Session)
                                  /\ Told(c \o ulpQ)
  BY DEF CommandInv
<1>3. ulpQ \in Seq(Commands) /\ Head(ulpQ) \in Commands /\ mQ \in Seq(Messages)
  BY <1>1, TailOf DEF Types
<1>4. PICK d \in Seq(Commands) : d = Append(c, Head(ulpQ))
  BY <1>3, AppendProperties
<1>5. Spells(mQ', d) /\ d \o ulpQ' = c \o ulpQ
  BY <1>1, <1>2, <1>3, <1>4, SpellsCommand, ConcatShift
<1>6. Has(mQ', "up") <=> Has(mQ, "up")
  <2>1. Grew({"mode", "start", "stop"})
    BY OthersGrow
  <2>2. QED
    BY <2>1, GrewKeeps
<1>7. Session' = Session
  BY <1>1, <1>6 DEF Session, Restarting
<1>8. CommandInv'
  <2>1. (Told(d \o ulpQ))'
    BY <1>1, <1>2, <1>5 DEF Told
  <2>2. QED
    BY <1>1, <1>2, <1>5, <1>7, <2>1 DEF CommandInv
<1>9. AskedInv'
  BY <1>1, AskedKept DEF adapterVars
<1>10. QED
  BY <1>8, <1>9

LEMMA NoFixPeriodic == ~periodic(NoFix)
BY DEF periodic, NoFix, None

LEMMA CommandOthers ==
  ASSUME Types, AskedInv, CommandInv,
         PostUpdate \/ requestUlp \/ Modem \/ handleEngineUpEvent
  PROVE  CommandInv' /\ AskedInv'
<1>e. ASSUME Event PROVE count'.restarts = count.restarts
  <2>1. count' = [count EXCEPT !.events = @ + 1] /\ count \in Counts
    BY <1>e DEF Event, Types
  <2>2. QED
    BY <2>1 DEF Counts
<1> DEFINE Quiet == /\ UNCHANGED <<mUlp, ulpQ, mNavigating, mFixCriteria, refused, task>>
                    /\ hal' = hal \/ (hal.at # "send" /\ hal'.at # "send")
                    /\ asked'.command = asked.command /\ asked'.criteria = asked.criteria
<1>q. ASSUME NEW K, Grew(K), K \cap {"mode", "start", "stop"} = {}, Quiet,
             count'.restarts = count.restarts, modem'.up = modem.up,
             modem'.fix = modem.fix \/ (~periodic(modem'.fix) /\ ~periodic(modem.fix))
      PROVE  CommandInv' /\ AskedInv'
  <2>1. CommandInv'
    BY <1>q, CommandGrows DEF adapterVars
  <2>2. AskedInv'
    BY <1>q, AskedKept DEF adapterVars
  <2>3. QED
    BY <2>1, <2>2
<1>p. ASSUME NEW msgs, ModemPosts(msgs) PROVE Quiet
  BY <1>p DEF ModemPosts, halVars, ulpVars, adapterVars
<1>1. ASSUME PostUpdate PROVE CommandInv' /\ AskedInv'
  <2>1. Quiet /\ modem' = modem /\ count' = count
    BY <1>1 DEF PostUpdate, ulpVars, adapterVars, Quiescent
  <2>2. Grew({"conf"}) /\ {"conf"} \cap {"mode", "start", "stop"} = {}
    BY <1>1, OthersGrow
  <2> HIDE DEF Quiet
  <2>3. QED
    BY <1>q, <2>1, <2>2
<1>2. ASSUME requestUlp PROVE CommandInv' /\ AskedInv'
  <2>1. asked'.command = asked.command /\ asked'.criteria = asked.criteria
    BY <1>2 DEF requestUlp, Types, Requests
  <2>2. Quiet /\ modem' = modem /\ count'.restarts = count.restarts
    BY <1>2, <1>e, <2>1 DEF requestUlp, ulpVars, adapterVars
  <2>3. Grew({"ulp"}) /\ {"ulp"} \cap {"mode", "start", "stop"} = {}
    BY <1>2, OthersGrow
  <2> HIDE DEF Quiet
  <2>4. QED
    BY <1>q, <2>2, <2>3
<1>3. ASSUME NEW r \in Reports, reportPosition(r) PROVE CommandInv' /\ AskedInv'
  <2>1. Quiet
    BY <1>3, <1>p DEF reportPosition
  <2>2. count'.restarts = count.restarts
    <3>1. count' = [count EXCEPT !.reports = @ + 1] /\ count \in Counts
      BY <1>3 DEF reportPosition, Types
    <3>2. QED
      BY <3>1 DEF Counts
  <2>3. /\ modem'.up = modem.up
        /\ modem'.fix = modem.fix \/ (modem'.fix = NoFix /\ modem.fix.recurrence = "single")
    BY <1>3 DEF reportPosition, Types, Modems
  <2>4. modem'.fix = modem.fix \/ (~periodic(modem'.fix) /\ ~periodic(modem.fix))
    BY <2>3, NoFixPeriodic DEF periodic
  <2>5. Grew({"position"}) /\ {"position"} \cap {"mode", "start", "stop"} = {}
    BY <1>3, OthersGrow
  <2> HIDE DEF Quiet
  <2>6. QED
    BY <1>q, <2>1, <2>2, <2>3, <2>4, <2>5
<1>4. ASSUME requestNiNotify PROVE CommandInv' /\ AskedInv'
  <2>1. Quiet /\ count'.restarts = count.restarts
    BY <1>4, <1>p, <1>e DEF requestNiNotify
  <2>2. modem'.up = modem.up /\ modem'.fix = modem.fix
    BY <1>4 DEF requestNiNotify, Types, Modems
  <2>3. Grew({"ni"}) /\ {"ni"} \cap {"mode", "start", "stop"} = {}
    BY <1>4, OthersGrow
  <2> HIDE DEF Quiet
  <2>4. QED
    BY <1>q, <2>1, <2>2, <2>3
<1>5. ASSUME NiEnds PROVE CommandInv' /\ AskedInv'
  <2>1. Quiet /\ count' = count
    BY <1>5, <1>p DEF NiEnds
  <2>2. modem'.up = modem.up /\ modem'.fix = modem.fix
    BY <1>5 DEF NiEnds, Types, Modems
  <2>3. Grew({}) /\ {} \cap {"mode", "start", "stop"} = {}
    BY <1>5, OthersGrow
  <2> HIDE DEF Quiet
  <2>4. QED
    BY <1>q, <2>1, <2>2, <2>3
<1>6. ASSUME reportStatus PROVE CommandInv' /\ AskedInv'
  <2>1. Quiet /\ count' = count
    BY <1>6, <1>p DEF reportStatus
  <2>2. modem'.up = modem.up /\ modem'.fix = modem.fix
    BY <1>6 DEF reportStatus, Types, Modems
  <2>3. Grew({"status"}) /\ {"status"} \cap {"mode", "start", "stop"} = {}
    BY <1>6, OthersGrow
  <2> HIDE DEF Quiet
  <2>4. QED
    BY <1>q, <2>1, <2>2, <2>3
\* a modem that goes down runs nothing; its session is started again
<1>7. ASSUME handleEngineDownEvent PROVE CommandInv' /\ AskedInv'
  <2>1. Quiet
    BY <1>7, <1>p DEF handleEngineDownEvent
  <2>2. count'.restarts > 0
    <3>1. count' = [count EXCEPT !.restarts = @ + 1] /\ count \in Counts
      BY <1>7 DEF handleEngineDownEvent, Types
    <3>2. QED
      BY <3>1 DEF Counts
  <2>3. ~modem'.up /\ ~periodic(modem'.fix)
    BY <1>7, NoFixPeriodic DEF handleEngineDownEvent, Types, Modems
  <2>4. Grew({"down"}) /\ {"down"} \cap {"mode", "start", "stop"} = {}
    BY <1>7, OthersGrow
  <2>5. \A c \in Seq(Commands) : Spells(mQ, c) => Spells(mQ', c)
    BY <2>4, GrewSpells
  <2>6. Restarting'
    BY <2>3 DEF Restarting
  <2>7. CommandInv'
    BY <2>1, <2>2, <2>3, <2>5, <2>6, CommandKept
  <2>8. AskedInv'
    BY <2>1, <2>3, AskedKept DEF adapterVars
  <2>9. QED
    BY <2>7, <2>8
<1>8. ASSUME handleEngineUpEvent PROVE CommandInv' /\ AskedInv'
  <2>1. Quiet /\ count' = count
    BY <1>8, <1>p DEF handleEngineUpEvent
  <2>2. modem'.fix = modem.fix
    BY <1>8 DEF handleEngineUpEvent, Types, Modems
  <2>3. Grew({"ssr", "up"}) /\ {"ssr", "up"} \cap {"mode", "start", "stop"} = {}
    BY <1>8, OthersGrow
  <2>4. \A c \in Seq(Commands) : Spells(mQ, c) => Spells(mQ', c)
    BY <2>3, GrewSpells
  <2>5. Restarting'
    BY <1>8, UpPosted DEF Restarting
  <2>6. CommandInv'
    BY <2>1, <2>2, <2>4, <2>5, CommandKept
  <2>7. AskedInv'
    BY <2>1, <2>2, AskedKept DEF adapterVars
  <2>8. QED
    BY <2>6, <2>7
<1>9. QED
  BY <1>1, <1>2, <1>3, <1>4, <1>5, <1>6, <1>7, <1>8 DEF Modem

-----------------------------------------------------------------------------
(* MsgTask takes a message.                                                *)

LEMMA RestartingTaken ==
  ASSUME Types, NEW h, Receive(h), Taken, h # "up", task'.at = task.at, modem'.up = modem.up
  PROVE  Restarting' <=> Restarting
<1>1. Has(mQ', "up") <=> Has(mQ, "up")
  BY TakenKeeps
<1>2. QED
  BY <1>1 DEF Restarting

\* one that says nothing of a session
LEMMA CommandPassed ==
  ASSUME Types, AskedInv, CommandInv, NEW h, Receive(h), Taken,
         h \notin {"mode", "start", "stop", "up"},
         UNCHANGED <<ulpQ, asked, hal, count, task, mUlp, adapterVars, refused>>,
         modem'.up = modem.up, modem'.fix = modem.fix
  PROVE  CommandInv' /\ AskedInv'
<1>1. \A c \in Seq(Commands) : Spells(mQ, c) => Spells(mQ', c)
  BY TakenSpells
<1>2. Restarting' <=> Restarting
  BY RestartingTaken
<1>3. mFixCriteria' = mFixCriteria /\ mNavigating' = mNavigating /\ refused' = refused
  BY DEF adapterVars
<1>4. /\ UNCHANGED <<adapterVars, mUlp>> /\ hal' = hal /\ task'.at = task.at
      /\ asked'.command = asked.command /\ asked'.criteria = asked.criteria
      /\ ulpQ' = ulpQ /\ mUlp'.mFixSet = mUlp.mFixSet /\ count' = count
  OBVIOUS
<1>5. CommandInv'
  <2>1. mNavigating' /\ periodic(mFixCriteria') =>
           \/ periodic(modem'.fix) \/ refused' \/ Restarting'
           \/ ~periodic(modem.fix) /\ ~refused /\ ~Restarting
    BY <1>2, <1>3
  <2>2. QED
    BY <1>1, <1>3, <1>4, <2>1, CommandKept
<1>6. AskedInv'
  BY <1>4, AskedKept
<1>7. QED
  BY <1>5, <1>6

LEMMA PositionPassed ==
  ASSUME Types, AskedInv, CommandInv, LocEngReportPosition PROVE CommandInv' /\ AskedInv'
<1>1. /\ Receive("position") /\ Taken
      /\ UNCHANGED <<ulpQ, asked, hal, count, task, mUlp, refused>>
  BY DEF LocEngReportPosition, outside, halVars, ulpVars
<1>2. CASE UNCHANGED <<adapterVars, modem>>
  BY <1>1, <1>2, CommandPassed
<1>3. CASE ~UNCHANGED <<adapterVars, modem>>
  <2>1. mFixCriteria.recurrence = "single" /\ setInSession(FALSE)
    BY <1>3 DEF LocEngReportPosition
  <2>2. modem' = [modem EXCEPT !.fix = NoFix] \/ modem' = [modem EXCEPT !.fix = @]
    BY <1>3 DEF LocEngReportPosition
  <2>3. ~mNavigating' /\ mFixCriteria'.recurrence = "single"
    BY <2>1 DEF setInSession, Types, Criteria
  <2>4. ~periodic(mFixCriteria) /\ ~periodic(mFixCriteria')
    BY <2>1, <2>3 DEF periodic
  <2>5. modem'.fix \in {modem.fix, NoFix}
    BY <2>2 DEF Types, Modems
  <2>6. ~periodic(modem'.fix)
    BY <2>4, <2>5, NoFixPeriodic DEF AskedInv
  <2>7. \A c \in Seq(Commands) : Spells(mQ, c) => Spells(mQ', c)
    BY <1>1, TakenSpells
  <2>8. CommandInv'
    BY <1>1, <2>1, <2>3, <2>4, <2>6, <2>7, CommandKept
  <2>9. AskedInv'
    BY <1>1, <2>6, CallKept DEF AskedInv
  <2>10. QED
    BY <2>8, <2>9
<1>4. QED
  BY <1>2, <1>3

\* close runs nothing on; the "up" that comes next starts the session again
LEMMA SsrPassed ==
  ASSUME Types, RestartInv, AskedInv, CommandInv, LocSsrMsg PROVE CommandInv' /\ AskedInv'
<1>1. /\ Receive("ssr") /\ Taken /\ UNCHANGED <<ulpQ, asked, hal, count, task, mUlp,
                                                adapterVars>>
      /\ refused' = refused
  BY DEF LocSsrMsg, outside, halVars, ulpVars
<1>2. ~periodic(modem'.fix)
  BY NoFixPeriodic DEF LocSsrMsg, Types, Modems
<1>3. mQ \in Seq(Messages) /\ mQ # <<>> /\ Head(mQ).what = "ssr" /\ mQ' = Tail(mQ)
      /\ mQ' \in Seq(Messages)
  BY <1>1, TakenTypes DEF Taken
<1>4. First(mQ', "up")
  BY <1>3, PairedTail DEF RestartInv
<1>5. Restarting'
  <2>1. 1 \in 1 .. Len(mQ')
    BY <1>3, <1>4, SomeLeft DEF First
  <2>2. QED
    BY <1>4, <2>1 DEF Restarting, First, Has
<1>6. \A c \in Seq(Commands) : Spells(mQ, c) => Spells(mQ', c)
  BY <1>1, TakenSpells
<1>7. CommandInv'
  BY <1>1, <1>2, <1>5, <1>6, CommandKept DEF adapterVars
<1>8. AskedInv'
  BY <1>1, <1>2, AskedKept
<1>9. QED
  BY <1>7, <1>8

LEMMA ReinitPassed ==
  ASSUME Types, AskedInv, CommandInv PROVE loc_eng_reinit => CommandInv' /\ AskedInv'
<1> SUFFICES ASSUME loc_eng_reinit PROVE CommandInv' /\ AskedInv'
  OBVIOUS
<1>1. PICK h \in {"init", "up"} : Receive(h)
  BY DEF loc_eng_reinit
<1>2. /\ Taken /\ UNCHANGED <<ulpQ, asked, hal, count, mUlp, adapterVars, modem, refused>>
      /\ task'.at = h /\ task.at = "idle" /\ task'.at \notin Swapping
  BY <1>1 DEF loc_eng_reinit, Receive, outside, halVars, ulpVars, Swapping
<1>3. Restarting => Restarting'
  <2>1. CASE h = "up"
    BY <1>2, <2>1 DEF Restarting
  <2>2. CASE h = "init"
    <3>1. Has(mQ, "up") => Has(mQ', "up")
      BY <1>1, <1>2, <2>2, TakenKeeps
    <3>2. QED
      BY <1>2, <3>1 DEF Restarting
  <2>3. QED
    BY <2>1, <2>2
<1>4. \A c \in Seq(Commands) : Spells(mQ, c) => Spells(mQ', c)
  BY <1>1, <1>2, TakenSpells
<1>5. mFixCriteria' = mFixCriteria /\ mNavigating' = mNavigating /\ modem' = modem
      /\ refused' = refused
  BY <1>2 DEF adapterVars
<1>6. CommandInv'
  <2>1. mNavigating' /\ periodic(mFixCriteria') =>
           \/ periodic(modem'.fix) \/ refused' \/ Restarting'
           \/ ~periodic(modem.fix) /\ ~refused /\ ~Restarting
    BY <1>3, <1>5
  <2>2. task'.at # "told mode" /\ mUlp'.mFixSet = mUlp.mFixSet /\ ulpQ' = ulpQ /\ count' = count
        /\ asked'.command = asked.command /\ asked'.criteria = asked.criteria
    BY <1>2 DEF Swapping
  <2>3. QED
    BY <1>4, <1>5, <2>1, <2>2, CommandKept
<1>7. AskedInv'
  BY <1>2, <1>5, AskedKept
<1>8. QED
  BY <1>6, <1>7

LEMMA InitPassed ==
  ASSUME Types, AskedInv, CommandInv, LocEngInit PROVE CommandInv' /\ AskedInv'
<1>1. /\ PostConf(<<>>) /\ task.at = "init"
      /\ UNCHANGED <<ulpQ, asked, hal, count, mUlp, adapterVars, modem, refused>>
      /\ task'.at = "idle" /\ task'.at \notin Swapping
  BY DEF LocEngInit, halVars, ulpVars, PostConf, Quiescent, Swapping
<1>2. Grew({"conf", "server"})
  BY <1>1, PostConfGrows DEF Types
<1>3. Restarting => Restarting'
  <2>1. Has(mQ, "up") => Has(mQ', "up")
    BY <1>2, GrewKeeps
  <2>2. QED
    BY <1>1, <2>1 DEF Restarting
<1>4. \A c \in Seq(Commands) : Spells(mQ, c) => Spells(mQ', c)
  <2>1. {"conf", "server"} \cap {"mode", "start", "stop"} = {}
    OBVIOUS
  <2>2. QED
    BY <1>2, <2>1, GrewSpells
<1>5. mFixCriteria' = mFixCriteria /\ mNavigating' = mNavigating /\ modem' = modem
      /\ refused' = refused
  BY <1>1 DEF adapterVars
<1>6. CommandInv'
  BY <1>1, <1>3, <1>4, <1>5, CommandKept
<1>7. AskedInv'
  BY <1>1, AskedKept
<1>8. QED
  BY <1>6, <1>7

\* the session that is started again
LEMMA UpPassed ==
  ASSUME Types, RestartInv, AskedInv, CommandInv, loc_eng_handle_engine_up
  PROVE  CommandInv' /\ AskedInv'
<1>1. /\ PostConf(<<>>) \/ PostConf(SetServer(supl_host))
      /\ task.at = "up" /\ UNCHANGED <<ulpQ, asked, hal, count, mUlp>>
      /\ task'.at = "idle" /\ task'.at \notin Swapping
  BY DEF loc_eng_handle_engine_up, halVars, ulpVars, PostConf, Quiescent, Swapping
<1>2. Grew({"conf", "server"})
  BY <1>1, PostConfGrows DEF Types
<1>3. \A c \in Seq(Commands) : Spells(mQ, c) => Spells(mQ', c)
  <2>1. {"conf", "server"} \cap {"mode", "start", "stop"} = {}
    OBVIOUS
  <2>2. QED
    BY <1>2, <2>1, GrewSpells
<1>4. count'.restarts > 0 /\ count.restarts > 0 /\ modem.fix = NoFix
  BY <1>1 DEF RestartInv
<1>5. CASE ~mNavigating
  <2>1. mFixCriteria' = mFixCriteria /\ mNavigating' = mNavigating /\ modem' = modem
    BY <1>5 DEF loc_eng_handle_engine_up, adapterVars
  <2>2. CommandInv'
    BY <1>1, <1>3, <1>4, <1>5, <2>1, CommandKept
  <2>3. AskedInv'
    BY <1>1, <2>1, AskedKept DEF adapterVars
  <2>4. QED
    BY <2>2, <2>3
<1>6. CASE mNavigating
  <2> DEFINE criteria == [mFixCriteria EXCEPT !.mode = INVALID]
  <2>1. criteria.recurrence = mFixCriteria.recurrence
    BY DEF Types, Criteria
  <2>2. StartSession(criteria)
    BY <1>6 DEF loc_eng_handle_engine_up
  <2> HIDE DEF criteria
  <2>3. PICK o \in IF modem.up THEN Outcomes ELSE {"engine_down"} :
          /\ modem' = [modem EXCEPT !.fix = IF o = "success" THEN criteria ELSE @]
          /\ refused' = (o \in {"phone_offline", "failure"})
          /\ mNavigating' = (o # "failure") /\ mFixCriteria' = criteria
    BY <2>2 DEF StartSession
  <2>4. modem'.up = modem.up /\ modem'.fix = IF o = "success" THEN criteria ELSE modem.fix
    BY <2>3 DEF Types, Modems
  <2>5. mNavigating' => modem'.fix = criteria \/ refused' \/ Restarting'
    <3>1. CASE modem.up
      BY <2>3, <2>4, <3>1, OutcomesKnown
    <3>2. CASE ~modem.up
      BY <2>4, <3>2 DEF Restarting
    <3>3. QED
      BY <3>1, <3>2
  <2>6. CommandInv'
    BY <1>1, <1>3, <1>4, <1>6, <2>1, <2>3, <2>5, CommandKept
  <2>7. periodic(modem'.fix) => mNavigating' /\ periodic(mFixCriteria')
    BY <1>4, <2>3, <2>4, NoFixPeriodic
  <2>8. AskedInv'
    BY <1>1, <2>7, CallKept DEF AskedInv
  <2>9. QED
    BY <2>6, <2>8
<1>7. QED
  BY <1>5, <1>6

\* a new ULP is told the mode again, behind all that was posted,
LEMMA UlpTold ==
  ASSUME Types, AskedInv, CommandInv, ~crossed', setUlpProxy PROVE CommandInv' /\ AskedInv'
<1>1. /\ Receive("ulp") /\ Taken
      /\ UNCHANGED <<asked, hal, count, modem, refused, adapterVars>>
  BY DEF setUlpProxy, halVars
<1>2. CASE mUlp.real
  <2>1. UNCHANGED <<ulpQ, mUlp, task>>
    BY <1>2 DEF setUlpProxy, ulpVars
  <2>2. QED
    BY <1>1, <2>1, CommandPassed
<1>3. CASE ~mUlp.real
  <2> DEFINE p == mUlp.mPosMode
  <2>1. /\ ulpQ' = IF p.mode # INVALID THEN <<Mode(p)>> ELSE <<>>
        /\ task' = [at |-> "told mode", v |-> None] /\ mUlp' = mUlp /\ hal.at # "send"
    BY <1>3 DEF setUlpProxy
  <2>2. task.at = "idle"
    BY <1>1 DEF Receive
  <2>3. ulpQ = <<>> /\ p \in Criteria
    BY <1>3, <2>2 DEF Types, Ulps, UlpIdle, Swapping
  <2>4. /\ mUlp.mFixSet => asked.command = "start" /\ asked.criteria # Unset
        /\ asked.criteria # Unset => p = asked.criteria
        /\ mUlp.mFixSet => p.mode # INVALID
    BY <1>3, <2>1 DEF AskedInv, CallInv, WantedCommand, WantedCriteria
  <2>5. CallInv'
    BY <1>1, <2>1 DEF AskedInv, CallInv, WantedCommand, WantedCriteria
  <2>6. AskedInv'
    BY <1>1, <2>5 DEF AskedInv, adapterVars
  <2> HIDE DEF p
  <2>7. PICK c \in Seq(Commands) : Spells(mQ, c) /\ Orders(c \o ulpQ, asked, Session)
    BY DEF CommandInv
  <2>8. c \o <<>> = c
    BY ConcatEmptySeq
  <2>9. Spells(mQ', c)
    BY <1>1, <2>7, TakenSpells
  <2>10. Session' = Session
    <3>1. Has(mQ', "up") <=> Has(mQ, "up")
      BY <1>1, TakenKeeps
    <3>2. Restarting' <=> Restarting
      BY <1>1, <2>1, <2>2, <3>1 DEF Restarting
    <3>3. QED
      BY <1>1, <3>2 DEF Session, adapterVars
  <2>11. PICK w : w = Session
    OBVIOUS
  <2>12. Orders(c, asked, w) /\ (periodic(w.runs) => w.on)
    BY <2>3, <2>7, <2>8, <2>11, SessionFields, AskedFacts
  <2>13. Mode(p) \in Commands /\ Mode(p).what = "mode"
    BY <2>3, MessageTypes DEF Mode
  <2>14. PICK t \in Seq(Commands) : t = Append(c, Mode(p))
    BY <2>13, AppendProperties
  <2>15. Orders(t, asked, w)
    BY <2>3, <2>4, <2>12, <2>14, AskedFacts, ModeAdded
  <2>16. t # <<>> /\ t[Len(t)].what = "mode"
    BY <2>13, <2>14, Added
  <2>17. c \o <<Mode(p)>> = t
    BY <2>13, <2>14, AppendIsConcat
  <2>18. Orders(c \o ulpQ', asked, w) /\ (Told(c \o ulpQ))'
    <3>1. CASE p.mode # INVALID
      <4>1. c \o ulpQ' = t
        BY <2>1, <2>17, <3>1
      <4>2. QED
        BY <2>15, <2>16, <4>1 DEF Told
    <3>2. CASE p.mode = INVALID
      <4>1. c \o ulpQ' = c /\ ~mUlp'.mFixSet
        BY <2>1, <2>4, <2>8, <3>2
      <4>2. QED
        BY <2>12, <4>1 DEF Told
    <3>3. QED
      BY <3>1, <3>2
  <2>19. asked' = asked
    BY <1>1
  <2>20. CommandInv'
    BY <2>9, <2>10, <2>11, <2>18, <2>19 DEF CommandInv
  <2>21. QED
    BY <2>6, <2>20
<1>4. QED
  BY <1>2, <1>3

\* then the start: no call of the framework's comes between the two
LEMMA UlpToldFix ==
  ASSUME Types, AskedInv, CommandInv, setUlpProxyFix PROVE CommandInv' /\ AskedInv'
<1>1. /\ task.at = "told mode" /\ task' = [at |-> "told fix", v |-> None]
      /\ ulpQ' = ulpQ \o (IF mUlp.mFixSet THEN <<Msg("start")>> ELSE <<>>)
      /\ UNCHANGED <<asked, hal, mUlp, mQ, count, modem, refused, adapterVars>>
  BY DEF setUlpProxyFix, halVars
<1>2. hal.at # "send" /\ ~mUlp.real /\ ulpQ \in Seq(Commands)
  BY <1>1 DEF AskedInv, CallInv, Types, Swapping
<1>3. mUlp.mFixSet => asked.command = "start" /\ asked.criteria # Unset
  BY <1>2 DEF AskedInv, CallInv, WantedCommand
<1>4. AskedInv'
  BY <1>1, <1>2, AskedKept DEF Swapping
<1>5. PICK c \in Seq(Commands) :
        Spells(mQ, c) /\ Orders(c \o ulpQ, asked, Session) /\ Told(c \o ulpQ)
  BY DEF CommandInv
<1>6. PICK s \in Seq(Commands) : s = c \o ulpQ
  BY <1>2, ConcatProperties
<1>7. Session' = Session
  <2>1. Restarting' <=> Restarting
    BY <1>1 DEF Restarting
  <2>2. QED
    BY <1>1, <2>1 DEF Session, adapterVars
<1>8. PICK w : w = Session
  OBVIOUS
<1>9. Orders(s, asked, w) /\ (mUlp.mFixSet => s # <<>> /\ s[Len(s)].what = "mode")
  BY <1>1, <1>5, <1>6, <1>8 DEF Told
<1>10. Orders(c \o ulpQ', asked, w)
  <2>1. CASE mUlp.mFixSet
    <3>1. Orders(Append(s, Msg("start")), asked, w)
      BY <1>3, <1>9, <2>1, StartAdded
    <3>2. Msg("start") \in Commands
      BY MessageTypes
    <3>3. Append(s, Msg("start")) = s \o <<Msg("start")>> /\ <<Msg("start")>> \in Seq(Commands)
      BY <3>2, AppendIsConcat, Singles
    <3>4. (c \o ulpQ) \o <<Msg("start")>> = c \o (ulpQ \o <<Msg("start")>>)
      BY <1>2, <3>3, ConcatAssociative
    <3>5. ulpQ' = ulpQ \o <<Msg("start")>>
      BY <1>1, <2>1
    <3>6. QED
      BY <1>6, <3>1, <3>3, <3>4, <3>5
  <2>2. CASE ~mUlp.mFixSet
    <3>1. ulpQ' = ulpQ \o <<>> /\ ulpQ \o <<>> = ulpQ
      BY <1>1, <1>2, <2>2, ConcatEmptySeq
    <3>2. QED
      BY <1>6, <1>9, <3>1
  <2>3. QED
    BY <2>1, <2>2
<1>11. (Told(c \o ulpQ))'
  BY <1>1 DEF Told
<1>12. mQ' = mQ /\ asked' = asked
  BY <1>1
<1>13. CommandInv'
  BY <1>5, <1>7, <1>8, <1>10, <1>11, <1>12 DEF CommandInv
<1>14. QED
  BY <1>4, <1>13

LEMMA UlpKept ==
  ASSUME Types, AskedInv, CommandInv, setUlpProxyKept PROVE CommandInv' /\ AskedInv'
<1>1. /\ task.at = "told fix" /\ task'.at = "idle" /\ mUlp' = [mUlp EXCEPT !.real = TRUE]
      /\ UNCHANGED <<asked, hal, ulpQ, mQ, count, modem, refused, adapterVars>>
  BY DEF setUlpProxyKept, halVars, Quiescent
<1>2. mUlp'.real /\ mUlp'.mFixSet = mUlp.mFixSet
  BY <1>1 DEF Types, Ulps
<1>3. hal.at # "send"
  BY <1>1 DEF AskedInv, CallInv, Swapping
<1>4. AskedInv'
  <2>1. CallInv'
    BY <1>1, <1>2, <1>3 DEF AskedInv, CallInv
  <2>2. QED
    BY <1>1, <2>1 DEF AskedInv, adapterVars
<1>5. PICK c \in Seq(Commands) : Spells(mQ, c) /\ Orders(c \o ulpQ, asked, Session)
  BY DEF CommandInv
<1>6. Session' = Session
  <2>1. Restarting' <=> Restarting
    BY <1>1 DEF Restarting
  <2>2. QED
    BY <1>1, <2>1 DEF Session, adapterVars
<1>7. (Told(c \o ulpQ))'
  BY <1>1 DEF Told
<1>8. mQ' = mQ /\ asked' = asked /\ ulpQ' = ulpQ
  BY <1>1
<1>9. CommandInv'
  BY <1>5, <1>6, <1>7, <1>8 DEF CommandInv
<1>10. QED
  BY <1>4, <1>9

\* the first of the commands is the one MsgTask takes
LEMMA CommandHead ==
  ASSUME Types, CommandInv, NEW h \in {"mode", "start", "stop"}, Receive(h), Taken, ulpQ' = ulpQ
  PROVE  \E s \in Seq(Commands) :
           /\ s # <<>> /\ s[1] = Head(mQ) /\ s[1].what = h /\ Orders(s, asked, Session)
           /\ \A a, x : Orders(Tail(s), a, x) =>
                \E d \in Seq(Commands) : Spells(mQ', d) /\ Orders(d \o ulpQ', a, x)
<1>1. PICK c \in Seq(Commands) : Spells(mQ, c) /\ Orders(c \o ulpQ, asked, Session)
  BY DEF CommandInv
<1>2. c # <<>> /\ Head(c) = Head(mQ) /\ Tail(c) \in Seq(Commands) /\ Spells(mQ', Tail(c))
  BY <1>1, TakenSpells
<1>3. /\ c \o ulpQ \in Seq(Commands) /\ c \o ulpQ # <<>> /\ (c \o ulpQ)[1] = Head(c)
      /\ Tail(c \o ulpQ) = Tail(c) \o ulpQ
  BY <1>2, ConcatTail DEF Types
<1>4. Head(mQ).what = h
  BY DEF Receive
<1>5. ASSUME NEW a, NEW x, Orders(Tail(c \o ulpQ), a, x)
      PROVE  \E d \in Seq(Commands) : Spells(mQ', d) /\ Orders(d \o ulpQ', a, x)
  BY <1>2, <1>3, <1>5
<1>6. QED
  BY <1>1, <1>2, <1>3, <1>4, <1>5

LEMMA ModeHandled ==
  ASSUME Types, AskedInv, CommandInv, LocEngPositionMode PROVE CommandInv' /\ AskedInv'
<1>1. /\ Receive("mode") /\ Taken /\ mFixCriteria' = Head(mQ).criteria
      /\ UNCHANGED <<asked, hal, ulpQ, mUlp, count, task, modem, refused, mNavigating>>
      /\ task.at = "idle"
  BY DEF LocEngPositionMode, Receive, outside, halVars, ulpVars
<1>2. PICK s \in Seq(Commands) :
        /\ s # <<>> /\ s[1] = Head(mQ) /\ s[1].what = "mode" /\ Orders(s, asked, Session)
        /\ \A a, x : Orders(Tail(s), a, x) =>
             \E d \in Seq(Commands) : Spells(mQ', d) /\ Orders(d \o ulpQ', a, x)
  BY <1>1, CommandHead
<1>3. PICK w : w = Session
  OBVIOUS
<1>4. PICK x : x = Session'
  OBVIOUS
<1>5. /\ w.criteria = mFixCriteria /\ w.runs = modem.fix
      /\ w.on = mNavigating /\ w.restarted = (count.restarts > 0)
      /\ w.excused = (refused \/ Restarting)
      /\ x.criteria = mFixCriteria' /\ x.runs = modem'.fix
      /\ x.on = mNavigating' /\ x.restarted = (count'.restarts > 0)
      /\ x.excused = (refused' \/ Restarting')
  BY <1>3, <1>4, SessionFields
<1>6. Restarting' <=> Restarting
  BY <1>1, RestartingTaken
<1>7. Orders(s, asked, w)
  BY <1>2, <1>3
<1>8. /\ x.criteria = s[1].criteria /\ (x.restarted <=> w.restarted) /\ (x.on <=> w.on)
      /\ x.runs = w.runs /\ (x.excused <=> w.excused)
  BY <1>1, <1>2, <1>5, <1>6
<1>9. Orders(Tail(s), asked, x)
  BY <1>2, <1>7, <1>8, ModeTaken
<1>10. CommandInv'
  BY <1>1, <1>2, <1>4, <1>9 DEF CommandInv, Told
<1>11. mNavigating => mFixCriteria'.recurrence = mFixCriteria.recurrence
  <2>1. 1 \in 1 .. Len(s) /\ NoStop(s, 1, 1 - 1)
    BY <1>2, SomeLeft DEF NoStop
  <2>2. w.on => s[1].criteria.recurrence = w.criteria.recurrence
    BY <1>2, <1>7, <2>1 DEF Orders, ModesSame
  <2>3. QED
    BY <1>1, <1>2, <1>5, <2>2
<1>12. AskedInv'
  <2>1. CallInv'
    BY <1>1, CallKept DEF AskedInv
  <2>2. QED
    BY <1>1, <1>11, <2>1 DEF AskedInv, periodic
<1>13. QED
  BY <1>10, <1>12

LEMMA StartHandled ==
  ASSUME Types, AskedInv, CommandInv, loc_eng_start_handler PROVE CommandInv' /\ AskedInv'
<1>1. /\ Receive("start") /\ Taken
      /\ UNCHANGED <<asked, hal, ulpQ, mUlp, count, task>> /\ task.at = "idle"
  BY DEF loc_eng_start_handler, Receive, outside, halVars, ulpVars
<1>2. PICK s \in Seq(Commands) :
        /\ s # <<>> /\ s[1] = Head(mQ) /\ s[1].what = "start" /\ Orders(s, asked, Session)
        /\ \A a, x : Orders(Tail(s), a, x) =>
             \E d \in Seq(Commands) : Spells(mQ', d) /\ Orders(d \o ulpQ', a, x)
  BY <1>1, CommandHead
<1>3. PICK w : w = Session
  OBVIOUS
<1>4. PICK x : x = Session'
  OBVIOUS
<1>5. /\ w.criteria = mFixCriteria /\ w.runs = modem.fix
      /\ w.on = mNavigating /\ w.restarted = (count.restarts > 0)
      /\ w.excused = (refused \/ Restarting)
      /\ x.criteria = mFixCriteria' /\ x.runs = modem'.fix
      /\ x.on = mNavigating' /\ x.restarted = (count'.restarts > 0)
      /\ x.excused = (refused' \/ Restarting')
  BY <1>3, <1>4, SessionFields
<1>6. Orders(s, asked, w)
  BY <1>2, <1>3
<1>7. CASE mNavigating
  <2>1. UNCHANGED <<mNavigating, mFixCriteria, modem, refused>>
    BY <1>7 DEF loc_eng_start_handler, adapterVars
  <2>2. Restarting' <=> Restarting
    BY <1>1, <2>1, RestartingTaken
  <2>3. /\ x.criteria = w.criteria /\ (x.restarted <=> w.restarted)
        /\ w.on /\ x.on /\ x.runs = w.runs /\ (w.excused => x.excused)
    BY <1>1, <1>5, <1>7, <2>1, <2>2
  <2>4. Orders(Tail(s), asked, x)
    BY <1>2, <1>6, <2>3, StartTaken
  <2>5. CommandInv'
    BY <1>1, <1>2, <1>4, <2>4 DEF CommandInv, Told
  <2>6. AskedInv'
    BY <1>1, <2>1, AskedKept DEF adapterVars
  <2>7. QED
    BY <2>5, <2>6
<1>8. CASE ~mNavigating
  <2>1. PICK o \in IF modem.up THEN Outcomes ELSE {"engine_down"} :
          /\ modem' = [modem EXCEPT !.fix = IF o = "success" THEN mFixCriteria ELSE @]
          /\ refused' = (o \in {"phone_offline", "failure"})
          /\ mNavigating' = (o # "failure") /\ mFixCriteria' = mFixCriteria
    BY <1>8 DEF loc_eng_start_handler, StartSession
  <2>2. modem'.up = modem.up /\ modem'.fix = IF o = "success" THEN mFixCriteria ELSE modem.fix
    BY <2>1 DEF Types, Modems
  <2>3. mNavigating' => modem'.fix = mFixCriteria \/ refused' \/ Restarting'
    <3>1. CASE modem.up
      BY <2>1, <2>2, <3>1, OutcomesKnown
    <3>2. CASE ~modem.up
      BY <2>2, <3>2 DEF Restarting
    <3>3. QED
      BY <3>1, <3>2
  <2>4. x.criteria = w.criteria /\ (x.restarted <=> w.restarted) /\ ~w.on
    BY <1>1, <1>5, <1>8, <2>1
  <2>5. x.runs \in {w.runs, w.criteria}
    BY <1>5, <2>2
  <2>6. x.on => x.runs = w.criteria \/ x.excused
    BY <1>5, <2>3
  <2>7. Orders(Tail(s), asked, x)
    BY <1>2, <1>6, <2>4, <2>5, <2>6, StartTaken
  <2>8. CommandInv'
    BY <1>1, <1>2, <1>4, <2>7 DEF CommandInv, Told
  <2>9. periodic(modem'.fix) => mNavigating' /\ periodic(mFixCriteria')
    BY <1>8, <2>1, <2>2 DEF AskedInv
  <2>10. AskedInv'
    <3>1. CallInv'
      BY <1>1, CallKept DEF AskedInv
    <3>2. QED
      BY <2>9, <3>1 DEF AskedInv
  <2>11. QED
    BY <2>8, <2>10
<1>9. QED
  BY <1>7, <1>8

LEMMA StopHandled ==
  ASSUME Types, AskedInv, CommandInv, loc_eng_stop_handler PROVE CommandInv' /\ AskedInv'
<1>1. /\ Receive("stop") /\ Taken
      /\ UNCHANGED <<asked, hal, ulpQ, mUlp, count, task, refused>> /\ task.at = "idle"
  BY DEF loc_eng_stop_handler, Receive, outside, halVars, ulpVars
<1>2. PICK s \in Seq(Commands) :
        /\ s # <<>> /\ s[1] = Head(mQ) /\ s[1].what = "stop" /\ Orders(s, asked, Session)
        /\ \A a, x : Orders(Tail(s), a, x) =>
             \E d \in Seq(Commands) : Spells(mQ', d) /\ Orders(d \o ulpQ', a, x)
  BY <1>1, CommandHead
<1>3. ~mNavigating' /\ ~periodic(modem'.fix)
  <2>1. CASE mNavigating
    <3>1. setInSession(FALSE) /\ modem' = [modem EXCEPT !.fix = NoFix]
      BY <2>1 DEF loc_eng_stop_handler
    <3>2. modem'.fix = NoFix
      BY <3>1 DEF Types, Modems
    <3>3. QED
      BY <3>1, <3>2, NoFixPeriodic DEF setInSession
  <2>2. CASE ~mNavigating
    BY <2>2 DEF loc_eng_stop_handler, adapterVars, AskedInv
  <2>3. QED
    BY <2>1, <2>2
<1>4. PICK w : w = Session
  OBVIOUS
<1>5. PICK x : x = Session'
  OBVIOUS
<1>6. (x.restarted <=> w.restarted) /\ ~x.on /\ ~periodic(x.runs)
  BY <1>1, <1>3, <1>4, <1>5, SessionFields
<1>7. Orders(Tail(s), asked, x)
  BY <1>2, <1>4, <1>6, StopTaken
<1>8. CommandInv'
  BY <1>1, <1>2, <1>5, <1>7 DEF CommandInv, Told
<1>9. AskedInv'
  <2>1. CallInv'
    BY <1>1, CallKept DEF AskedInv
  <2>2. QED
    BY <1>3, <2>1 DEF AskedInv
<1>10. QED
  BY <1>8, <1>9

LEMMA CommandMsgTask ==
  ASSUME Types, RestartInv, AskedInv, CommandInv, ~crossed', MsgTask
  PROVE  CommandInv' /\ AskedInv'
<1> DEFINE Rests == UNCHANGED <<ulpQ, asked, hal, count, mUlp>>
<1>o. UNCHANGED outside => Rests
  BY DEF outside, halVars, ulpVars
<1> HIDE DEF Rests
<1>1. ASSUME LocEngDelAidData PROVE CommandInv' /\ AskedInv'
  <2>1. Receive("delete") /\ Taken /\ Rests /\ UNCHANGED <<task, adapterVars, modem, refused>>
    BY <1>1, <1>o DEF LocEngDelAidData
  <2>2. QED
    BY <2>1, CommandPassed DEF Rests
<1>2. ASSUME LocEngReportStatus PROVE CommandInv' /\ AskedInv'
  <2>1. Receive("status") /\ Taken /\ Rests /\ UNCHANGED <<task, adapterVars, modem, refused>>
    BY <1>2, <1>o DEF LocEngReportStatus
  <2>2. QED
    BY <2>1, CommandPassed DEF Rests
<1>3. ASSUME loc_eng_mute_one_session PROVE CommandInv' /\ AskedInv'
  <2>1. Receive("ni") /\ Taken /\ Rests /\ UNCHANGED <<task, adapterVars, modem, refused>>
    BY <1>3, <1>o DEF loc_eng_mute_one_session
  <2>2. QED
    BY <2>1, CommandPassed DEF Rests
<1>4. ASSUME LocEngConfigure PROVE CommandInv' /\ AskedInv'
  <2>1. Receive("conf") /\ Taken /\ Rests /\ UNCHANGED <<task, adapterVars, refused>>
    BY <1>4, <1>o DEF LocEngConfigure
  <2>2. modem'.up = modem.up /\ modem'.fix = modem.fix
    BY <1>4 DEF LocEngConfigure, Types, Modems
  <2>3. QED
    BY <2>1, <2>2, CommandPassed DEF Rests
<1>5. ASSUME LocEngSetServer PROVE CommandInv' /\ AskedInv'
  <2>1. Receive("server") /\ Taken /\ Rests /\ UNCHANGED <<task, adapterVars, refused>>
    BY <1>5, <1>o DEF LocEngSetServer
  <2>2. modem'.up = modem.up /\ modem'.fix = modem.fix
    BY <1>5 DEF LocEngSetServer, Types, Modems
  <2>3. QED
    BY <2>1, <2>2, CommandPassed DEF Rests
<1>6. ASSUME loc_eng_handle_engine_down PROVE CommandInv' /\ AskedInv'
  <2>1. Receive("down") /\ Taken /\ Rests /\ UNCHANGED <<task, adapterVars, modem, refused>>
    BY <1>6, <1>o DEF loc_eng_handle_engine_down
  <2>2. QED
    BY <2>1, CommandPassed DEF Rests
<1>7. ASSUME setUlpProxy \/ setUlpProxyFix \/ setUlpProxyKept
      PROVE  CommandInv' /\ AskedInv'
  BY <1>7, UlpTold, UlpToldFix, UlpKept
<1>h. ASSUME LocEngPositionMode \/ loc_eng_start_handler \/ loc_eng_stop_handler
      PROVE  CommandInv' /\ AskedInv'
  BY <1>h, ModeHandled, StartHandled, StopHandled
<1>8. ASSUME LocEngReportPosition \/ LocSsrMsg \/ loc_eng_reinit \/ LocEngInit
             \/ loc_eng_handle_engine_up
      PROVE  CommandInv' /\ AskedInv'
  BY <1>8, PositionPassed, SsrPassed, ReinitPassed, InitPassed, UpPassed
<1>9. QED
  BY <1>1, <1>2, <1>3, <1>4, <1>5, <1>6, <1>7, <1>h, <1>8 DEF MsgTask

LEMMA NothingHas ==
  ASSUME NEW q, Len(q) = 0 PROVE (\A what : ~Has(q, what)) /\ NoStop(q, 1, Len(q))
BY DEF Has, NoStop

LEMMA OrdersNone ==
  ASSUME NEW a, NEW w, a.criteria = Unset, ~w.on, ~periodic(w.runs)
  PROVE  Orders(<<>>, a, w)
<1>1. Len(<<>>) = 0
  OBVIOUS
<1> DEFINE s == <<>>
<1> HIDE DEF s
<1>2. ASSUME Len(s) = 0 PROVE Orders(s, a, w)
  BY <1>2 DEF Orders, ModeFirst, StartsNear, ModesSame, LastNear, Unstopped
<1>3. QED
  BY <1>1, <1>2 DEF s

LEMMA CommandInit == Init => AskedInv /\ CommandInv
<1> SUFFICES ASSUME Init PROVE AskedInv /\ CommandInv
  OBVIOUS
<1>1. /\ mQ = <<>> /\ ulpQ = <<>> /\ ~mNavigating /\ modem.fix = NoFix
      /\ asked.criteria = Unset /\ asked.command = "stop" /\ mUlp.mFixSet = FALSE
      /\ task.at = "idle" /\ hal.at = "idle"
  BY DEF Init, Quiescent
<1>2. AskedInv
  <2>1. WantedCommand = "stop" /\ WantedCriteria = Unset
    BY <1>1 DEF WantedCommand, WantedCriteria
  <2>2. CallInv
    BY <1>1, <2>1 DEF CallInv
  <2>3. QED
    BY <1>1, <2>2, NoFixPeriodic DEF AskedInv
<1>3. PICK w : w = Session
  OBVIOUS
<1>4. Orders(<<>>, asked, w)
  BY <1>1, <1>3, SessionFields, NoFixPeriodic, OrdersNone
<1>5. <<>> \in Seq(Commands) /\ <<>> \o <<>> = <<>>
  BY ConcatEmptySeq
<1>6. Told(<<>>)
  BY <1>1 DEF Told
<1>7. Spells(mQ, <<>>) /\ Orders(<<>> \o ulpQ, asked, Session) /\ Told(<<>> \o ulpQ)
  BY <1>1, <1>3, <1>4, <1>5, <1>6, SpellsNone
<1>8. QED
  BY <1>2, <1>5, <1>7 DEF CommandInv

\* what the model checker's type invariant says
LEMMA MessagesTyped == ASSUME NEW m \in Messages PROVE Typed(m)
<1>1. /\ m.what = "mode" => m.criteria \in Criteria
      /\ m.what = "position" => m.report \in Reports
      /\ m.what = "status" => m.v \in {"begin", "end", "on", "off"}
      /\ m.what = "delete" => m.types \subseteq AidingData
      /\ m.what = "conf" => m.v \in ConfValues
      /\ m.what = "server" => m.v \in Servers
      /\ m.what \in Bare \cup {"mode", "position", "status", "delete", "conf", "server"}
  BY MessageFields
<1>2. QED
  BY <1>1 DEF Typed, Bare

LEMMA CommandsTyped ==
  ASSUME NEW m \in Commands PROVE m.what \in {"mode", "start", "stop"} /\ Typed(m)
<1>1. m \in Messages /\ m.what \in {"mode", "start", "stop"}
  BY MessageTypes DEF Commands
<1>2. QED
  BY <1>1, MessagesTyped

LEMMA TypesOK == Types => TypeOK
<1> SUFFICES ASSUME Types PROVE TypeOK
  OBVIOUS
<1>1. \A i \in DOMAIN mQ : Typed(mQ[i])
  <2>1. \A i \in DOMAIN mQ : mQ[i] \in Messages
    BY ElementOfSeq, LenProperties DEF Types
  <2>2. QED
    BY <2>1, MessagesTyped
<1>2. \A i \in DOMAIN ulpQ : ulpQ[i].what \in {"mode", "start", "stop"} /\ Typed(ulpQ[i])
  <2>1. \A i \in DOMAIN ulpQ : ulpQ[i] \in Commands
    BY ElementOfSeq, LenProperties DEF Types
  <2>2. QED
    BY <2>1, CommandsTyped
<1>3. {adapter, gps_loc_cb, agps, mNavigating, refused, stale, crossed} \subseteq BOOLEAN
  BY DEF Types
<1>4. IF hal.at = "send"
      THEN hal.v.what \in {"mode", "start", "stop"} /\ Typed(hal.v)
      ELSE hal \in [at : {"idle", "post"}, v : ConfValues \cup {None}]
  BY CommandsTyped DEF Types, Hals
<1>5. task \in [at : {"idle", "init", "up"} \cup Swapping, v : ConfValues \cup {None}]
  BY DEF Types, Tasks
<1>6. {undeleted, replaced} \subseteq SUBSET AidingData /\ aiding_data_for_deletion \subseteq AidingData
  BY DEF Types
<1>7. ~mUlp.real /\ task.at \notin Swapping => ulpQ = <<>>
  BY DEF Types, UlpIdle
<1>8. QED
  BY <1>1, <1>2, <1>3, <1>4, <1>5, <1>6, <1>7 DEF TypeOK, Types, Ulps, Modems, Requests

\* the modem's parameters, with nothing under way
LEMMA ConfiguredWhenSettled ==
  ASSUME Types, QueueInv, Settled
  PROVE  /\ ~stale => modem.conf = gps_conf
         /\ supl_host # None /\ ((agps /\ HasMs) \/ count.restarts = 0)
              => modem.server = supl_host
<1>1. adapter /\ modem.up /\ mQ = <<>> /\ task.at = "idle" /\ hal.at = "idle"
  BY DEF Settled
<1>2. \A what : ~Has(mQ, what)
  BY <1>1, NothingHas
<1>3. count.restarts = 0 => ~(count.restarts > 0)
  OBVIOUS
<1>4. ~stale => modem.conf = gps_conf
  BY <1>1, <1>2 DEF QueueInv, ConfInv
<1>5. supl_host # None /\ ((agps /\ HasMs) \/ count.restarts = 0) => modem.server = supl_host
  BY <1>1, <1>2, <1>3 DEF QueueInv, ServerInv
<1>6. QED
  BY <1>4, <1>5

\* and its session
LEMMA AgreesWhenSettled ==
  ASSUME Types, AskedInv, CommandInv, Settled
  PROVE  /\ asked.command = "stop" => ~mNavigating /\ ~periodic(modem.fix)
         /\ mNavigating /\ periodic(mFixCriteria) => modem.fix # NoFix \/ refused
         /\ periodic(modem.fix) /\ count.restarts = 0 => modem.fix = asked.criteria
<1>1. modem.up /\ mQ = <<>> /\ ulpQ = <<>> /\ task.at = "idle"
  BY DEF Settled
<1>2. \A what : ~Has(mQ, what)
  BY <1>1, NothingHas
<1>3. PICK c \in Seq(Commands) : Spells(mQ, c) /\ Orders(c \o ulpQ, asked, Session)
  BY DEF CommandInv
<1>4. c = <<>>
  BY <1>1, <1>3, SpellsEmpty
<1>5. <<>> \o <<>> = <<>>
  BY <1>3, <1>4, ConcatEmptySeq
<1>6. PICK w : w = Session
  OBVIOUS
<1>7. Orders(<<>>, asked, w)
  BY <1>1, <1>3, <1>4, <1>5, <1>6
<1>8. NoStop(<<>>, 1, Len(<<>>))
  BY NothingHas
<1>9. /\ asked.command = "stop" => ~w.on
      /\ periodic(w.runs) /\ ~w.restarted => w.runs = asked.criteria
      /\ w.on /\ periodic(w.criteria) => periodic(w.runs) \/ w.excused
  BY <1>7, <1>8 DEF Orders, Unstopped
<1>10. ~Restarting
  BY <1>1, <1>2 DEF Restarting
<1>11. count.restarts = 0 => ~(count.restarts > 0)
  OBVIOUS
<1>12. /\ asked.command = "stop" => ~mNavigating
       /\ periodic(modem.fix) /\ count.restarts = 0 => modem.fix = asked.criteria
       /\ mNavigating /\ periodic(mFixCriteria) => periodic(modem.fix) \/ refused
  BY <1>6, <1>9, <1>10, <1>11, SessionFields
<1>13. /\ periodic(modem.fix) => mNavigating
       /\ periodic(modem.fix) => modem.fix # NoFix
  BY NoFixPeriodic DEF AskedInv
<1>14. QED
  BY <1>12, <1>13

\* a call that met the change of the proxy is not forgotten
LEMMA CrossedStays ==
  ASSUME crossed, [Next]_vars PROVE crossed'
<1>1. ASSUME NEW call, ToUlp(call) PROVE crossed'
  BY <1>1 DEF ToUlp
<1>2. ASSUME Framework PROVE crossed'
  BY <1>1, <1>2 DEF Framework, loc_init, agps_init, loc_start, loc_stop, loc_cleanup,
     loc_eng_cleanup, loc_set_position_mode, loc_eng_set_position_mode,
     loc_delete_aiding_data, loc_agps_set_server, configuration_update, ulpVars
<1>3. ASSUME HalSteps \/ requestUlp \/ ForwardInt PROVE crossed'
  BY <1>3 DEF HalSteps, PostUpdate, SendCall, requestUlp, ForwardInt, ulpVars
<1>4. ASSUME Modem \/ handleEngineUpEvent PROVE crossed'
  BY <1>4 DEF Modem, handleEngineUpEvent, reportStatus, requestNiNotify, NiEnds,
     handleEngineDownEvent, reportPosition, ModemPosts, ulpVars
<1>5. ASSUME MsgTask PROVE crossed'
  BY <1>5 DEF MsgTask, setUlpProxy, setUlpProxyFix, setUlpProxyKept, LocEngPositionMode,
     loc_eng_start_handler, loc_eng_stop_handler, LocEngReportPosition, LocEngDelAidData,
     LocEngReportStatus, loc_eng_mute_one_session, LocEngConfigure, LocEngSetServer,
     loc_eng_handle_engine_down, LocSsrMsg, loc_eng_reinit, LocEngInit,
     loc_eng_handle_engine_up, outside, ulpVars
<1>6. QED
  BY <1>2, <1>3, <1>4, <1>5 DEF Next, vars

\* With nothing under way, the engine runs what the framework asked for, as long
\* as no call met the change of the proxy, and is configured as gps.conf says:
\* whatever order the calls of the HAL, the ULP's forwards, the handlers of
\* MsgTask, setUlpProxy's steps and the modem's restarts took.
THEOREM SessionAlwaysAgrees == Spec => []SessionAgrees
<1> DEFINE Inv == crossed \/ (AskedInv /\ CommandInv)
<1>1. Types /\ QueueInv /\ Inv /\ [Next]_vars => Inv'
  <2> SUFFICES ASSUME Types, QueueInv, ~crossed', AskedInv, CommandInv, [Next]_vars
               PROVE  AskedInv' /\ CommandInv'
    BY CrossedStays
  <2>1. CASE UNCHANGED vars
    <3>1. UNCHANGED <<asked, mUlp, ulpQ, mQ, mNavigating, mFixCriteria, modem, refused, task,
                      hal,
                      count>>
      BY <2>1 DEF vars
    <3>2. WantedCommand' = WantedCommand /\ WantedCriteria' = WantedCriteria
      BY <3>1 DEF WantedCommand, WantedCriteria
    <3>3. AskedInv'
      BY <3>1, <3>2 DEF AskedInv, CallInv, Allowed
    <3>4. Session' = Session
      BY <3>1 DEF Session, Restarting
    <3>5. CommandInv'
      BY <3>1, <3>4 DEF CommandInv, Told
    <3>6. QED
      BY <3>3, <3>5
  <2>2. CASE Framework
    BY <2>2, CommandFramework
  <2>3. CASE PostUpdate \/ requestUlp \/ Modem \/ handleEngineUpEvent
    BY <2>3, CommandOthers
  <2>4. CASE SendCall
    BY <2>4, CallPosted
  <2>5. CASE ForwardInt
    BY <2>5, CommandForwarded
  <2>6. CASE MsgTask
    BY <2>6, CommandMsgTask DEF QueueInv
  <2>7. QED
    BY <2>1, <2>2, <2>3, <2>4, <2>5, <2>6 DEF Next, HalSteps
<1>2. Types /\ QueueInv /\ Inv => SessionAgrees
  BY TypesOK, ConfiguredWhenSettled, AgreesWhenSettled DEF SessionAgrees
<1>3. Init => Inv
  BY CommandInit
<1> HIDE DEF Inv
<1>4. QED
  BY <1>1, <1>2, <1>3, QueueHolds, PTL DEF Spec
=============================================================================
