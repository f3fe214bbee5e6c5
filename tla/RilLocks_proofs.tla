--------------------------- MODULE RilLocks_proofs ---------------------------
(***************************************************************************)
(* Proofs about the two locks that the threads of libril share, the lock   *)
(* of the HIDL service (RilService) and the wake lock (RilWakeLock), for   *)
(* any finite set of vendor threads, any heap and any numbers of clients   *)
(* and messages.                                                           *)
(***************************************************************************)
EXTENDS RilService, RilWakeLock, FiniteSetTheorems, TLAPS

-----------------------------------------------------------------------------
(***************************************************************************)
(* The service.                                                            *)
(***************************************************************************)
\* the places of a thread that holds the lock its caller took for it
Inside == {"check", "call", "note", "release", "unlock"}

\* the threads with a read lock
Readers == {t \in Threads : pc[t] \in Inside /\ writer # t}

\* The lock counts its readers and knows its writer.
LockInv ==
  /\ readers = Cardinality(Readers)
  /\ writer # NoThread => readers = 0 /\ pc[writer] \in Inside \cup {"resetDone"}
  /\ \A t \in Threads : pc[t] = "resetDone" => writer = t

\* while arguments copy, nobody answers without the lock
OpInv == \A t \in Threads : op[t].kind # "error"

\* the client tested against NULL, or found dead, is still there
ClientInv ==
  \A t \in Threads :
    /\ pc[t] = "call" => client # 0
    /\ pc[t] = "note" => client \in dead

\* the counter noted is that of the dead client, or an old one
SeenInv ==
  \A t \in Threads : pc[t] \in {"release", "reset"} =>
    /\ seen[t] =< counter
    /\ seen[t] = counter => client \in dead \cup {0}

SafeInv == ~aborted /\ LockInv /\ OpInv /\ ClientInv /\ SeenInv

\* The inductive invariant.
IInv == TypeOK /\ (~copyFails => SafeInv)

-----------------------------------------------------------------------------
(***************************************************************************)
(* Every step of the model keeps the types.                                *)
(***************************************************************************)
LEMMA TypeStep == ASSUME TypeOK, [Next]_vars PROVE TypeOK'
<1> USE Shape, ThreadsDiffer DEF TypeOK, Threads, Goto, Places, clientVars, lockVars, nitzVars
<1>1. ASSUME NEW v \in Vendors, SendMessage(v) PROVE TypeOK'
  BY <1>1 DEF SendMessage, RdLock, NoOp, Ops
<1>2. ASSUME NEW v \in Vendors, SendNitz(v) PROVE TypeOK'
  BY <1>2 DEF SendNitz, WrLock, Ops
<1>3. ASSUME sendErrorResponse PROVE TypeOK'
  BY <1>3 DEF sendErrorResponse, Ops
<1>4. ASSUME NEW t \in Threads, NoClient(t) PROVE TypeOK'
  BY <1>4 DEF NoClient
<1>5. ASSUME NEW t \in Threads, HasClient(t) PROVE TypeOK'
  BY <1>5 DEF HasClient
<1>6. ASSUME NEW t \in Threads, CallOk(t) PROVE TypeOK'
  BY <1>6 DEF CallOk
<1>7. ASSUME NEW t \in Threads, CallReset(t) PROVE TypeOK'
  BY <1>7 DEF CallReset
<1>8. ASSUME NEW t \in Threads, CallFails(t) PROVE TypeOK'
  BY <1>8 DEF CallFails
<1>9. ASSUME NEW t \in Threads, NoteCounter(t) PROVE TypeOK'
  BY <1>9 DEF NoteCounter
<1>10. ASSUME NEW t \in Threads, ReleaseRdLock(t) PROVE TypeOK'
  BY <1>10 DEF ReleaseRdLock, Unlock
<1>11. ASSUME NEW t \in Threads, ResetClient(t) PROVE TypeOK'
  BY <1>11 DEF ResetClient, WrLock
<1>12. ASSUME NEW t \in Threads, ReleaseWrLock(t) PROVE TypeOK'
  BY <1>12 DEF ReleaseWrLock, Unlock
<1>13. ASSUME NEW t \in Threads, ReacquireRdLock(t) PROVE TypeOK'
  BY <1>13 DEF ReacquireRdLock, RdLock
<1>14. ASSUME NEW t \in Threads, ReturnFromCall(t) PROVE TypeOK'
  <2>1. readers' \in Nat /\ writer' \in Threads \cup {NoThread} /\ aborted' \in BOOLEAN
    <3>1. CASE UNCHANGED <<lockVars, aborted>>
      BY <3>1 DEF lockVars
    <3>2. CASE Unlock(t)
      <4>1. readers' \in Nat /\ writer' \in Threads \cup {NoThread}
        BY <3>2 DEF Unlock
      <4>2. aborted' \in BOOLEAN
        BY <3>2, Zenon DEF Unlock
      <4>3. QED
        BY <4>1, <4>2
    <3>3. QED
      BY <1>14, <3>1, <3>2, Zenon DEF ReturnFromCall
  <2>2. saved' \in 0..MaxNitz
    BY <1>14 DEF ReturnFromCall
  <2>3. pc' \in [Threads -> Places]
    <3>1. PICK place \in {"store", "connect2", "resendCheck", "idle"} : Goto(t, place)
      BY <1>14 DEF ReturnFromCall
    <3>2. QED
      BY <3>1
  <2>4. op' \in [Threads -> Ops]
    <3>1. NoOp \in Ops
      BY DEF NoOp, Ops
    <3>2. op' = op \/ op' = [op EXCEPT ![t] = NoOp]
      BY <1>14 DEF ReturnFromCall
    <3>3. QED
      BY <3>1, <3>2
  <2>5. /\ seen' = [seen EXCEPT ![t] = 0] /\ ret' = [ret EXCEPT ![t] = 0]
        /\ UNCHANGED <<copyFails, client, counter, dead, connected, nitz, stamp, calls>>
    BY <1>14 DEF ReturnFromCall
  <2>6. QED
    BY <2>1, <2>2, <2>3, <2>4, <2>5
<1>15. ASSUME NEW t \in Threads, StoreNitz(t) PROVE TypeOK'
  BY <1>15 DEF StoreNitz, NoOp, Ops
<1>16. ASSUME setResponseFunctions PROVE TypeOK'
  BY <1>16 DEF setResponseFunctions, Clients
<1>17. ASSUME onNewCommandConnect PROVE TypeOK'
  BY <1>17 DEF onNewCommandConnect, RdLock, Ops
<1>18. ASSUME resendLastNITZTimeData PROVE TypeOK'
  BY <1>18 DEF resendLastNITZTimeData, RdLock, Ops
<1>19. ASSUME NothingToResend PROVE TypeOK'
  BY <1>19 DEF NothingToResend
<1>20. ASSUME NEW c \in Clients, ClientDies(c) PROVE TypeOK'
  BY <1>20 DEF ClientDies, Clients
<1>21. CASE UNCHANGED vars
  BY <1>21 DEF vars
<1>22. QED
  BY <1>1, <1>2, <1>3, <1>4, <1>5, <1>6, <1>7, <1>8, <1>9, <1>10, <1>11, <1>12,
     <1>13, <1>14, <1>15, <1>16, <1>17, <1>18, <1>19, <1>20, <1>21, Zenon DEF Next, CallStep, ConnectStep, Quiet

-----------------------------------------------------------------------------
(***************************************************************************)
(* The lock: what a thread that takes it, gives it back or leaves it alone *)
(* does to the number of readers.                                          *)
(***************************************************************************)
LEMMA ReadersFinite == IsFiniteSet(Readers) /\ IsFiniteSet(Readers') /\ Cardinality(Readers) \in Nat
<1>1. IsFiniteSet(Threads)
  BY ThreadsDiffer, FS_AddElement DEF Threads
<1>2. Readers \in SUBSET Threads /\ Readers' \in SUBSET Threads
  BY DEF Readers
<1>3. QED
  BY <1>1, <1>2, FS_Subset, FS_CardinalityType

LEMMA LockLeft ==
  ASSUME TypeOK, LockInv, NEW t \in Threads, NEW l, Goto(t, l), UNCHANGED lockVars,
         pc[t] \in Inside <=> l \in Inside, pc[t] # "resetDone", l # "resetDone"
  PROVE  LockInv'
<1>1. Readers' = Readers
  BY DEF Readers, TypeOK, Goto, lockVars
<1>2. QED
  BY <1>1 DEF LockInv, TypeOK, Goto, lockVars, Inside

LEMMA LockSame ==
  ASSUME LockInv, UNCHANGED <<pc, readers, writer>>
  PROVE  LockInv'
<1>1. Readers' = Readers
  BY DEF Readers
<1>2. QED
  BY <1>1 DEF LockInv

LEMMA ReadTaken ==
  ASSUME TypeOK, LockInv, NEW t \in Threads, NEW l, Goto(t, l), RdLock,
         pc[t] \notin Inside \cup {"resetDone"}, l \in Inside
  PROVE  LockInv'
<1>1. Readers' = Readers \cup {t} /\ t \notin Readers
  BY ThreadsDiffer DEF Readers, TypeOK, Goto, RdLock, Threads
<1>2. Cardinality(Readers') = Cardinality(Readers) + 1
  BY <1>1, ReadersFinite, FS_AddElement
<1>3. writer' = NoThread /\ readers' = readers + 1
  BY DEF RdLock
<1>4. \A s \in Threads : pc'[s] = "resetDone" => pc[s] = "resetDone"
  BY DEF TypeOK, Goto, Inside
<1>5. QED
  BY <1>2, <1>3, <1>4 DEF LockInv, RdLock

LEMMA NobodyInside ==
  ASSUME TypeOK, LockInv, writer = NoThread, readers = 0
  PROVE  \A t \in Threads : pc[t] \notin Inside \cup {"resetDone"}
<1>1. Readers = {}
  BY ReadersFinite, FS_EmptySet DEF LockInv
<1>2. NoThread \notin Threads
  BY ThreadsDiffer DEF Threads
<1>3. QED
  BY <1>1, <1>2 DEF Readers, LockInv

LEMMA WriteTaken ==
  ASSUME TypeOK, LockInv, NEW t \in Threads, NEW l, Goto(t, l), WrLock(t),
         l \in Inside \cup {"resetDone"}
  PROVE  LockInv'
<1>1. \A s \in Threads : pc[s] \notin Inside \cup {"resetDone"}
  BY NobodyInside DEF WrLock
<1>2. writer' = t /\ readers' = 0
  BY DEF WrLock, TypeOK
<1>3. \A s \in Threads : pc'[s] = IF s = t THEN l ELSE pc[s]
  BY DEF TypeOK, Goto
<1>4. Readers' = {}
  BY <1>1, <1>2, <1>3 DEF Readers
<1>5. Cardinality(Readers') = 0
  BY <1>4, FS_EmptySet
<1>6. QED
  BY <1>1, <1>2, <1>3, <1>5 DEF LockInv

LEMMA Unlocked ==
  ASSUME TypeOK, LockInv, NEW t \in Threads, NEW l, Goto(t, l), Unlock(t),
         pc[t] \in Inside \cup {"resetDone"}, l \notin Inside \cup {"resetDone"}
  PROVE  LockInv' /\ ~aborted'
<1>1. t # NoThread
  BY ThreadsDiffer DEF Threads
<1>2. \A s \in Threads : pc'[s] = IF s = t THEN l ELSE pc[s]
  BY DEF TypeOK, Goto
<1>3. CASE writer = t
  <2>1. writer' = NoThread /\ readers' = 0 /\ readers = 0 /\ ~aborted'
    BY <1>1, <1>3 DEF Unlock, LockInv
  <2>2. Readers = {}
    BY <1>1, <1>3, <2>1, ReadersFinite, FS_EmptySet DEF LockInv
  <2>3. Readers' = {}
    BY <1>2, <1>3, <2>1, <2>2 DEF Readers
  <2>4. Cardinality(Readers') = 0
    BY <2>3, FS_EmptySet
  <2>5. QED
    BY <1>2, <1>3, <2>1, <2>4 DEF LockInv
<1>4. CASE writer # t
  <2>1. pc[t] \in Inside /\ t \in Readers
    BY <1>4 DEF LockInv, Readers
  <2>2. Cardinality(Readers) # 0
    BY <2>1, ReadersFinite, FS_EmptySet
  <2>3. readers > 0 /\ readers' = readers - 1 /\ writer' = writer /\ ~aborted'
    <3>1. readers > 0
      BY <2>2, ReadersFinite DEF LockInv
    <3>2. readers' = readers - 1 /\ writer' = writer
      BY <1>4, <3>1 DEF Unlock
    <3>3. readers # 0
      BY <3>1
    <3>4. ~aborted'
      BY <3>3, Zenon DEF Unlock
    <3>5. QED
      BY <3>1, <3>2, <3>4
  <2>4. Readers' = Readers \ {t}
    BY <1>2, <1>4, <2>3 DEF Readers
  <2>5. Cardinality(Readers') = Cardinality(Readers) - 1
    BY <2>1, <2>4, ReadersFinite, FS_RemoveElement
  <2>6. writer = NoThread
    BY <2>3 DEF LockInv, TypeOK
  <2>7. QED
    BY <1>2, <2>3, <2>5, <2>6 DEF LockInv
<1>5. QED
  BY <1>3, <1>4

-----------------------------------------------------------------------------
(***************************************************************************)
(* No step breaks the lock, aborts, or mistakes a client for another.      *)
(***************************************************************************)
LEMMA SafeStep ==
  ASSUME TypeOK, SafeInv, ~copyFails, [Next]_vars
  PROVE  SafeInv'
<1> USE DEF TypeOK, Inside
<1>0. TypeOK /\ LockInv /\ ~aborted
  BY DEF SafeInv
<1>1. ASSUME NEW v \in Vendors, SendMessage(v) PROVE SafeInv'
  <2>1. v \in Threads
    BY <1>1 DEF Threads
  <2>2. LockInv' /\ ~aborted'
    BY <1>0, <1>1, <2>1, ReadTaken DEF SendMessage, RdLock, NoOp
  <2>3. OpInv'
    BY <1>1 DEF SendMessage, SafeInv, OpInv, NoOp
  <2>4. ClientInv' /\ SeenInv'
    BY <1>1, <2>1 DEF SendMessage, Goto, clientVars, SafeInv, ClientInv, SeenInv
  <2>5. QED
    BY <2>2, <2>3, <2>4 DEF SafeInv
<1>2. ASSUME NEW v \in Vendors, SendNitz(v) PROVE SafeInv'
  <2>1. v \in Threads
    BY <1>2 DEF Threads
  <2>2. LockInv' /\ ~aborted'
    BY <1>0, <1>2, <2>1, WriteTaken DEF SendNitz, WrLock
  <2>3. OpInv'
    BY <1>2 DEF SendNitz, SafeInv, OpInv, NoOp
  <2>4. ClientInv' /\ SeenInv'
    BY <1>2, <2>1 DEF SendNitz, Goto, clientVars, SafeInv, ClientInv, SeenInv
  <2>5. QED
    BY <2>2, <2>3, <2>4 DEF SafeInv
<1>3. ASSUME sendErrorResponse PROVE SafeInv'
  BY <1>3 DEF sendErrorResponse
<1>4. ASSUME NEW t \in Threads, NoClient(t) PROVE SafeInv'
  <2>1. t \in Threads
    BY <1>4 DEF Threads
  <2>2. LockInv' /\ ~aborted'
    BY <1>0, <1>4, <2>1, LockLeft DEF NoClient, lockVars
  <2>3. OpInv'
    BY <1>4 DEF NoClient, SafeInv, OpInv, NoOp
  <2>4. ClientInv' /\ SeenInv'
    BY <1>4, <2>1 DEF NoClient, Goto, clientVars, SafeInv, ClientInv, SeenInv
  <2>5. QED
    BY <2>2, <2>3, <2>4 DEF SafeInv
<1>5. ASSUME NEW t \in Threads, HasClient(t) PROVE SafeInv'
  <2>1. t \in Threads
    BY <1>5 DEF Threads
  <2>2. LockInv' /\ ~aborted'
    BY <1>0, <1>5, <2>1, LockLeft DEF HasClient, lockVars
  <2>3. OpInv'
    BY <1>5 DEF HasClient, SafeInv, OpInv, NoOp
  <2>4. ClientInv' /\ SeenInv'
    BY <1>5, <2>1 DEF HasClient, Goto, clientVars, SafeInv, ClientInv, SeenInv
  <2>5. QED
    BY <2>2, <2>3, <2>4 DEF SafeInv
<1>6. ASSUME NEW t \in Threads, CallOk(t) PROVE SafeInv'
  <2>1. t \in Threads
    BY <1>6 DEF Threads
  <2>2. LockInv' /\ ~aborted'
    BY <1>0, <1>6, <2>1, LockLeft DEF CallOk, lockVars
  <2>3. OpInv'
    BY <1>6 DEF CallOk, SafeInv, OpInv, NoOp
  <2>4. ClientInv' /\ SeenInv'
    BY <1>6, <2>1 DEF CallOk, Goto, clientVars, SafeInv, ClientInv, SeenInv
  <2>5. QED
    BY <2>2, <2>3, <2>4 DEF SafeInv
<1>7. ASSUME NEW t \in Threads, CallReset(t) PROVE SafeInv'
  BY <1>7 DEF CallReset, SafeInv, ClientInv
<1>8. ASSUME NEW t \in Threads, CallFails(t) PROVE SafeInv'
  <2>1. t \in Threads
    BY <1>8 DEF Threads
  <2>2. LockInv' /\ ~aborted'
    BY <1>0, <1>8, <2>1, LockLeft DEF CallFails, lockVars
  <2>3. OpInv'
    BY <1>8 DEF CallFails, SafeInv, OpInv, NoOp
  <2>4. ClientInv' /\ SeenInv'
    BY <1>8, <2>1 DEF CallFails, Goto, clientVars, SafeInv, ClientInv, SeenInv
  <2>5. QED
    BY <2>2, <2>3, <2>4 DEF SafeInv
<1>9. ASSUME NEW t \in Threads, NoteCounter(t) PROVE SafeInv'
  <2>1. t \in Threads
    BY <1>9 DEF Threads
  <2>2. LockInv' /\ ~aborted'
    BY <1>0, <1>9, <2>1, LockLeft DEF NoteCounter, lockVars
  <2>3. OpInv'
    BY <1>9 DEF NoteCounter, SafeInv, OpInv, NoOp
  <2>4. ClientInv' /\ SeenInv'
    BY <1>9, <2>1 DEF NoteCounter, Goto, clientVars, SafeInv, ClientInv, SeenInv
  <2>5. QED
    BY <2>2, <2>3, <2>4 DEF SafeInv
<1>10. ASSUME NEW t \in Threads, ReleaseRdLock(t) PROVE SafeInv'
  <2>1. t \in Threads
    BY <1>10 DEF Threads
  <2>2. LockInv' /\ ~aborted'
    BY <1>0, <1>10, <2>1, Unlocked DEF ReleaseRdLock
  <2>3. OpInv'
    BY <1>10 DEF ReleaseRdLock, SafeInv, OpInv, NoOp
  <2>4. ClientInv' /\ SeenInv'
    BY <1>10, <2>1 DEF ReleaseRdLock, Goto, clientVars, SafeInv, ClientInv, SeenInv
  <2>5. QED
    BY <2>2, <2>3, <2>4 DEF SafeInv
<1>11. ASSUME NEW t \in Threads, ResetClient(t) PROVE SafeInv'
  <2>1. t \in Threads
    BY <1>11 DEF Threads
  <2>2. LockInv' /\ ~aborted'
    BY <1>0, <1>11, <2>1, WriteTaken DEF ResetClient, WrLock
  <2>3. \A s \in Threads : pc[s] \notin Inside \cup {"resetDone"}
    BY <1>0, <1>11, NobodyInside DEF ResetClient, WrLock
  <2>4. \A s \in Threads : pc'[s] = pc[s] \/ pc'[s] = "resetDone"
    BY <1>11 DEF ResetClient, Goto
  <2>5. UNCHANGED <<op, seen, dead>> /\ counter' \in {counter, counter + 1}
    BY <1>11 DEF ResetClient, clientVars
  <2>6. counter' = counter => client' = client
    BY <1>11 DEF ResetClient, clientVars
  <2>7. QED
    BY <2>2, <2>3, <2>4, <2>5, <2>6 DEF SafeInv, OpInv, ClientInv, SeenInv
<1>12. ASSUME NEW t \in Threads, ReleaseWrLock(t) PROVE SafeInv'
  <2>1. t \in Threads
    BY <1>12 DEF Threads
  <2>2. LockInv' /\ ~aborted'
    BY <1>0, <1>12, <2>1, Unlocked DEF ReleaseWrLock
  <2>3. OpInv'
    BY <1>12 DEF ReleaseWrLock, SafeInv, OpInv, NoOp
  <2>4. ClientInv' /\ SeenInv'
    BY <1>12, <2>1 DEF ReleaseWrLock, Goto, clientVars, SafeInv, ClientInv, SeenInv
  <2>5. QED
    BY <2>2, <2>3, <2>4 DEF SafeInv
<1>13. ASSUME NEW t \in Threads, ReacquireRdLock(t) PROVE SafeInv'
  <2>1. t \in Threads
    BY <1>13 DEF Threads
  <2>2. LockInv' /\ ~aborted'
    BY <1>0, <1>13, <2>1, ReadTaken DEF ReacquireRdLock, RdLock
  <2>3. OpInv'
    BY <1>13 DEF ReacquireRdLock, SafeInv, OpInv, NoOp
  <2>4. ClientInv' /\ SeenInv'
    BY <1>13, <2>1 DEF ReacquireRdLock, Goto, clientVars, SafeInv, ClientInv, SeenInv
  <2>5. QED
    BY <2>2, <2>3, <2>4 DEF SafeInv
<1>14. ASSUME NEW t \in Threads, ReturnFromCall(t) PROVE SafeInv'
  <2>1. op[t].kind # "error"
    BY DEF SafeInv, OpInv
  <2>2. PICK l \in {"store", "connect2", "resendCheck", "idle"} : Goto(t, l)
    BY <1>14 DEF ReturnFromCall
  <2>3. Unlock(t) /\ pc[t] = "unlock"
    BY <1>14, <2>1 DEF ReturnFromCall
  <2>4. LockInv' /\ ~aborted'
    BY <1>0, <2>2, <2>3, Unlocked
  <2>5. \A s \in Threads : op'[s].kind # "error" /\ (s # t => seen'[s] = seen[s] /\ pc'[s] = pc[s])
    BY <1>14, <2>2 DEF ReturnFromCall, NoOp, SafeInv, OpInv, Goto
  <2>6. UNCHANGED <<client, counter, dead>>
    BY <1>14 DEF ReturnFromCall, clientVars
  <2>7. pc'[t] \notin {"call", "note", "release", "reset"}
    BY <2>2 DEF Goto
  <2>8. QED
    BY <2>4, <2>5, <2>6, <2>7 DEF SafeInv, OpInv, ClientInv, SeenInv
<1>15. ASSUME NEW t \in Threads, StoreNitz(t) PROVE SafeInv'
  <2>1. t \in Threads
    BY <1>15 DEF Threads
  <2>2. LockInv' /\ ~aborted'
    BY <1>0, <1>15, <2>1, LockLeft DEF StoreNitz, lockVars
  <2>3. OpInv'
    BY <1>15 DEF StoreNitz, SafeInv, OpInv, NoOp
  <2>4. ClientInv' /\ SeenInv'
    BY <1>15, <2>1 DEF StoreNitz, Goto, clientVars, SafeInv, ClientInv, SeenInv
  <2>5. QED
    BY <2>2, <2>3, <2>4 DEF SafeInv
<1>16. ASSUME setResponseFunctions PROVE SafeInv'
  <2>1. Binder \in Threads
    BY <1>16 DEF Threads
  <2>2. LockInv' /\ ~aborted'
    BY <1>0, <1>16, <2>1, LockLeft DEF setResponseFunctions, lockVars
  <2>3. \A s \in Threads : pc[s] \notin Inside \cup {"resetDone"}
    BY <1>0, <1>16, NobodyInside DEF setResponseFunctions, lockVars
  <2>4. \A s \in Threads : pc'[s] = pc[s] \/ pc'[s] = "connect"
    BY <1>16 DEF setResponseFunctions, Goto
  <2>5. UNCHANGED <<op, seen, dead>> /\ counter' \in {counter, counter + 1}
    BY <1>16 DEF setResponseFunctions, clientVars
  <2>6. counter' = counter => client' = client
    BY <1>16 DEF setResponseFunctions, clientVars
  <2>7. QED
    BY <2>2, <2>3, <2>4, <2>5, <2>6 DEF SafeInv, OpInv, ClientInv, SeenInv
<1>17. ASSUME onNewCommandConnect PROVE SafeInv'
  <2>1. Binder \in Threads
    BY <1>17 DEF Threads
  <2>2. LockInv' /\ ~aborted'
    BY <1>0, <1>17, <2>1, ReadTaken DEF onNewCommandConnect, RdLock
  <2>3. OpInv'
    BY <1>17 DEF onNewCommandConnect, SafeInv, OpInv, NoOp
  <2>4. ClientInv' /\ SeenInv'
    BY <1>17, <2>1 DEF onNewCommandConnect, Goto, clientVars, SafeInv, ClientInv, SeenInv
  <2>5. QED
    BY <2>2, <2>3, <2>4 DEF SafeInv
<1>18. ASSUME resendLastNITZTimeData PROVE SafeInv'
  <2>1. Binder \in Threads
    BY <1>18 DEF Threads
  <2>2. LockInv' /\ ~aborted'
    BY <1>0, <1>18, <2>1, ReadTaken DEF resendLastNITZTimeData, RdLock
  <2>3. OpInv'
    BY <1>18 DEF resendLastNITZTimeData, SafeInv, OpInv, NoOp
  <2>4. ClientInv' /\ SeenInv'
    BY <1>18, <2>1 DEF resendLastNITZTimeData, Goto, clientVars, SafeInv, ClientInv, SeenInv
  <2>5. QED
    BY <2>2, <2>3, <2>4 DEF SafeInv
<1>19. ASSUME NothingToResend PROVE SafeInv'
  <2>1. Binder \in Threads
    BY <1>19 DEF Threads
  <2>2. LockInv' /\ ~aborted'
    BY <1>0, <1>19, <2>1, LockLeft DEF NothingToResend, lockVars
  <2>3. OpInv'
    BY <1>19 DEF NothingToResend, SafeInv, OpInv, NoOp
  <2>4. ClientInv' /\ SeenInv'
    BY <1>19, <2>1 DEF NothingToResend, Goto, clientVars, SafeInv, ClientInv, SeenInv
  <2>5. QED
    BY <2>2, <2>3, <2>4 DEF SafeInv
<1>20. ASSUME NEW c \in Clients, ClientDies(c) PROVE SafeInv'
  <2>1. UNCHANGED <<pc, readers, writer, op, client, counter, seen, aborted>> /\ dead \subseteq dead'
    BY <1>20 DEF ClientDies, clientVars, lockVars
  <2>2. LockInv'
    BY <1>0, <2>1, LockSame
  <2>3. QED
    BY <2>1, <2>2 DEF SafeInv, OpInv, ClientInv, SeenInv
<1>21. CASE UNCHANGED vars
  <2>1. UNCHANGED <<pc, readers, writer, op, client, counter, dead, seen, aborted>>
    BY <1>21 DEF vars, clientVars, lockVars
  <2>2. LockInv'
    BY <1>0, <2>1, LockSame
  <2>3. QED
    BY <2>1, <2>2 DEF SafeInv, OpInv, ClientInv, SeenInv
<1>22. QED
  BY <1>1, <1>2, <1>3, <1>4, <1>5, <1>6, <1>7, <1>8, <1>9, <1>10, <1>11, <1>12,
     <1>13, <1>14, <1>15, <1>16, <1>17, <1>18, <1>19, <1>20, <1>21, Zenon DEF Next, CallStep, ConnectStep, Quiet

LEMMA InitSafe == ASSUME Init PROVE IInv
<1>1. TypeOK
  <2>1. NoOp \in Ops
    BY ThreadsDiffer, Shape DEF NoOp, Ops
  <2>2. 0 \in 0..MaxClient /\ 0 \in 0..MaxNitz
    BY Shape
  <2>3. /\ pc \in [Threads -> Places] /\ op \in [Threads -> Ops]
        /\ seen \in [Threads -> Nat] /\ ret \in [Threads -> {0, 1}]
    BY <2>1 DEF Init, Places
  <2>4. copyFails \in BOOLEAN /\ aborted \in BOOLEAN /\ dead \subseteq Clients
    BY DEF Init
  <2>5. /\ client \in 0..MaxClient /\ connected \in 0..MaxClient /\ nitz \in 0..MaxNitz
        /\ stamp \in 0..MaxNitz /\ saved \in 0..MaxNitz
    BY <2>2 DEF Init
  <2>6. counter \in Nat /\ readers \in Nat /\ calls \in Nat /\ writer \in Threads \cup {NoThread}
    BY DEF Init
  <2>7. QED
    BY <2>3, <2>4, <2>5, <2>6 DEF TypeOK
<1>2. Readers = {}
  BY DEF Init, Readers, Inside
<1>3. LockInv
  BY <1>2, FS_EmptySet DEF Init, LockInv
<1>4. QED
  BY <1>1, <1>3 DEF Init, IInv, SafeInv, OpInv, ClientInv, SeenInv, NoOp

LEMMA NextSafe == ASSUME IInv, [Next]_vars PROVE IInv'
<1>1. TypeOK'
  BY TypeStep DEF IInv
<1>2. copyFails' = copyFails
  BY DEF Next, vars, Quiet, CallStep, ConnectStep, SendMessage, SendNitz, sendErrorResponse,
    NoClient, HasClient, CallOk, CallReset, CallFails, NoteCounter, ReleaseRdLock, ResetClient,
    ReleaseWrLock, ReacquireRdLock, ReturnFromCall, StoreNitz, setResponseFunctions,
    onNewCommandConnect, resendLastNITZTimeData, NothingToResend, ClientDies
<1>3. QED
  BY <1>1, <1>2, SafeStep DEF IInv

(***************************************************************************)
(* As long as arguments copy, no unlock fails and no callback is reset     *)
(* between its test and its use, for any number of threads and clients     *)
(* (checkReturnStatus and its callers).                                    *)
(***************************************************************************)
THEOREM NeverAborts == Spec => []NoAbort
<1>1. IInv => NoAbort
  BY DEF IInv, NoAbort, SafeInv
<1>2. QED
  BY InitSafe, NextSafe, <1>1, PTL DEF Spec

(***************************************************************************)
(* checkReturnStatus disconnects no client but a dead one, whoever         *)
(* connects while it waits for the write lock.                             *)
(***************************************************************************)
THEOREM LiveClientAlwaysKept == Spec => LiveClientKept
<1>1. ASSUME IInv, [Next]_vars
      PROVE  [~copyFails /\ client # 0 /\ client' = 0 => client \in dead]_vars
  <2> SUFFICES ASSUME ~copyFails, client # 0, client' = 0, Next PROVE client \in dead
    BY <1>1
  <2>1. \/ \E t \in Threads : ResetClient(t)
        \/ client' = client \/ client' = connected + 1
    BY DEF Next, vars, Quiet, CallStep, ConnectStep, SendMessage, SendNitz, sendErrorResponse,
      NoClient, HasClient, CallOk, CallReset, CallFails, NoteCounter, ReleaseRdLock,
      ReleaseWrLock, ReacquireRdLock, ReturnFromCall, StoreNitz, setResponseFunctions,
      onNewCommandConnect, resendLastNITZTimeData, NothingToResend, ClientDies, clientVars
  <2>2. ASSUME NEW t \in Threads, ResetClient(t) PROVE client \in dead
    BY <1>1, <2>2 DEF ResetClient, clientVars, IInv, SafeInv, SeenInv, TypeOK
  <2>3. client' # connected + 1
    BY <1>1, Shape DEF IInv, TypeOK
  <2>4. QED
    BY <2>1, <2>2, <2>3
<1>2. QED
  BY InitSafe, NextSafe, <1>1, PTL DEF Spec, LiveClientKept

-----------------------------------------------------------------------------
(***************************************************************************)
(* The wake lock.                                                          *)
(***************************************************************************)
GrabPlaces == {"load", "cancel", "store"}
ReleasePlaces == {"releaseLoad", "releaseCancel", "unlock"}

\* version 13: exactly the thread inside a critical section owns the mutex
MutexInv ==
  v13 => \A t \in Threads :
           /\ at[t] \in GrabPlaces \cup ReleasePlaces <=> mutex = t
           /\ at[t] # "schedule"

\* the event loop thread owns the block of the timer it runs
LoopInv ==
  loop.at # "select" => loop.info \in Infos /\ block[loop.info] = "running"

\* version 13: s_last_wake_timeout_info does not dangle
LastInv ==
  v13 =>
    /\ last # NoInfo => block[last] # "free"
    /\ loop.at = "free" => last # loop.info

\* the timer p will drop the hold, or is dropping it
Pending(p) ==
  \/ block[p] = "armed" /\ ~cancelled[p]
  \/ loop.at = "callback" /\ ~loop.param /\ loop.info = p

\* version 13: the timer of an unfinished grab is not the one it cancels
GrabInv ==
  v13 => \A t \in Threads : at[t] \in GrabPlaces =>
           /\ info[t] \in Infos /\ Pending(info[t])
           /\ last # info[t]
           /\ at[t] = "cancel" => prev[t] # info[t]

\* version 13: an unfinished release has dropped the kernel's lock
ReleaseInv ==
  v13 => \A t \in Threads : at[t] \in ReleasePlaces => ~held

\* version 13: the count and the kernel's lock
CountInv ==
  v13 => /\ held => count > 0
         /\ count > 0 /\ ~MayFailAlloc => held

\* The inductive invariant.
WakeInv ==
  /\ WakeTypeOK /\ MutexInv /\ LoopInv /\ LastInv
  /\ GrabInv /\ ReleaseInv /\ CountInv /\ HoldCovered

-----------------------------------------------------------------------------
(***************************************************************************)
(* Every step of the model keeps the types.                                *)
(***************************************************************************)
LEMMA WakeTypeStep == ASSUME WakeTypeOK, [WakeNext]_wakeVars PROVE WakeTypeOK'
<1>0. Vendors \subseteq Threads
  BY DEF Threads
<1>1. ASSUME NEW v \in Vendors, GrabCounted(v)
      PROVE  WakeTypeOK'
  BY <1>0, <1>1 DEF GrabCounted, internalRequestTimedCallback, Proceed, WakeTypeOK, WakePlaces, LoopPlaces, holdVars, heapVars, threadVars, tallyVars
<1>2. ASSUME NEW v \in Vendors, GrabNoMemory(v)
      PROVE  WakeTypeOK'
  <2>1. /\ held' = FALSE /\ sent' = sent + 1
        /\ at' = [at EXCEPT ![v] = "deliver"]
        /\ UNCHANGED <<v13, count, mutex, last, block, cancelled, due,
                       info, prev, loop, owed, unsent>>
    BY <1>2 DEF GrabNoMemory, Proceed, heapVars
  <2>2. held' \in BOOLEAN
    BY <2>1
  <2>3. QED
    BY <1>0, <2>1, <2>2 DEF WakeTypeOK, WakePlaces
<1>3. ASSUME NEW v \in Vendors, GrabPlain(v)
      PROVE  WakeTypeOK'
  BY <1>0, <1>3 DEF GrabPlain, Proceed, WakeTypeOK, WakePlaces, LoopPlaces, holdVars, heapVars, threadVars, tallyVars
<1>4. ASSUME NEW v \in Vendors, ErrorExit(v)
      PROVE  WakeTypeOK'
  BY <1>0, <1>4 DEF ErrorExit, Proceed, WakeTypeOK, WakePlaces, LoopPlaces, holdVars, heapVars, threadVars, tallyVars
<1>5. ASSUME NEW t \in Threads, LoadLast(t)
      PROVE  WakeTypeOK'
  BY <1>0, <1>5 DEF LoadLast, Proceed, WakeTypeOK, WakePlaces, LoopPlaces, holdVars, heapVars, threadVars, tallyVars
<1>6. ASSUME NEW t \in Threads, CancelLast(t)
      PROVE  WakeTypeOK'
  BY <1>0, <1>6 DEF CancelLast, Proceed, WakeTypeOK, WakePlaces, LoopPlaces, holdVars, heapVars, threadVars, tallyVars
<1>7. ASSUME NEW t \in Threads, StoreLast(t)
      PROVE  WakeTypeOK'
  BY <1>0, <1>7 DEF StoreLast, Proceed, WakeTypeOK, WakePlaces, LoopPlaces, holdVars, heapVars, threadVars, tallyVars
<1>8. ASSUME NEW t \in Threads, Deliver(t)
      PROVE  WakeTypeOK'
  BY <1>0, <1>8 DEF Deliver, Proceed, WakeTypeOK, WakePlaces, LoopPlaces, holdVars, heapVars, threadVars, tallyVars
<1>9. ASSUME NEW t \in Threads, ScheduleTimeout(t)
      PROVE  WakeTypeOK'
  BY <1>0, <1>9 DEF ScheduleTimeout, internalRequestTimedCallback, Proceed, WakeTypeOK, WakePlaces, LoopPlaces, holdVars, heapVars, threadVars, tallyVars
<1>10. ASSUME NEW t \in Threads, ReleaseOne(t)
      PROVE  WakeTypeOK'
  BY <1>0, <1>10 DEF ReleaseOne, Proceed, WakeTypeOK, WakePlaces, LoopPlaces, holdVars, heapVars, threadVars, tallyVars
<1>11. ASSUME NEW t \in Threads, ReleaseLast(t)
      PROVE  WakeTypeOK'
  BY <1>0, <1>11 DEF ReleaseLast, Proceed, WakeTypeOK, WakePlaces, LoopPlaces, holdVars, heapVars, threadVars, tallyVars
<1>12. ASSUME NEW t \in Threads, ReleaseUnlock(t)
      PROVE  WakeTypeOK'
  BY <1>0, <1>12 DEF ReleaseUnlock, Proceed, WakeTypeOK, WakePlaces, LoopPlaces, holdVars, heapVars, threadVars, tallyVars
<1>13. ASSUME NEW t \in Threads, ReleasePlain(t)
      PROVE  WakeTypeOK'
  BY <1>0, <1>13 DEF ReleasePlain, Proceed, WakeTypeOK, WakePlaces, LoopPlaces, holdVars, heapVars, threadVars, tallyVars
<1>14. ASSUME responseAcknowledgement
      PROVE  WakeTypeOK'
  BY <1>14 DEF Threads, responseAcknowledgement, Proceed, WakeTypeOK, WakePlaces, LoopPlaces, holdVars, heapVars, threadVars, tallyVars
<1>15. ASSUME NEW p \in Infos, userTimerCallback(p)
      PROVE  WakeTypeOK'
  BY <1>0, <1>15 DEF userTimerCallback, WakeTypeOK, WakePlaces, LoopPlaces, holdVars, heapVars, threadVars, tallyVars
<1>16. ASSUME wakeTimeoutCallback
      PROVE  WakeTypeOK'
  BY <1>0, <1>16 DEF wakeTimeoutCallback, WakeTypeOK, WakePlaces, LoopPlaces, holdVars, heapVars, threadVars, tallyVars
<1>17. ASSUME SkipCancelled
      PROVE  WakeTypeOK'
  BY <1>0, <1>17 DEF SkipCancelled, WakeTypeOK, WakePlaces, LoopPlaces, holdVars, heapVars, threadVars, tallyVars
<1>18. ASSUME CompareLast
      PROVE  WakeTypeOK'
  BY <1>0, <1>18 DEF CompareLast, WakeTypeOK, WakePlaces, LoopPlaces, holdVars, heapVars, threadVars, tallyVars
<1>19. ASSUME ClearLast
      PROVE  WakeTypeOK'
  BY <1>0, <1>19 DEF ClearLast, WakeTypeOK, WakePlaces, LoopPlaces, holdVars, heapVars, threadVars, tallyVars
<1>20. ASSUME FreeInfo
      PROVE  WakeTypeOK'
  BY <1>0, <1>20 DEF FreeInfo, Idle, WakeTypeOK, WakePlaces, LoopPlaces, holdVars, heapVars, threadVars, tallyVars
<1>21. ASSUME UNCHANGED wakeVars
      PROVE  WakeTypeOK'
  BY <1>0, <1>21 DEF wakeVars, WakeTypeOK, WakePlaces, LoopPlaces, holdVars, heapVars, threadVars, tallyVars
<1>22. ASSUME NEW t \in Threads, ThreadStep(t) PROVE WakeTypeOK'
  BY <1>22, <1>5, <1>6, <1>7, <1>8, <1>9, <1>10, <1>11, <1>12, <1>13
     DEF ThreadStep, ReleaseStep
<1>23. ASSUME EventLoop PROVE WakeTypeOK'
  BY <1>23, <1>15, <1>16, <1>17, <1>18, <1>19, <1>20 DEF EventLoop
<1>24. QED
  BY <1>1, <1>2, <1>3, <1>4, <1>14, <1>21, <1>22, <1>23
     DEF WakeNext, NewMessage, WakeQuiet

(***************************************************************************)
(* Type correctness: WakeSpec keeps every variable in its type.                *)
(***************************************************************************)
THEOREM TypeCorrect == WakeSpec => []WakeTypeOK
<1>1. ASSUME WakeInit PROVE WakeTypeOK
  <2>1. /\ v13 \in BOOLEAN /\ held \in BOOLEAN /\ count \in Nat
        /\ mutex \in Threads \cup {NoThread} /\ last \in Infos \cup {NoInfo}
        /\ sent \in Nat /\ owed \in Nat /\ unsent \in Nat
    BY <1>1 DEF WakeInit
  <2>2. /\ block \in [Infos -> {"free", "armed", "running"}]
        /\ due \in [Infos -> Nat]
    BY <1>1 DEF WakeInit
  <2>3. cancelled \in [Infos -> BOOLEAN]
    BY <1>1 DEF WakeInit
  <2>4. at \in [Threads -> WakePlaces]
    BY <1>1 DEF WakeInit, WakePlaces
  <2>5. /\ info \in [Threads -> Infos \cup {NoInfo}]
        /\ prev \in [Threads -> Infos \cup {NoInfo}]
    BY <1>1 DEF WakeInit
  <2>6. loop \in [at : LoopPlaces, info : Infos \cup {NoInfo}, param : BOOLEAN]
    BY <1>1 DEF WakeInit, Idle, LoopPlaces
  <2>7. QED
    BY <2>1, <2>2, <2>3, <2>4, <2>5, <2>6 DEF WakeTypeOK
<1>2. QED
  BY <1>1, WakeTypeStep, PTL DEF WakeSpec

(***************************************************************************)
(* Every step of the model keeps the parts of WakeInv, action by action.      *)
(***************************************************************************)
WakeParts ==
  /\ MutexInv /\ LoopInv /\ LastInv
  /\ GrabInv /\ ReleaseInv /\ CountInv /\ HoldCovered

LEMMA WakeStep == ASSUME WakeInv, WakeTypeOK', [WakeNext]_wakeVars PROVE WakeInv'
<1> USE DEF WakeInv, WakeParts, GrabPlaces, ReleasePlaces, Pending
<1>0. Vendors \subseteq Threads /\ NoInfo \notin Infos /\ NoThread \notin Threads
  BY Distinct, ThreadsDiffer DEF Threads
<1>1. ASSUME NEW v \in Vendors, GrabCounted(v) PROVE WakeParts'
  BY <1>0, <1>1 DEF GrabCounted, internalRequestTimedCallback, Proceed, MutexInv,
     LoopInv, LastInv, GrabInv, ReleaseInv, CountInv, HoldCovered, LiveTimer,
     ExpiryUnderWay, WakeTypeOK
<1>2. ASSUME NEW v \in Vendors, GrabNoMemory(v) PROVE WakeParts'
  BY <1>0, <1>2, Bounds DEF GrabNoMemory, Proceed, heapVars, MutexInv, LoopInv,
     LastInv, GrabInv, ReleaseInv, CountInv, HoldCovered, LiveTimer,
     ExpiryUnderWay, WakeTypeOK
<1>3. ASSUME NEW v \in Vendors, GrabPlain(v) PROVE WakeParts'
  BY <1>0, <1>3 DEF GrabPlain, Proceed, heapVars, MutexInv, LoopInv, LastInv,
     GrabInv, ReleaseInv, CountInv, HoldCovered, LiveTimer, ExpiryUnderWay,
     WakeTypeOK
<1>4. ASSUME NEW v \in Vendors, ErrorExit(v) PROVE WakeParts'
  BY <1>0, <1>4 DEF ErrorExit, Proceed, holdVars, heapVars, tallyVars, MutexInv,
     LoopInv, LastInv, GrabInv, ReleaseInv, CountInv, HoldCovered, LiveTimer,
     ExpiryUnderWay, WakeTypeOK
<1>5. ASSUME NEW t \in Threads, LoadLast(t) PROVE WakeParts'
  BY <1>0, <1>5 DEF LoadLast, Proceed, holdVars, heapVars, tallyVars, MutexInv,
     LoopInv, LastInv, GrabInv, ReleaseInv, CountInv, HoldCovered, LiveTimer,
     ExpiryUnderWay, WakeTypeOK
<1>6. ASSUME NEW t \in Threads, CancelLast(t) PROVE WakeParts'
  BY <1>0, <1>6 DEF CancelLast, Proceed, holdVars, tallyVars, MutexInv, LoopInv,
     LastInv, GrabInv, ReleaseInv, CountInv, HoldCovered, LiveTimer,
     ExpiryUnderWay, WakeTypeOK
<1>7. ASSUME NEW t \in Threads, StoreLast(t) PROVE WakeParts'
  BY <1>0, <1>7 DEF StoreLast, Proceed, heapVars, tallyVars, MutexInv, LoopInv,
     LastInv, GrabInv, ReleaseInv, CountInv, HoldCovered, LiveTimer,
     ExpiryUnderWay, WakeTypeOK
<1>8. ASSUME NEW t \in Threads, Deliver(t) PROVE WakeParts'
  BY <1>0, <1>8 DEF Deliver, Proceed, holdVars, heapVars, MutexInv, LoopInv,
     LastInv, GrabInv, ReleaseInv, CountInv, HoldCovered, LiveTimer,
     ExpiryUnderWay, WakeTypeOK
<1>9. ASSUME NEW t \in Threads, ScheduleTimeout(t) PROVE WakeParts'
  BY <1>0, <1>9 DEF ScheduleTimeout, internalRequestTimedCallback, Proceed,
     holdVars, tallyVars, MutexInv, LoopInv, LastInv, GrabInv, ReleaseInv,
     CountInv, HoldCovered, LiveTimer, ExpiryUnderWay, WakeTypeOK
<1>10. ASSUME NEW t \in Threads, ReleaseOne(t) PROVE WakeParts'
  BY <1>0, <1>10 DEF ReleaseOne, Proceed, heapVars, tallyVars, MutexInv, LoopInv,
     LastInv, GrabInv, ReleaseInv, CountInv, HoldCovered, LiveTimer,
     ExpiryUnderWay, WakeTypeOK
<1>11. ASSUME NEW t \in Threads, ReleaseLast(t) PROVE WakeParts'
  BY <1>0, <1>11 DEF ReleaseLast, Proceed, heapVars, tallyVars, MutexInv,
     LoopInv, LastInv, GrabInv, ReleaseInv, CountInv, HoldCovered, LiveTimer,
     ExpiryUnderWay, WakeTypeOK
<1>12. ASSUME NEW t \in Threads, ReleaseUnlock(t) PROVE WakeParts'
  BY <1>0, <1>12 DEF ReleaseUnlock, Proceed, heapVars, tallyVars, MutexInv,
     LoopInv, LastInv, GrabInv, ReleaseInv, CountInv, HoldCovered, LiveTimer,
     ExpiryUnderWay, WakeTypeOK
<1>13. ASSUME NEW t \in Threads, ReleasePlain(t) PROVE WakeParts'
  BY <1>0, <1>13 DEF ReleasePlain, Proceed, heapVars, tallyVars, MutexInv,
     LoopInv, LastInv, GrabInv, ReleaseInv, CountInv, HoldCovered, LiveTimer,
     ExpiryUnderWay, WakeTypeOK
<1>14. ASSUME responseAcknowledgement PROVE WakeParts'
  BY <1>0, <1>14 DEF responseAcknowledgement, Proceed, holdVars, heapVars,
     MutexInv, LoopInv, LastInv, GrabInv, ReleaseInv, CountInv, HoldCovered,
     LiveTimer, ExpiryUnderWay, WakeTypeOK, Threads
<1>15. ASSUME NEW p \in Infos, userTimerCallback(p) PROVE WakeParts'
  BY <1>0, <1>15 DEF userTimerCallback, holdVars, threadVars, tallyVars,
     MutexInv, LoopInv, LastInv, GrabInv, ReleaseInv, CountInv, HoldCovered,
     LiveTimer, ExpiryUnderWay, WakeTypeOK
<1>16. ASSUME wakeTimeoutCallback PROVE WakeParts'
  BY <1>0, <1>16 DEF wakeTimeoutCallback, heapVars, threadVars, tallyVars,
     MutexInv, LoopInv, LastInv, GrabInv, ReleaseInv, CountInv, HoldCovered,
     LiveTimer, ExpiryUnderWay, WakeTypeOK
<1>17. ASSUME SkipCancelled PROVE WakeParts'
  BY <1>0, <1>17 DEF SkipCancelled, holdVars, heapVars, threadVars, tallyVars,
     MutexInv, LoopInv, LastInv, GrabInv, ReleaseInv, CountInv, HoldCovered,
     LiveTimer, ExpiryUnderWay, WakeTypeOK
<1>18. ASSUME CompareLast PROVE WakeParts'
  BY <1>0, <1>18 DEF CompareLast, holdVars, heapVars, threadVars, tallyVars,
     MutexInv, LoopInv, LastInv, GrabInv, ReleaseInv, CountInv, HoldCovered,
     LiveTimer, ExpiryUnderWay, WakeTypeOK
<1>19. ASSUME ClearLast PROVE WakeParts'
  BY <1>0, <1>19 DEF ClearLast, holdVars, heapVars, threadVars, tallyVars,
     MutexInv, LoopInv, LastInv, GrabInv, ReleaseInv, CountInv, HoldCovered,
     LiveTimer, ExpiryUnderWay, WakeTypeOK
<1>20. ASSUME FreeInfo PROVE WakeParts'
  BY <1>0, <1>20 DEF FreeInfo, Idle, holdVars, threadVars, tallyVars,
     MutexInv, LoopInv, LastInv, GrabInv, ReleaseInv, CountInv, HoldCovered,
     LiveTimer, ExpiryUnderWay, WakeTypeOK
<1>21. ASSUME UNCHANGED wakeVars PROVE WakeParts'
  BY <1>0, <1>21 DEF wakeVars, holdVars, heapVars, threadVars, tallyVars,
     MutexInv, LoopInv, LastInv, GrabInv, ReleaseInv, CountInv, HoldCovered,
     LiveTimer, ExpiryUnderWay, WakeTypeOK
<1>22. ASSUME NEW t \in Threads, ThreadStep(t) PROVE WakeParts'
  BY <1>22, <1>5, <1>6, <1>7, <1>8, <1>9, <1>10, <1>11, <1>12, <1>13
     DEF ThreadStep, ReleaseStep
<1>23. ASSUME EventLoop PROVE WakeParts'
  BY <1>23, <1>15, <1>16, <1>17, <1>18, <1>19, <1>20 DEF EventLoop
<1>24. WakeParts'
  BY <1>1, <1>2, <1>3, <1>4, <1>14, <1>21, <1>22, <1>23
     DEF WakeNext, NewMessage, WakeQuiet
<1>25. QED
  BY <1>24

\* Spec keeps the inductive invariant.
LEMMA WakeInductive == WakeSpec => []WakeInv
<1>1. ASSUME WakeInit PROVE WakeParts
  BY <1>1, Distinct, ThreadsDiffer
     DEF WakeInit, Idle, WakeParts, MutexInv, LoopInv, LastInv, GrabInv, ReleaseInv,
         CountInv, HoldCovered, GrabPlaces, ReleasePlaces, Threads
<1>2. WakeInit /\ WakeTypeOK => WakeInv
  BY <1>1 DEF WakeInv, WakeParts
<1>3. QED
  BY <1>2, WakeStep, TypeCorrect, PTL DEF WakeSpec

(***************************************************************************)
(* Outside s_wakeLockCountMutex, a held lock always has a live timer: for  *)
(* any number of vendor threads and messages, RIL_onUnsolicitedResponse    *)
(* and RIL_onRequestComplete never leave a wake lock nothing will drop.    *)
(***************************************************************************)
THEOREM HoldAlwaysCovered == WakeSpec => []HoldCovered
<1>1. WakeInv => HoldCovered
  BY DEF WakeInv
<1>2. QED
  BY <1>1, WakeInductive, PTL

(***************************************************************************)
(* s_wakelock_count never loses a lock the kernel holds, so releaseWakeLock*)
(* can always count down to it.                                            *)
(***************************************************************************)
THEOREM HoldAlwaysCounted == WakeSpec => []NoUncountedHold
<1>1. WakeInv => NoUncountedHold
  BY DEF WakeInv, CountInv, NoUncountedHold
<1>2. QED
  BY <1>1, WakeInductive, PTL

-----------------------------------------------------------------------------
(***************************************************************************)
(* Who still owes a release: a message in the hands of a thread, from its  *)
(* grab to its delivery or from its acknowledgement to its release, one    *)
(* the framework has not acknowledged, or one that found no client.        *)
(***************************************************************************)
Carrying == GrabPlaces \cup {"deliver", "release"}
Carriers == {t \in Threads : at[t] \in Carrying}

OwedInv == v13 => count =< Cardinality(Carriers) + owed + unsent

LEMMA CarriersFinite ==
  /\ IsFiniteSet(Carriers) /\ Cardinality(Carriers) \in Nat
  /\ IsFiniteSet(Carriers') /\ Cardinality(Carriers') \in Nat
<1>1. IsFiniteSet(Threads)
  BY ThreadsDiffer, FS_AddElement DEF Threads
<1>2. Carriers \in SUBSET Threads /\ Carriers' \in SUBSET Threads
  BY DEF Carriers
<1>3. QED
  BY <1>1, <1>2, FS_Subset, FS_CardinalityType

\* A thread that moves changes the number of carriers by one at most.
LEMMA CarrierMoves ==
  ASSUME WakeTypeOK, NEW t \in Threads, NEW place, Proceed(t, place)
  PROVE  Cardinality(Carriers') = Cardinality(Carriers)
           + (IF place \in Carrying THEN 1 ELSE 0) - (IF at[t] \in Carrying THEN 1 ELSE 0)
<1>1. CASE place \in Carrying /\ at[t] \notin Carrying
  <2>1. Carriers' = Carriers \cup {t} /\ t \notin Carriers
    BY <1>1 DEF Carriers, WakeTypeOK, Proceed
  <2>2. QED
    BY <1>1, <2>1, CarriersFinite, FS_AddElement
<1>2. CASE place \notin Carrying /\ at[t] \in Carrying
  <2>1. Carriers' = Carriers \ {t} /\ t \in Carriers
    BY <1>2 DEF Carriers, WakeTypeOK, Proceed
  <2>2. QED
    BY <1>2, <2>1, CarriersFinite, FS_RemoveElement
<1>3. CASE place \in Carrying <=> at[t] \in Carrying
  <2>1. Carriers' = Carriers
    BY <1>3 DEF Carriers, WakeTypeOK, Proceed
  <2>2. QED
    BY <1>3, <2>1, CarriersFinite
<1>4. QED
  BY <1>1, <1>2, <1>3

LEMMA OwedStep == ASSUME WakeTypeOK, OwedInv, [WakeNext]_wakeVars PROVE OwedInv'
<1> USE DEF Carrying, GrabPlaces
<1>0. /\ Vendors \subseteq Threads /\ Binder \in Threads
      /\ Cardinality(Carriers) \in Nat /\ Cardinality(Carriers') \in Nat
      /\ count \in Nat /\ owed \in Nat /\ unsent \in Nat
  BY CarriersFinite DEF Threads, WakeTypeOK
<1>1. ASSUME NEW v \in Vendors, NewMessage(v) PROVE OwedInv'
  <2>1. CASE GrabCounted(v)
    BY <1>0, <2>1, CarrierMoves DEF OwedInv, GrabCounted
  <2>2. CASE GrabNoMemory(v)
    BY <1>0, <2>2, CarrierMoves DEF OwedInv, GrabNoMemory
  <2>3. CASE GrabPlain(v)
    BY <2>3 DEF OwedInv, GrabPlain
  <2>4. QED
    BY <1>1, <2>1, <2>2, <2>3 DEF NewMessage
<1>2. ASSUME NEW v \in Vendors, ErrorExit(v) PROVE OwedInv'
  BY <1>0, <1>2, CarrierMoves DEF OwedInv, ErrorExit, holdVars, tallyVars
<1>3. ASSUME NEW t \in Threads, ThreadStep(t) PROVE OwedInv'
  <2>1. CASE LoadLast(t)
    BY <1>0, <2>1, CarrierMoves DEF OwedInv, LoadLast, holdVars, tallyVars
  <2>2. CASE CancelLast(t)
    BY <1>0, <2>2, CarrierMoves DEF OwedInv, CancelLast, holdVars, tallyVars
  <2>3. CASE StoreLast(t)
    BY <1>0, <2>3, CarrierMoves DEF OwedInv, StoreLast, tallyVars
  <2>4. CASE Deliver(t)
    BY <1>0, <2>4, CarrierMoves DEF OwedInv, Deliver, holdVars
  <2>5. CASE ScheduleTimeout(t)
    BY <1>0, <2>5, CarrierMoves DEF OwedInv, ScheduleTimeout, holdVars, tallyVars
  <2>6. CASE ReleaseOne(t)
    BY <1>0, <2>6, CarrierMoves DEF OwedInv, ReleaseOne, tallyVars
  <2>7. CASE ReleaseLast(t)
    BY <1>0, <2>7 DEF OwedInv, ReleaseLast, tallyVars
  <2>8. CASE ReleaseUnlock(t)
    BY <1>0, <2>8, CarrierMoves DEF OwedInv, ReleaseUnlock, tallyVars
  <2>9. CASE ReleasePlain(t)
    BY <2>9 DEF OwedInv, ReleasePlain
  <2>10. QED
    BY <1>3, <2>1, <2>2, <2>3, <2>4, <2>5, <2>6, <2>7, <2>8, <2>9
       DEF ThreadStep, ReleaseStep
<1>4. ASSUME responseAcknowledgement PROVE OwedInv'
  BY <1>0, <1>4, CarrierMoves DEF OwedInv, responseAcknowledgement, holdVars
<1>5. ASSUME EventLoop PROVE OwedInv'
  <2>1. UNCHANGED <<v13, at, owed, unsent>> /\ count' \in {0, count}
    BY <1>5 DEF EventLoop, userTimerCallback, wakeTimeoutCallback, SkipCancelled,
       CompareLast, ClearLast, FreeInfo, holdVars, threadVars, tallyVars
  <2>2. QED
    BY <1>0, <2>1 DEF OwedInv, Carriers
<1>6. ASSUME UNCHANGED wakeVars PROVE OwedInv'
  BY <1>6 DEF wakeVars, holdVars, threadVars, tallyVars, OwedInv, Carriers
<1>7. QED
  BY <1>1, <1>2, <1>3, <1>4, <1>5, <1>6 DEF WakeNext, WakeQuiet

(***************************************************************************)
(* A framework that acknowledged everything does not keep the device awake *)
(* until the timer: s_wakelock_count never exceeds the messages owed,      *)
(* whatever expiries, failed allocations and cancelled timers came between *)
(* (grabPartialWakeLock, releaseWakeLock, wakeTimeoutCallback).            *)
(***************************************************************************)
THEOREM AckedAlwaysReleased == WakeSpec => []AckedMeansReleased
<1>1. WakeInit => OwedInv
  BY CarriersFinite DEF WakeInit, OwedInv
<1>2. WakeInv /\ OwedInv => AckedMeansReleased
  <2> SUFFICES ASSUME WakeInv, OwedInv, v13, owed = 0, unsent = 0, \A t \in Threads : at[t] = "idle"
               PROVE  ~held
    BY DEF AckedMeansReleased
  <2>1. Carriers = {}
    BY DEF Carriers, Carrying, GrabPlaces
  <2>2. count = 0
    BY <2>1, FS_EmptySet DEF OwedInv, WakeInv, WakeTypeOK
  <2>3. QED
    BY <2>2 DEF WakeInv, CountInv
<1>3. QED
  BY <1>1, <1>2, OwedStep, TypeCorrect, WakeInductive, PTL DEF WakeSpec
=============================================================================
