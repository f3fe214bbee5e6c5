------------------------------ MODULE LocTimer ------------------------------
(***************************************************************************)
(* The timers of the GPS libraries (gps/utils/LocTimer.cpp) over the       *)
(* message task (MsgTask.cpp), its queue (msg_q.c, linked_list.c) and the  *)
(* heap (LocHeap.cpp).                                                     *)
(*                                                                         *)
(* A client starts and stops a LocTimer under its own lock, which creates  *)
(* and disowns a LocTimerDelegate and sends a message for it.  The message *)
(* task alone touches the heaps and deletes delegates; the poll thread     *)
(* alone waits for the timer descriptors, one for each container, which    *)
(* both threads arm and disarm without a common lock.                      *)
(***************************************************************************)
EXTENDS Integers, Sequences, SequencesExt, FiniteSets, LocHeap

CONSTANTS
  Clients,      \* LocTimer objects
  Containers,   \* timers and alarms: mSwTimers, mHwTimers
  Delegates,    \* addresses of LocTimerDelegate objects
  Delays,       \* delays asked for
  MaxTime,      \* bound: the clock
  MaxStarts     \* bound: starts of all clients

ASSUME TimerBounds == Delays \subseteq Nat /\ MaxTime \in Nat /\ MaxStarts \in Nat

ASSUME NoneIsNobody == "none" \notin Clients \cup Containers \cup Delegates

VARIABLES
  now,       \* CLOCK_BOOTTIME
  mTimer,    \* LocTimer::mTimer, by client
  delegate,  \* the LocTimerDelegate at an address, or free memory
  mQ,        \* the queue of the message task
  mTree,     \* the heap of each container
  timerfd,   \* the time a descriptor is armed for, or Disarmed
  polled,    \* the descriptors epoll waits on
  task,      \* what the message task is doing
  poll,      \* what the poll thread is doing
  starts,    \* successful starts of a client
  stops,     \* successful stops of a client
  callbacks  \* calls of timeOutCallback

timerVars == <<now, mTimer, delegate, mQ, mTree, timerfd, polled, task, poll,
          starts, stops, callbacks>>
fdVars == <<timerfd, polled>>
counts == <<starts, stops, callbacks>>

None == "none"
Disarmed == -1
Freed == [mClient |-> None, mFutureTime |-> 0, mContainer |-> None, live |-> FALSE]
Waiting == [at |-> "epoll_wait", fds |-> {}, c |-> None]
TaskIdle == [at |-> "msg_q_rcv", c |-> None, timer |-> None, client |-> None, limit |-> 0]

Message(what, c, d) == [what |-> what, c |-> c, timer |-> d]

\* Mutant: the list gives out its newest element.
linked_list_add_tail(q, m) == <<m>> \o q

\* msg_q_snd: the list is added to at its head and removed from at its tail
linked_list_add(q, m) == Append(q, m)
sendMsg(m) == mQ' = linked_list_add(mQ, m)

\* what the heap of a container holds of a delegate
Ranked(d) == [timer |-> d, mFutureTime |-> delegate[d].mFutureTime]
NoTop == [timer |-> None, mFutureTime |-> Disarmed]
Top(t) == IF t = Empty THEN NoTop ELSE peek(t)

TimerInit ==
  /\ now = 0
  /\ mTimer = [l \in Clients |-> None]
  /\ delegate = [d \in Delegates |-> Freed]
  /\ mQ = <<>>
  /\ mTree = [c \in Containers |-> Empty]
  /\ timerfd = [c \in Containers |-> Disarmed]
  /\ polled = {}
  /\ task = TaskIdle /\ poll = Waiting
  /\ starts = [l \in Clients |-> 0] /\ stops = starts /\ callbacks = starts

-----------------------------------------------------------------------------
(* clients, on threads of their own *)

\* LocTimer::start, and the constructor of the delegate: nothing if it runs;
\* Delegates bounds the memory
start(l, delay, c) ==
  /\ mTimer[l] = None /\ now + delay =< MaxTime
  /\ \E d \in Delegates : ~delegate[d].live
  /\ FoldFunction(+, 0, starts) < MaxStarts
  /\ LET d == CHOOSE e \in Delegates : ~delegate[e].live
     IN /\ delegate' = [delegate EXCEPT ![d] =
             [mClient |-> l, mFutureTime |-> now + delay, mContainer |-> c, live |-> TRUE]]
        /\ mTimer' = [mTimer EXCEPT ![l] = d]
        /\ sendMsg(Message("push", c, d))
  /\ starts' = [starts EXCEPT ![l] = @ + 1]
  /\ UNCHANGED <<now, mTree, fdVars, task, poll, stops, callbacks>>

\* LocTimer::stop under the lock, with destroyLocked: the delegate is disowned
\* and is deleted when the message task comes to it
StopLocked(l) ==
  LET d == mTimer[l]
  IN /\ mTimer' = [mTimer EXCEPT ![l] = None]
     /\ delegate' = [delegate EXCEPT ![d].mClient = None, ![d].mContainer = None]
     /\ sendMsg(Message("remove", delegate[d].mContainer, d))

stop(l) ==
  /\ mTimer[l] # None
  /\ StopLocked(l)
  /\ stops' = [stops EXCEPT ![l] = @ + 1]
  /\ UNCHANGED <<now, mTree, fdVars, task, poll, starts, callbacks>>

-----------------------------------------------------------------------------
(* the poll thread *)

epoll_wait ==
  /\ poll.at = "epoll_wait"
  /\ LET ready == {c \in polled : timerfd[c] \in 0..now}
     IN ready # {} /\ poll' = [poll EXCEPT !.at = "run", !.fds = ready]
  /\ UNCHANGED <<now, mTimer, delegate, mQ, mTree, fdVars, task, counts>>

\* LocTimerContainer::expire: disarm, take out of the poll, send
disarm(c) ==
  /\ poll.at = "run" /\ c \in poll.fds
  /\ timerfd' = [timerfd EXCEPT ![c] = Disarmed]
  /\ poll' = [at |-> "removePoll", fds |-> poll.fds \ {c}, c |-> c]
  /\ UNCHANGED <<now, mTimer, delegate, mQ, mTree, polled, task, counts>>

removePoll ==
  /\ poll.at = "removePoll"
  /\ polled' = polled \ {poll.c}
  /\ poll' = [poll EXCEPT !.at = "sendMsg"]
  /\ UNCHANGED <<now, mTimer, delegate, mQ, mTree, timerfd, task, counts>>

sendExpire ==
  /\ poll.at = "sendMsg"
  /\ sendMsg(Message("expire", poll.c, None))
  /\ poll' = IF poll.fds = {} THEN Waiting ELSE [poll EXCEPT !.at = "run"]
  /\ UNCHANGED <<now, mTimer, delegate, mTree, fdVars, task, counts>>

-----------------------------------------------------------------------------
(* the message task *)

\* Mutant: a top is armed only when it outranks the one before.
updateSoonestTimeOutranked(c, priorTop) ==
  LET curTop == Top(mTree'[c])
  IN IF curTop # NoTop /\ priorTop # NoTop /\ outRanks(curTop, priorTop)
     THEN polled' = polled \cup {c} /\ task' = [TaskIdle EXCEPT !.at = "settime", !.c = c]
     ELSE task' = TaskIdle /\ UNCHANGED polled

\* updateSoonestTime, once the heap has changed: the descriptor is polled first
\* and armed next, for a top that is new or outranks the one before; an empty
\* heap changes nothing, for its caller always passes NULL for the top before
updateSoonestTime(c, priorTop) ==
  LET curTop == Top(mTree'[c])
      changed == /\ curTop # priorTop /\ curTop # NoTop
                 /\ priorTop = NoTop \/ outRanks(curTop, priorTop)
  IN IF changed
     THEN polled' = polled \cup {c} /\ task' = [TaskIdle EXCEPT !.at = "settime", !.c = c]
     ELSE task' = TaskIdle /\ UNCHANGED polled

msg_q_rcv(what) == task.at = "msg_q_rcv" /\ mQ # <<>> /\ Head(mQ).what = what /\ mQ' = Tail(mQ)

MsgTimerPush ==
  /\ msg_q_rcv("push")
  /\ LET c == Head(mQ).c
     IN /\ mTree' = [mTree EXCEPT ![c] = push(@, Ranked(Head(mQ).timer))]
        /\ updateSoonestTime(c, Top(mTree[c]))
  /\ UNCHANGED <<now, mTimer, delegate, timerfd, poll, counts>>

\* delegates are deleted here and only here
MsgTimerRemove ==
  /\ msg_q_rcv("remove")
  /\ LET c == Head(mQ).c
         d == Head(mQ).timer
         removed == IF mTree'[c] = mTree[c] THEN NoTop ELSE Ranked(d)
     IN /\ mTree' = [mTree EXCEPT ![c] = remove(@, Ranked(d))]
        /\ IF Top(mTree[c]) = removed
           THEN updateSoonestTime(c, NoTop)
           ELSE task' = TaskIdle /\ UNCHANGED polled
        /\ delegate' = [delegate EXCEPT ![d] = Freed]
  /\ UNCHANGED <<now, mTimer, timerfd, poll, counts>>

settime ==
  /\ task.at = "settime"
  /\ timerfd' = [timerfd EXCEPT ![task.c] = peek(mTree[task.c]).mFutureTime]
  /\ task' = TaskIdle
  /\ UNCHANGED <<now, mTimer, delegate, mQ, mTree, polled, poll, counts>>

\* the top leaves the heap, whatever its time; the clock is read before
PopTop(c, limit) ==
  /\ mTree' = [mTree EXCEPT ![c] = pop(@, 1)]
  /\ task' = [at |-> "expire", c |-> c, timer |-> peek(mTree[c]).timer,
              client |-> None, limit |-> limit]

MsgTimerExpire ==
  /\ msg_q_rcv("expire")
  /\ IF mTree[Head(mQ).c] = Empty
     THEN task' = TaskIdle /\ UNCHANGED mTree
     ELSE PopTop(Head(mQ).c, now)
  /\ UNCHANGED <<now, mTimer, delegate, fdVars, poll, counts>>

\* popIfOutRanks, or the end of the loop
NextTimer ==
  /\ task.at = "next"
  /\ LET t == mTree[task.c]
     IN IF t # Empty /\ ~(task.limit < peek(t).mFutureTime)
        THEN PopTop(task.c, task.limit) /\ UNCHANGED polled
        ELSE UNCHANGED mTree /\ updateSoonestTime(task.c, NoTop)
  /\ UNCHANGED <<now, mTimer, delegate, mQ, timerfd, poll, counts>>

\* LocTimerDelegate::expire reads its client without a lock
ReadClient ==
  /\ task.at = "expire"
  /\ task' = IF delegate[task.timer].mClient = None THEN [task EXCEPT !.at = "next"]
             ELSE [task EXCEPT !.at = "stop", !.client = delegate[task.timer].mClient]
  /\ UNCHANGED <<now, mTimer, delegate, mQ, mTree, fdVars, poll, counts>>

\* Mutant: the callback does not wait for what stop() says.
StopExpiredAnyway ==
  /\ task.at = "stop"
  /\ task' = [task EXCEPT !.at = "timeOutCallback"]
  /\ IF mTimer[task.client] # None
     THEN StopLocked(task.client)
     ELSE UNCHANGED <<mTimer, delegate, mQ>>
  /\ UNCHANGED <<now, mTree, fdVars, poll, counts>>

\* and stops whatever timer that client has by now
StopExpired ==
  /\ task.at = "stop"
  /\ IF mTimer[task.client] # None
     THEN StopLocked(task.client) /\ task' = [task EXCEPT !.at = "timeOutCallback"]
     ELSE task' = [task EXCEPT !.at = "next"] /\ UNCHANGED <<mTimer, delegate, mQ>>
  /\ UNCHANGED <<now, mTree, fdVars, poll, counts>>

timeOutCallback ==
  /\ task.at = "timeOutCallback"
  /\ callbacks' = [callbacks EXCEPT ![task.client] = @ + 1]
  /\ task' = [task EXCEPT !.at = "next"]
  /\ UNCHANGED <<now, mTimer, delegate, mQ, mTree, fdVars, poll, starts, stops>>

-----------------------------------------------------------------------------
Tick ==
  /\ now < MaxTime
  /\ now' = now + 1
  /\ UNCHANGED <<mTimer, delegate, mQ, mTree, fdVars, task, poll, counts>>

PollTask == epoll_wait \/ removePoll \/ sendExpire \/ \E c \in Containers : disarm(c)

TimerTask ==
  \/ MsgTimerPush \/ MsgTimerRemove \/ MsgTimerExpire \/ NextTimer
  \/ ReadClient \/ StopExpired \/ timeOutCallback \/ settime

TimerNext ==
  \/ \E l \in Clients, delay \in Delays, c \in Containers : start(l, delay, c)
  \/ \E l \in Clients : stop(l)
  \/ PollTask \/ TimerTask \/ Tick

TimerSpec ==
  /\ TimerInit /\ [][TimerNext]_timerVars
  /\ WF_timerVars(PollTask) /\ WF_timerVars(TimerTask) /\ WF_timerVars(Tick)

-----------------------------------------------------------------------------
TimerMessages ==
  [what : {"push", "remove", "expire"}, c : Containers, timer : Delegates \cup {None}]

\* Every variable has its type, and the heaps are ordered trees whose sizes are
\* right, so that they stay balanced.
TimerTypeOK ==
  /\ now \in 0..MaxTime
  /\ mTimer \in [Clients -> Delegates \cup {None}]
  /\ delegate \in [Delegates -> [mClient : Clients \cup {None}, mFutureTime : 0..MaxTime,
                                mContainer : Containers \cup {None}, live : BOOLEAN]]
  /\ mQ \in Seq(TimerMessages)
  /\ timerfd \in [Containers -> 0..MaxTime \cup {Disarmed}] /\ polled \subseteq Containers
  /\ \A c \in Containers : checkTree(mTree[c])

Queued(what) == {mQ[i].timer : i \in {j \in DOMAIN mQ : mQ[j].what = what}}
InHeap == {x.timer : x \in UNION {Contents(mTree[c]) : c \in Containers}}
Running == {mTimer[l] : l \in Clients} \ {None}
Expiring == IF task.at \in {"expire", "stop"} THEN {task.timer} ELSE {}

\* A delegate is deleted only when nothing knows it any more, although client,
\* heap, queue and message task each hold a bare pointer to it; none is leaked,
\* none is removed twice, and one that runs is where its expiry will find it.
DelegatesOwned ==
  /\ TimerTypeOK
  /\ \A d \in Running \cup InHeap \cup Queued("push") \cup Queued("remove") \cup Expiring :
       delegate[d].live
  /\ \A d \in Delegates : delegate[d].live => d \in Running \cup Queued("remove")
  /\ Running \cap Queued("remove") = {}
  /\ \A i, j \in DOMAIN mQ :
       i # j /\ mQ[i].timer = mQ[j].timer /\ mQ[i].what = mQ[j].what => mQ[i].what = "expire"
  /\ Running \subseteq InHeap \cup Queued("push") \cup Expiring

\* Every start ends in exactly one of a stop that says so and a callback,
\* however stop, expiry and a new start cross.
EndsOnce ==
  \A l \in Clients :
    starts[l] = stops[l] + callbacks[l]
                + (IF mTimer[l] # None THEN 1 ELSE 0)
                + (IF task.at = "timeOutCallback" /\ task.client = l THEN 1 ELSE 0)

\* No order of arming, disarming, polling and removing from the poll by the two
\* threads loses an expiry: a timer that runs ends.
Expires == \A l \in Clients : mTimer[l] # None ~> mTimer[l] = None
=============================================================================
