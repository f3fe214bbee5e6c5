---------------------------- MODULE RilEventLoop ----------------------------
(***************************************************************************)
(* The event loop of libril: ril_event.cpp's loop over select(), its timer *)
(* list and pending list, and what ril.cpp builds on them: the start of    *)
(* the loop's thread, the pipe that wakes it, and the timed callbacks of   *)
(* the vendor and of the wake lock.  Any thread adds a timer, under the    *)
(* list's mutex; only the loop's thread takes one, and it looks at the     *)
(* head of the list without the mutex before it sleeps.                    *)
(***************************************************************************)
EXTENDS Integers, SequencesExt

CONSTANTS
  Threads,  \* threads that ask for callbacks
  Infos,    \* heap blocks a UserCallbackInfo can occupy
  Wakeup,   \* s_wakeupfd_event
  Delays,   \* how far ahead callbacks are asked for
  MaxTime   \* bound on the clock

ASSUME WakeupIsNoTimer == Wakeup \notin Infos
ASSUME DelaysBound == MaxTime \in Nat \ {0} /\ Delays \subseteq 0 .. MaxTime - 1

VARIABLES
  now,           \* CLOCK_MONOTONIC
  main,          \* where RIL_startEventLoop is
  s_started,
  pipe,          \* whether the pipe exists, and whether a byte is in it
  watch_table,   \* the events watched: s_wakeupfd_event or none
  timer_list,    \* both lists from their first event on, without the sentinel
  pending_list,
  timeout,       \* of a block's event
  block,         \* whether a heap block is in use
  pc,            \* of a thread: whether it has yet to wake the loop
  loop           \* the loop's thread: where it is, until when it sleeps,
                 \* whether a byte woke it, the block whose callback it runs

startVars == <<main, s_started>>
heapVars == <<timeout, block>>
vars == <<now, startVars, pipe, watch_table, timer_list, pending_list, heapVars, pc, loop>>

Never == MaxTime + 1  \* select without a timeout
NoInfo == Wakeup
Gone == loop.at \in {"none", "gone"}

Init ==
  /\ now = 0
  /\ main = "start" /\ s_started = FALSE
  /\ pipe = [open |-> FALSE, byte |-> FALSE]
  /\ watch_table = {} /\ timer_list = <<>> /\ pending_list = <<>>
  /\ timeout = [p \in Infos |-> 0] /\ block = [p \in Infos |-> "free"]
  /\ pc = [t \in Threads |-> "idle"]
  /\ loop = [at |-> "none", until |-> 0, woken |-> FALSE, info |-> NoInfo]

LoopGoto(l) == loop' = [loop EXCEPT !.at = l]

(***************************************************************************)
(* The start.  RIL_startEventLoop waits for the lists, not for the pipe:   *)
(* a byte written before that goes to descriptor 0.                        *)
(***************************************************************************)
RIL_startEventLoop ==
  /\ main = "start"
  /\ \/ LoopGoto("init") /\ main' = "wait"
     \/ main' = "up" /\ UNCHANGED loop
  /\ UNCHANGED <<now, s_started, pipe, watch_table, timer_list, pending_list, heapVars, pc>>

StartupDone ==
  /\ main = "wait" /\ s_started
  /\ main' = "up"
  /\ UNCHANGED <<now, s_started, pipe, watch_table, timer_list, pending_list, heapVars, pc, loop>>

ril_event_init ==
  /\ watch_table' = {} /\ timer_list' = <<>> /\ pending_list' = <<>>

eventLoop ==
  /\ loop.at = "init"
  /\ ril_event_init
  /\ s_started' = TRUE
  /\ LoopGoto("pipe")
  /\ UNCHANGED <<now, main, pipe, heapVars, pc>>

\* without a pipe the thread ends, and nobody is told
MakePipe ==
  /\ loop.at = "pipe"
  /\ \/ pipe' = [open |-> TRUE, byte |-> FALSE] /\ LoopGoto("watch")
     \/ LoopGoto("gone") /\ UNCHANGED pipe
  /\ UNCHANGED <<now, startVars, watch_table, timer_list, pending_list, heapVars, pc>>

ril_event_add ==
  /\ loop.at = "watch"
  /\ watch_table' = watch_table \cup {Wakeup}
  /\ LoopGoto("calc")
  /\ UNCHANGED <<now, startVars, pipe, timer_list, pending_list, heapVars, pc>>

(***************************************************************************)
(* A callback is asked for: a block with an event in the timer list, then, *)
(* unless the loop's own thread asked, a byte into the pipe.               *)
(***************************************************************************)
\* Mutant: the list is not kept sorted.
TimerAddAppends(p, due) ==
  /\ timeout' = [timeout EXCEPT ![p] = due]
  /\ timer_list' = Append(timer_list, p)

\* before the first event that is not due earlier
ril_timer_add(p, due) ==
  LET i == SelectInSeq(timer_list, LAMBDA q : timeout[q] >= due)
  IN /\ timeout' = [timeout EXCEPT ![p] = due]
     /\ timer_list' = IF i = 0 THEN Append(timer_list, p) ELSE InsertAt(timer_list, i, p)

\* callbacks are asked for while the clock still has time to run them
internalRequestTimedCallback(p, d) ==
  /\ block[p] = "free" /\ now + d < MaxTime
  /\ block' = [block EXCEPT ![p] = "used"]
  /\ ril_timer_add(p, now + d)

\* (without the loop's thread the lists have no sentinel to stop at)
RIL_requestTimedCallback(t, p, d) ==
  /\ main = "up" /\ loop.at # "none" /\ pc[t] = "idle"
  /\ internalRequestTimedCallback(p, d)
  /\ pc' = [pc EXCEPT ![t] = "added"]
  /\ UNCHANGED <<now, startVars, pipe, watch_table, pending_list, loop>>

triggerEvLoop(t) ==
  /\ pc[t] = "added"
  /\ pipe' = [pipe EXCEPT !.byte = pipe.open]
  /\ pc' = [pc EXCEPT ![t] = "idle"]
  /\ UNCHANGED <<now, startVars, watch_table, timer_list, pending_list, heapVars, loop>>

(***************************************************************************)
(* One round of ril_event_loop.  calcNextTimeout races with a timer being  *)
(* added, and may then find any time at all.                               *)
(***************************************************************************)
calcNextTimeout ==
  /\ loop.at = "calc"
  /\ \E u \in 0 .. Never :
       /\ (\A t \in Threads : pc[t] # "added") =>
            u = IF timer_list = <<>> THEN Never ELSE timeout[Head(timer_list)]
       /\ loop' = [loop EXCEPT !.at = "select", !.until = u]
  /\ UNCHANGED <<now, startVars, pipe, watch_table, timer_list, pending_list, heapVars, pc>>

Readable == Wakeup \in watch_table /\ pipe.byte

SelectReturns ==
  /\ loop.at = "select" /\ (Readable \/ now >= loop.until)
  /\ loop' = [loop EXCEPT !.at = "timeouts", !.woken = Readable]
  /\ UNCHANGED <<now, startVars, pipe, watch_table, timer_list, pending_list, heapVars, pc>>

\* EINTR
SelectInterrupted ==
  /\ loop.at = "select"
  /\ LoopGoto("calc")
  /\ UNCHANGED <<now, startVars, pipe, watch_table, timer_list, pending_list, heapVars, pc>>

\* Mutant: a timer that is moved stays in the list it came from.
TimeoutsKeepTimers ==
  LET later == SelectInSeq(timer_list, LAMBDA p : now =< timeout[p])
      n == IF later = 0 THEN Len(timer_list) ELSE later - 1
  IN /\ loop.at = "timeouts"
     /\ pending_list' = pending_list \o SubSeq(timer_list, 1, n)
     /\ LoopGoto("readies")
     /\ UNCHANGED <<now, startVars, pipe, watch_table, timer_list, heapVars, pc>>

\* the timers whose time is past, up to the first whose time is not
processTimeouts ==
  LET later == SelectInSeq(timer_list, LAMBDA p : now =< timeout[p])
      n == IF later = 0 THEN Len(timer_list) ELSE later - 1
  IN /\ loop.at = "timeouts"
     /\ pending_list' = pending_list \o SubSeq(timer_list, 1, n)
     /\ timer_list' = SubSeq(timer_list, n + 1, Len(timer_list))
     /\ LoopGoto("readies")
     /\ UNCHANGED <<now, startVars, pipe, watch_table, heapVars, pc>>

\* Mutant: the event of the pipe is not persistent.
ReadReadiesOnce ==
  /\ loop.at = "readies"
  /\ pending_list' = IF loop.woken THEN Append(pending_list, Wakeup) ELSE pending_list
  /\ watch_table' = IF loop.woken THEN {} ELSE watch_table
  /\ LoopGoto("fire")
  /\ UNCHANGED <<now, startVars, pipe, timer_list, heapVars, pc>>

processReadReadies ==
  /\ loop.at = "readies"
  /\ pending_list' = IF loop.woken THEN Append(pending_list, Wakeup) ELSE pending_list
  /\ LoopGoto("fire")
  /\ UNCHANGED <<now, startVars, pipe, watch_table, timer_list, heapVars, pc>>

\* only the loop's thread ever changes the pending list
firePending ==
  /\ loop.at = "fire" /\ pending_list # <<>> /\ Head(pending_list) # Wakeup
  /\ pending_list' = Tail(pending_list)
  /\ loop' = [loop EXCEPT !.at = "callback", !.info = Head(pending_list)]
  /\ UNCHANGED <<now, startVars, pipe, watch_table, timer_list, heapVars, pc>>

\* the pipe is read until it is empty
processWakeupCallback ==
  /\ loop.at = "fire" /\ pending_list # <<>> /\ Head(pending_list) = Wakeup
  /\ pending_list' = Tail(pending_list)
  /\ pipe' = [pipe EXCEPT !.byte = FALSE]
  /\ UNCHANGED <<now, startVars, watch_table, timer_list, heapVars, pc, loop>>

RoundDone ==
  /\ loop.at = "fire" /\ pending_list = <<>>
  /\ LoopGoto("calc")
  /\ UNCHANGED <<now, startVars, pipe, watch_table, timer_list, pending_list, heapVars, pc>>

\* the callback asks for another one, from the loop's own thread
CallbackRequests(p, d) ==
  /\ loop.at = "callback"
  /\ internalRequestTimedCallback(p, d)
  /\ UNCHANGED <<now, startVars, pipe, watch_table, pending_list, pc, loop>>

userTimerCallback ==
  /\ loop.at = "callback"
  /\ block' = [block EXCEPT ![loop.info] = "free"]
  /\ loop' = [loop EXCEPT !.at = "fire", !.info = NoInfo]
  /\ UNCHANGED <<now, startVars, pipe, watch_table, timer_list, pending_list, timeout, pc>>

Tick ==
  /\ now < MaxTime
  /\ now' = now + 1
  /\ UNCHANGED <<startVars, pipe, watch_table, timer_list, pending_list, heapVars, pc, loop>>

LoopStep ==
  \/ eventLoop \/ MakePipe \/ ril_event_add \/ calcNextTimeout \/ SelectReturns
  \/ processTimeouts \/ processReadReadies \/ firePending \/ processWakeupCallback
  \/ RoundDone \/ userTimerCallback

Next ==
  \/ RIL_startEventLoop \/ StartupDone \/ LoopStep \/ SelectInterrupted \/ Tick
  \/ \E p \in Infos, d \in Delays :
       \/ \E t \in Threads : RIL_requestTimedCallback(t, p, d)
       \/ CallbackRequests(p, d)
  \/ \E t \in Threads : triggerEvLoop(t)

(***************************************************************************)
(* Every thread goes on, time passes, and signals do not interrupt every   *)
(* select.                                                                 *)
(***************************************************************************)
Fairness ==
  /\ WF_vars(LoopStep) /\ SF_vars(SelectReturns)
  /\ \A t \in Threads : WF_vars(triggerEvLoop(t))
  /\ WF_vars(Tick)

Spec == Init /\ [][Next]_vars /\ Fairness

-----------------------------------------------------------------------------
Queued == ToSet(timer_list) \cup (ToSet(pending_list) \ {Wakeup})

\* Each variable has its type, and a block in use is in exactly one place:
\* once in one of the two lists, or in the callback that will free it.  The
\* lists hold no freed block, however callbacks, the start and the threads'
\* requests fall between the steps of a round (addToList, removeFromList).
BlocksOwned ==
  /\ now \in 0 .. MaxTime /\ main \in {"start", "wait", "up"} /\ s_started \in BOOLEAN
  /\ pipe \in [open : BOOLEAN, byte : BOOLEAN] /\ watch_table \subseteq {Wakeup}
  /\ timer_list \in Seq(Infos) /\ pending_list \in Seq(Infos \cup {Wakeup})
  /\ timeout \in [Infos -> 0 .. MaxTime] /\ block \in [Infos -> {"free", "used"}]
  /\ pc \in [Threads -> {"idle", "added"}]
  /\ loop \in [at : {"none", "init", "pipe", "watch", "calc", "select", "timeouts", "readies",
                     "fire", "callback", "gone"},
               until : 0 .. Never, woken : BOOLEAN, info : Infos \cup {NoInfo}]
  /\ IsInjective(timer_list \o pending_list)
  /\ Queued \cup ({loop.info} \ {NoInfo}) = {p \in Infos : block[p] = "used"}
  /\ loop.info \notin Queued

\* No callback runs before its time, and none runs while one that is due
\* earlier waits, although a round takes the expired timers away before it
\* runs them and new ones are added meanwhile (ril_timer_add, processTimeouts).
InOrder ==
  loop.at = "callback" =>
    /\ now > timeout[loop.info]
    /\ \A p \in Queued : timeout[p] >= timeout[loop.info]

\* Every callback that is asked for is run and its block freed: the loop does
\* not sleep through a timer that was added while it made ready to sleep, or
\* before the pipe to wake it was there (triggerEvLoop, calcNextTimeout).  The
\* loop's thread has to exist for that, and its pipe.
CallbackRuns ==
  \A p \in Infos : block[p] = "used" ~> (block[p] = "free" \/ Gone)
=============================================================================
