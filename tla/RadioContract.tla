--------------------------- MODULE RadioContract ---------------------------
(***************************************************************************)
(* What libril promises the framework about a solicited request, with no   *)
(* token, list or thread in sight: it is refused at once or accepted; an   *)
(* accepted request gets exactly one answer, which is its own.  It gets at *)
(* most one acknowledgement, before its answer, and the answer asks for a  *)
(* wake lock acknowledgement (SOLICITED_ACK_EXP) just when one was sent,   *)
(* until the vendor completes a request during its acknowledgement: from   *)
(* then on anything may be acknowledged.                                   *)
(***************************************************************************)
EXTENDS Naturals

CONSTANTS
  Serials,   \* requests, named by their serial numbers
  NoResult   \* no answer was computed by the vendor

VARIABLES
  v13,       \* s_callbacks.version >= 13
  crossed,   \* a request was completed during its acknowledgement
  state,     \* "new", "refused" or "accepted"
  acks,      \* acknowledgements the framework was sent
  answers,   \* answers the framework was sent
  result,    \* the request whose result the answer carries
  expects    \* the answer was of type SOLICITED_ACK_EXP

vars == <<v13, crossed, state, acks, answers, result, expects>>

Init ==
  /\ v13 \in BOOLEAN
  /\ crossed = FALSE
  /\ state = [s \in Serials |-> "new"]
  /\ acks = [s \in Serials |-> 0]
  /\ answers = [s \in Serials |-> 0]
  /\ result = [s \in Serials |-> NoResult]
  /\ expects = [s \in Serials |-> FALSE]

Accept(s) ==
  /\ state[s] = "new"
  /\ state' = [state EXCEPT ![s] = "accepted"]
  /\ UNCHANGED <<v13, crossed, acks, answers, result, expects>>

Refuse(s) ==
  /\ state[s] = "new"
  /\ state' = [state EXCEPT ![s] = "refused"]
  /\ UNCHANGED <<v13, crossed, acks, answers, result, expects>>

Cross ==
  /\ crossed' = TRUE
  /\ UNCHANGED <<v13, state, acks, answers, result, expects>>

Acknowledge(s) ==
  /\ crossed \/ (state[s] = "accepted" /\ acks[s] = 0 /\ answers[s] = 0)
  /\ acks' = [acks EXCEPT ![s] = @ + 1]
  /\ UNCHANGED <<v13, crossed, state, answers, result, expects>>

\* the vendor's result, or an error response of libril itself
Answer(s) ==
  /\ state[s] = "accepted" /\ answers[s] = 0
  /\ answers' = [answers EXCEPT ![s] = 1]
  /\ \E r \in {s, NoResult} : result' = [result EXCEPT ![s] = r]
  /\ \E e \in BOOLEAN :
       /\ expects' = [expects EXCEPT ![s] = e]
       /\ IF crossed THEN e => v13 ELSE e <=> (v13 /\ acks[s] = 1)
  /\ UNCHANGED <<v13, crossed, state, acks>>

Next ==
  \/ Cross
  \/ \E s \in Serials : Accept(s) \/ Refuse(s) \/ Acknowledge(s) \/ Answer(s)

Spec == Init /\ [][Next]_vars /\ \A s \in Serials : WF_vars(Answer(s))

=============================================================================
