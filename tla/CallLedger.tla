----------------------------- MODULE CallLedger -----------------------------
(***************************************************************************)
(* What the asynchronous client promises its user, without threads, queue, *)
(* tag list or addresses: a call that was issued is answered (by the peer  *)
(* or by its deadline), an answered call is reaped exactly once, no call   *)
(* is issued once the ledger is closing, and the ledger closes only when   *)
(* it holds no call.  SessionClient implements this module.                *)
(***************************************************************************)
CONSTANT Call          \* the places a call can occupy; they are reused

VARIABLES state,       \* [Call -> {"idle", "issued", "answered"}]
          phase        \* "open", "closing" or "closed"

vars == <<state, phase>>

Init == /\ state = [c \in Call |-> "idle"]
        /\ phase = "open"

Issue(c) == /\ phase = "open"
            /\ state[c] = "idle"
            /\ state' = [state EXCEPT ![c] = "issued"]
            /\ UNCHANGED phase

Answer(c) == /\ state[c] = "issued"
             /\ state' = [state EXCEPT ![c] = "answered"]
             /\ UNCHANGED phase

Reap(c) == /\ state[c] = "answered"
           /\ state' = [state EXCEPT ![c] = "idle"]
           /\ UNCHANGED phase

Close == /\ phase = "open"
         /\ phase' = "closing"
         /\ UNCHANGED state

Finish == /\ phase = "closing"
          /\ \A c \in Call : state[c] = "idle"
          /\ phase' = "closed"
          /\ UNCHANGED state

Next == \/ \E c \in Call : Issue(c) \/ Answer(c) \/ Reap(c)
        \/ Close
        \/ Finish

Fairness == /\ \A c \in Call : WF_vars(Answer(c)) /\ WF_vars(Reap(c))
            /\ WF_vars(Finish)

Spec == Init /\ [][Next]_vars /\ Fairness
==============================================================================
