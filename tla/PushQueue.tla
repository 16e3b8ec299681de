------------------------------ MODULE PushQueue ------------------------------
(***************************************************************************)
(* What the queue of notification deliveries promises those who put one in *)
(* and those who poll its status, whatever becomes of the worker: it is    *)
(* pending until it is settled, once; it is handed to the push provider,   *)
(* at least once if it is sent, only while it is pending.                  *)
(***************************************************************************)
CONSTANTS
    Delivery,   \* the deliveries that may be queued
    Pushable    \* those that may be handed to the provider

VARIABLES
    status,     \* what a client is told of each delivery
    accepted    \* the deliveries the provider has accepted

Outcome == {"sent", "failed", "skipped"}

Init ==
    /\ status = [d \in Delivery |-> "absent"]
    /\ accepted = {}

Queue(d) ==
    /\ status[d] = "absent"
    /\ status' = [status EXCEPT ![d] = "pending"]
    /\ UNCHANGED accepted

\* Once more, perhaps: a worker that has failed does not know.
Push(d) ==
    /\ d \in Pushable
    /\ status[d] = "pending"
    /\ accepted' = accepted \cup {d}
    /\ UNCHANGED status

Settle(d, outcome) ==
    /\ status[d] = "pending"
    /\ outcome = "sent" => d \in accepted
    /\ outcome = "skipped" => d \notin accepted
    /\ status' = [status EXCEPT ![d] = outcome]
    /\ UNCHANGED accepted

Next ==
    \E d \in Delivery :
        \/ Queue(d)
        \/ Push(d)
        \/ \E outcome \in Outcome : Settle(d, outcome)

Spec == Init /\ [][Next]_<<status, accepted>>
=============================================================================
