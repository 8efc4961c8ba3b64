----------------------------- MODULE JobLifecycle -----------------------------
(***************************************************************************)
(* What the pipeline worker promises of each event it is given: it is      *)
(* dispatched until it succeeds or has been tried MaxRetries + 1 times.    *)
(* Giving up, losing and finishing are final; an event that was given up   *)
(* or lost is never dispatched again.  (One that finished may be: a crash  *)
(* between the success and the removal of its job file repeats it.)        *)
(***************************************************************************)
EXTENDS Naturals

CONSTANTS Events, MaxRetries

VARIABLES status, attempts

Statuses == {"absent", "pending", "done", "dead", "lost"}

Init == status = [e \in Events |-> "absent"] /\ attempts = [e \in Events |-> 0]

Submit(e) ==
    /\ status[e] = "absent"
    /\ status' = [status EXCEPT ![e] = "pending"]
    /\ UNCHANGED attempts

Attempt(e) ==
    /\ status[e] \in {"pending", "done"}
    /\ attempts' = [attempts EXCEPT ![e] = @ + 1]
    /\ \/ status' = [status EXCEPT ![e] = "done"]
       \/ UNCHANGED status

GiveUp(e) ==
    /\ status[e] = "pending"
    /\ attempts[e] > MaxRetries
    /\ status' = [status EXCEPT ![e] = "dead"]
    /\ UNCHANGED attempts

Lose(lost) ==
    /\ \A e \in lost : status[e] = "pending"
    /\ status' = [e \in Events |-> IF e \in lost THEN "lost" ELSE status[e]]
    /\ UNCHANGED attempts

Next ==
    \/ \E e \in Events : Submit(e) \/ Attempt(e) \/ GiveUp(e)
    \/ \E lost \in SUBSET Events : Lose(lost)

Spec == Init /\ [][Next]_<<status, attempts>>
=============================================================================
