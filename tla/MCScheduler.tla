------------------------------ MODULE MCScheduler ------------------------------
(* A small instance of Scheduler: a job that runs twice, after which its   *)
(* schedule does not come again within the search's horizon.               *)
EXTENDS Scheduler

MCSlots == [j \in Jobs |-> {1, 3}]
=============================================================================
