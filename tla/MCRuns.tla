------------------------------- MODULE MCRuns -------------------------------
(***************************************************************************)
(* RunLifecycle on two instances, over the same variables: a behaviour     *)
(* picks one and is a behaviour of it.  In the first, three runs of two    *)
(* tasks compete for an agent that may have one at a time, and the backend *)
(* crashes; in the second, every kind of request is made on one task,      *)
(* through crashes, restarts and lost turns, below a cap that would hide a *)
(* second run if it were one.  One thread serves the requests.             *)
(***************************************************************************)
EXTENDS RunLifecycle

VARIABLE part

OneTask == INSTANCE RunLifecycle WITH
  Tasks <- {"t1"}, MaxRequests <- 3, Cap <- 2,
  Requests <- AllRequests, Faults <- AllFaults \ {"silence", "slow"}

RunsInit == part \in {"agent", "task"} /\ Init

RunsNext == /\ \/ part = "agent" /\ Next
               \/ part = "task" /\ OneTask!Next
            /\ UNCHANGED part

RunsSpec == RunsInit /\ [][RunsNext]_<<vars, part>>
=============================================================================
