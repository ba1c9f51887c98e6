------------------------------ MODULE MCBackend ------------------------------
(***************************************************************************)
(* The parts of Backend, and the task graph beside them: it rests while    *)
(* one of them moves, and they are not used while it moves.                *)
(***************************************************************************)
EXTENDS TaskGraph, Backend, TLC

MCKind   == [k \in Tokens |-> k]
MCApps   == [f \in Flows |-> "app"]
MCPinned == [f \in Flows |-> IF f = 1 THEN Nobody ELSE "agent"]

(* Processes are interchangeable.                                          *)
Symmetry == Permutations(Daemons)

SuiteInit ==
  /\ Init
  /\ \/ BackendInit
     \/ part = "graph" /\ NoSignIn /\ NoAccounts /\ NoKeys /\ NoFlow /\ NoPeople

SuiteNext ==
  \/ part = "graph" /\ Next /\ UNCHANGED backendVars
  \/ BackendNext /\ UNCHANGED vars

SuiteSpec == SuiteInit /\ [][SuiteNext]_<<vars, backendVars>>
==============================================================================
