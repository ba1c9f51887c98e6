------------------------------ MODULE MCRequests ------------------------------
(***************************************************************************)
(* What the threads of the backend do for requests that overlap, component *)
(* by component, side by side: RunLifecycle and, of Services, the agents   *)
(* and the previews.  A behaviour picks one of them and is a behaviour of  *)
(* it.  RunLifecycle rests while another moves, and the variables of the   *)
(* others are not used while it moves.                                     *)
(***************************************************************************)
EXTENDS RunLifecycle, Services, TLC

(* Threads are interchangeable.                                            *)
Symmetry == Permutations(Workers)

SuiteInit ==
  /\ Init
  /\ \/ part = "runs" /\ NoServices
     \/ part \in {"agents", "previews"} /\ ServicesInit

SuiteNext ==
  \/ part = "runs" /\ Next /\ UNCHANGED servicesVars
  \/ ServicesNext /\ UNCHANGED vars

SuiteSpec == SuiteInit /\ [][SuiteNext]_<<vars, servicesVars>>
===============================================================================
