---------------------------- MODULE MCBackendLive ----------------------------
(***************************************************************************)
(* What must eventually happen in the backend: the queue of a conversation *)
(* and, of Services, the deploys of a branch and the planning of a dry     *)
(* queue, side by side.  A behaviour picks one of them and is a behaviour  *)
(* of it, while the variables of the others are not used.                  *)
(***************************************************************************)
EXTENDS Services

VARIABLES run, live, turns, queue, at, ender   \* the variables of the queue

Queue == INSTANCE MessageQueue WITH
  Messages <- {"m1", "m2", "m3"}, NoMessage <- "nothing", Enders <- {"h1", "h2"},
  MaxTurns <- 4, Faults <- {"crash", "stop", "refuse"}

ASSUME SuiteAssumption == Queue!QueueAssumption /\ RoomToScan

queueVars == <<run, live, turns, queue, at, ender>>
vars      == <<servicesVars, queueVars>>

NoQueue == run = 0 /\ live = 0 /\ turns = 0 /\ queue = 0 /\ at = 0 /\ ender = 0

Init ==
  \/ part = "queue" /\ Queue!Init /\ NoServices
  \/ part \in {"deploy", "planning"} /\ ServicesInit /\ NoQueue

Next ==
  \/ part = "queue" /\ Queue!Next /\ UNCHANGED servicesVars
  \/ ServicesNext /\ UNCHANGED queueVars

(* The fairness of the component that moves.                               *)
FairSpec ==
  /\ Init /\ [][Next]_vars
  /\ \A m \in {"m1", "m2", "m3"} : WF_queueVars(part = "queue" /\ Queue!Request(m))
  /\ \A h \in {"h1", "h2"} : WF_queueVars(part = "queue" /\ Queue!Handler(h))
  /\ WF_queueVars(part = "queue" /\ \E h \in {"h1", "h2"} : Queue!Report(h))
  /\ WF_(Planning!vars)(part = "planning" /\ Planning!PlanningFires)
  /\ WF_(Planning!vars)(part = "planning" /\ Planning!Planning)
  /\ WF_(Planning!vars)(part = "planning" /\ Planning!Online)
  /\ \A p \in Projects : WF_(Planning!vars)(part = "planning" /\ Planning!WorkGoes(p))
  /\ WF_(Deploy!vars)(part = "deploy" /\ Deploy!DaemonWorks)
  /\ \A r \in Deployers : WF_(Deploy!vars)(part = "deploy" /\ Deploy!Commit(r))

(* The properties of the components, under names a configuration can use.  *)
HeadLeaves ==
  \A m \in {"m1", "m2", "m3"} :
    part = "queue" /\ Queue!AtHead(m) ~> (part = "queue" => Queue!Moved(m))
IdleIsPlanned ==
  \A p \in Projects : \/ []<>(part = "planning" => Planning!Planned(p))
                      \/ []<>(part = "planning" => Planning!WorkGoing(p))
QueueDrains   == []<>(part = "deploy" => Deploy!Drained)
=============================================================================
