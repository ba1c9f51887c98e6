------------------------------ MODULE Services ------------------------------
(***************************************************************************)
(* Four services of the backend whose records tell of something they do    *)
(* not own, side by side: the deploys of a branch, the rows of agents and  *)
(* the checks of their runtimes, the rows of Railway builds, and the       *)
(* planning of a dry queue.  They share no state: a behaviour picks one of *)
(* them and is a behaviour of it, while the variables of the others are    *)
(* not used.  What two of them call by the same name is declared once.     *)
(***************************************************************************)
EXTENDS Integers, FiniteSets

CONSTANTS
  MaxRows, MaxFaults,
  Deployers, MaxCalls, DeployFaults,                \* Deploy
  Agents, System, Runtimes, NoRuntime, MaxEdits,    \* Registry
  Threads,                                          \* Registry, Mirror
  Branches, Main, MaxBuilds, MaxAsked,              \* Mirror
  Projects, Scan, Interval, MaxOther, MaxRefresh    \* Planning

VARIABLES
  part,                                             \* the part that moves
  request, waiting, app, missed, calls,             \* Deploy
  profile, row, daemon, repo, cache, chosen, edits, \* Registry
  build, latest, questions,                         \* Mirror
  jobs, work, online, log, since, others, refreshes,\* Planning
  rows,                                             \* Deploy, Mirror
  thread,                                           \* Registry, Mirror
  job,                                              \* Deploy, Planning
  faults                                            \* Deploy, Mirror, Planning

Deploy   == INSTANCE DeployFlow WITH Requests <- Deployers, Faults <- DeployFaults
Registry == INSTANCE AgentRows
Mirror   == INSTANCE Previews WITH asked <- questions
Planning == INSTANCE PlanningTurns

ASSUME ServicesAssumption ==
  /\ Deploy!DeployAssumption /\ Registry!AgentRowsAssumption
  /\ Mirror!PreviewsAssumption /\ Planning!TurnAssumption

deployVars   == <<request, waiting, app, missed, calls>>
registryVars == <<profile, row, daemon, repo, cache, chosen, edits>>
mirrorVars   == <<build, latest, questions>>
planningVars == <<jobs, work, online, log, since, others, refreshes>>
servicesVars == <<part, deployVars, registryVars, mirrorVars, planningVars, rows, thread, job, faults>>

NoDeploy   == request = 0 /\ waiting = 0 /\ app = 0 /\ missed = 0 /\ calls = 0
NoRegistry == /\ profile = 0 /\ row = 0 /\ daemon = 0 /\ repo = 0
              /\ cache = 0 /\ chosen = 0 /\ edits = 0
NoMirror   == build = 0 /\ latest = 0 /\ questions = 0
NoPlanning == /\ jobs = 0 /\ work = 0 /\ online = 0 /\ log = 0
              /\ since = 0 /\ others = 0 /\ refreshes = 0
NoServices == /\ NoDeploy /\ NoRegistry /\ NoMirror /\ NoPlanning
              /\ rows = 0 /\ thread = 0 /\ job = 0 /\ faults = 0

ServicesInit ==
  \/ part = "deploy"   /\ Deploy!Init   /\ NoRegistry /\ NoMirror /\ NoPlanning /\ thread = 0
  \/ part = "agents"   /\ Registry!Init /\ NoDeploy /\ NoMirror /\ NoPlanning
                       /\ rows = 0 /\ job = 0 /\ faults = 0
  \/ part = "previews" /\ Mirror!Init   /\ NoDeploy /\ NoRegistry /\ NoPlanning /\ job = 0
  \/ part = "planning" /\ Planning!Init /\ NoDeploy /\ NoRegistry /\ NoMirror
                       /\ rows = 0 /\ thread = 0

ServicesNext ==
  /\ \/ /\ part = "deploy" /\ Deploy!Next
        /\ UNCHANGED <<registryVars, mirrorVars, planningVars, thread>>
     \/ /\ part = "agents" /\ Registry!Next
        /\ UNCHANGED <<deployVars, mirrorVars, planningVars, rows, job, faults>>
     \/ /\ part = "previews" /\ Mirror!Next
        /\ UNCHANGED <<deployVars, registryVars, planningVars, job>>
     \/ /\ part = "planning" /\ Planning!Next
        /\ UNCHANGED <<deployVars, registryVars, mirrorVars, rows, thread>>
  /\ UNCHANGED part

ServicesSpec == ServicesInit /\ [][ServicesNext]_servicesVars

(* The properties of the parts.                                            *)
RowTellsTheTruth       == part = "deploy" => Deploy!RowTellsTheTruth
ServedChecksAreCurrent == [][part = "agents" => Registry!ServedStep]_servicesVars
ListingKeepsBinding    == [][part = "agents" => Registry!ListingStep]_servicesVars
ListingShowsRailway    == [][part = "previews" => Mirror!ListingStep]_servicesVars
DryQueueSpaced         == [][part = "planning" => Planning!SpacedStep]_servicesVars

(* The rows of planning turns that Interval intervals may write fit among  *)
(* those that last_turn_at scans: in an interval a project gets a trigger  *)
(* and a turn, and other jobs fire MaxOther turns in all.                  *)
Others(p) == 2 * Cardinality(Projects \ {p})

RoomToScan ==
  /\ IsFiniteSet(Projects)
  /\ \A p \in Projects : 1 + (1 + Others(p)) * Interval + MaxOther <= Scan
=============================================================================
