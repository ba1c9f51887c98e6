------------------------------ MODULE DeployFlow ------------------------------
(***************************************************************************)
(* Local Docker deploys of one branch (deploy/flow.py, deploy/docker.py,   *)
(* daemon/deploy.py).  The backend keeps one row for each deployment; all  *)
(* rows of the branch carry the same handle.  A request sends a frame to   *)
(* the daemon first and commits its row afterwards.  The daemon runs each  *)
(* frame on a thread of its own, under one lock for the branch, and posts  *)
(* every report once; a report is written onto the row with the handle     *)
(* that was updated last.                                                  *)
(*                                                                         *)
(* The providers that are asked instead of reporting (Railway), the        *)
(* credentials, logs and URLs are left out.                                *)
(***************************************************************************)
EXTENDS Integers, FiniteSets, SequencesExt

CONSTANTS
  Requests,     \* requests the backend serves at once
  MaxRows,      \* bound: deployments
  MaxCalls,     \* bound: requests
  MaxFaults,    \* bound: faults
  Faults        \* which faults this instance has

AllFaults == {"offline",   \* no runtime is online when a deploy is asked for
              "post",      \* a report is not delivered
              "daemon",    \* the daemon restarts
              "hang"}      \* a build step goes silent

DeployAssumption ==
  /\ MaxRows \in Nat \ {0} /\ MaxCalls \in Nat /\ MaxFaults \in Nat
  /\ Faults \subseteq AllFaults

VARIABLES
  rows,      \* the rows of the branch, the one updated last at the end
  request,   \* request[r]: what a request is about to commit
  waiting,   \* waiting[f]: threads of the daemon that wait for the lock
  job,       \* the thread that holds it
  app,       \* what runs on the computer: "none", "old" or "new"
  missed,    \* history: a report was dropped or overwritten, or requests overlapped
  calls, faults

vars == <<rows, request, waiting, job, app, missed, calls, faults>>

Status  == {"queued", "building", "live", "failed", "stopped"}
Active  == {"queued", "building"}
Actions == {"deploy", "teardown"}
RowIds  == 1..MaxRows

Row     == [id : RowIds, status : Status, handle : BOOLEAN]
Idle    == [op |-> "none", id |-> 0, status |-> "queued", handle |-> FALSE, reported |-> FALSE]
Request == [op : {"none", "create", "redeploy", "stop", "disconnect"}, id : {0} \cup RowIds,
            status : Status, handle : BOOLEAN, reported : BOOLEAN]
NoJob   == [action |-> "none", pc |-> "idle"]
Job     == [action : {"none"} \cup Actions,
            pc : {"idle", "begin", "fetch", "build", "live", "failed", "stopped"}]

Fault(f) == f \in Faults /\ faults < MaxFaults /\ faults' = faults + 1

Ids == {rows[i].id : i \in DOMAIN rows}

Place(id) == CHOOSE i \in DOMAIN rows : rows[i].id = id
RowOf(id) == rows[Place(id)]

(* Updating a row makes it the one updated last.                           *)
Updated(r) == Append(RemoveAt(rows, Place(r.id)), r)

Init ==
  /\ rows = <<>> /\ request = [r \in Requests |-> Idle]
  /\ waiting = [f \in Actions |-> 0] /\ job = NoJob
  /\ app = "none" /\ missed = FALSE /\ calls = 0 /\ faults = 0

-----------------------------------------------------------------------------
(* The backend.  _send hands the frame over; the outbox delivers it.       *)

Sent(f, n) == waiting' = [waiting EXCEPT ![f] = @ + n]

Begins(r) == request[r] = Idle /\ calls < MaxCalls /\ calls' = calls + 1
Prepared(r, op, id, status, handle) ==
  request' = [request EXCEPT ![r] =
                [op |-> op, id |-> id, status |-> status, handle |-> handle,
                 reported |-> FALSE]]

(* Another request is under way, or a row other than id is in flight.      *)
Overlaps(id) == \/ \E q \in Requests : request[q] # Idle
                \/ \E i \in DOMAIN rows : rows[i].id # id /\ rows[i].status \in Active

(* create_deployment: a deployment in flight is returned instead.          *)
InFlight == \E i \in DOMAIN rows : rows[i].status \in Active

(* _deploy_branch up to adapter.deploy.                                    *)
Deploys(r, op, id) ==
  /\ missed' = (missed \/ InFlight \/ Overlaps(id))
  /\ \/ /\ Prepared(r, op, id, "queued", TRUE)
        /\ Sent("deploy", 1) /\ UNCHANGED faults
     \/ /\ Fault("offline")
        /\ Prepared(r, op, id, "failed", FALSE)
        /\ UNCHANGED waiting

NewId == CHOOSE i \in RowIds :
           i \notin Ids \cup {request[r].id : r \in Requests}
Room  == \E i \in RowIds : i \notin Ids \cup {request[r].id : r \in Requests}

Create(r) ==
  /\ Begins(r) /\ ~InFlight /\ Room
  /\ Deploys(r, "create", NewId)
  /\ UNCHANGED <<rows, job, app>>

Redeploy(r, id) ==
  /\ Begins(r) /\ id \in Ids
  /\ Deploys(r, "redeploy", id)
  /\ UNCHANGED <<rows, job, app>>

Stop(r, id) ==
  /\ Begins(r) /\ id \in Ids
  /\ Prepared(r, "stop", id, "stopped", RowOf(id).handle)
  /\ Sent("teardown", IF RowOf(id).handle THEN 1 ELSE 0)
  /\ missed' = (missed \/ Overlaps(id))
  /\ UNCHANGED <<rows, job, app, faults>>

(* disconnect: every row with a handle is torn down, all are deleted.      *)
Disconnect(r) ==
  /\ Begins(r) /\ rows # <<>>
  /\ Prepared(r, "disconnect", 0, "stopped", FALSE)
  /\ Sent("teardown", Cardinality({i \in DOMAIN rows : rows[i].handle}))
  /\ UNCHANGED <<rows, job, app, missed, faults>>

(* The commit, after the provider call.                                    *)
Commit(r) ==
  LET q == request[r]
      row == [id |-> q.id, status |-> q.status, handle |-> q.handle]
  IN
  /\ q # Idle
  /\ rows' = CASE q.op = "create" -> Append(rows, row)
               [] q.op = "disconnect" -> <<>>
               [] OTHER ->
                    IF q.id \notin Ids THEN rows
                    ELSE Updated(IF q.op = "stop" THEN [RowOf(q.id) EXCEPT !.status = "stopped"]
                                 ELSE row)
  /\ missed' = (missed \/ q.reported)
  /\ request' = [request EXCEPT ![r] = Idle]
  /\ UNCHANGED <<waiting, job, app, calls, faults>>

-----------------------------------------------------------------------------
(* The reports.  apply_daemon_result.                                      *)

(* Mutant of Addressed: the row that has the handle for the longest time.  *)
AddressedOldest ==
  {i \in DOMAIN rows : rows[i].handle /\ \A k \in DOMAIN rows : rows[k].handle => i <= k}

(* get_deployment_by_provider_id.                                          *)
Addressed ==
  {i \in DOMAIN rows : rows[i].handle /\ \A k \in DOMAIN rows : rows[k].handle => k <= i}

Applied(status) ==
  /\ rows' = IF Addressed = {} THEN rows
             ELSE LET i == CHOOSE i \in Addressed : TRUE
                  IN  Updated([rows[i] EXCEPT !.status = status])
  /\ missed' = (missed \/ Addressed = {})
  (* a commit that is still to come overwrites what is reported now        *)
  /\ request' = [r \in Requests |->
                   IF request[r] = Idle THEN Idle ELSE [request[r] EXCEPT !.reported = TRUE]]
  /\ UNCHANGED faults

Report(status) ==
  \/ Applied(status)
  \/ /\ Fault("post")
     /\ missed' = TRUE /\ UNCHANGED <<rows, request>>

-----------------------------------------------------------------------------
(* The daemon.  handle(): one thread at a time.                            *)

Job1(action, pc) == job' = [action |-> action, pc |-> pc]

Locks(f) ==
  /\ job = NoJob /\ waiting[f] > 0
  /\ waiting' = [waiting EXCEPT ![f] = @ - 1]
  /\ Job1(f, "begin")
  /\ UNCHANGED <<rows, request, app, missed, calls, faults>>

(* _deploy: the first line of the log reports "building"; the code is      *)
(* fetched; the app is built and started; its health decides.              *)
Building ==
  /\ job = [action |-> "deploy", pc |-> "begin"]
  /\ Report("building")
  /\ Job1("deploy", "fetch")
  /\ UNCHANGED <<waiting, app, calls>>

(* A step that fails leaves the app that ran before in place.              *)
BuildEnds ==
  /\ job.action = "deploy" /\ job.pc \in {"fetch", "build"}
  /\ \/ job.pc = "fetch" /\ Job1("deploy", "build") /\ UNCHANGED app
     \/ job.pc = "build" /\ app' = "new" /\ \E end \in {"live", "failed"} : Job1("deploy", end)
     \/ Job1("deploy", "failed") /\ UNCHANGED app
  /\ UNCHANGED <<rows, request, waiting, missed, calls, faults>>

Teardown ==
  /\ job = [action |-> "teardown", pc |-> "begin"]
  /\ app' = "none"
  /\ Job1("teardown", "stopped")
  /\ UNCHANGED <<rows, request, waiting, missed, calls, faults>>

(* Mutant of Released: an error leaves the lock taken.                     *)
KeptOnError == IF job.pc = "failed" THEN [job EXCEPT !.action = "none"] ELSE NoJob

Released == NoJob

(* The last report of the frame, then the lock is released.  What is up    *)
(* has outlived its deploy: it is the old app of the next one.             *)
LastReport ==
  /\ job.pc \in {"live", "failed", "stopped"}
  /\ Report(job.pc)
  /\ job' = Released
  /\ app' = IF app = "new" THEN "old" ELSE app
  /\ UNCHANGED <<waiting, calls>>

DaemonRestarts ==
  /\ Fault("daemon") /\ (job # NoJob \/ \E f \in Actions : waiting[f] > 0)
  /\ job' = NoJob /\ waiting' = [f \in Actions |-> 0]
  /\ app' = IF app = "new" THEN "old" ELSE app
  /\ missed' = TRUE
  /\ UNCHANGED <<rows, request, calls>>

Hung == [action |-> "deploy", pc |-> "idle"]

(* _step looks at its deadline only when the command prints a line.        *)
Hangs ==
  /\ job.pc = "build" /\ Fault("hang")
  /\ job' = Hung
  /\ UNCHANGED <<rows, request, waiting, app, missed, calls>>

-----------------------------------------------------------------------------
DaemonWorks == (\E f \in Actions : Locks(f)) \/ Building \/ BuildEnds \/ Teardown \/ LastReport

Next ==
  \/ \E r \in Requests : \/ Create(r) \/ Disconnect(r) \/ Commit(r)
                         \/ \E id \in RowIds : Redeploy(r, id) \/ Stop(r, id)
  \/ DaemonWorks \/ DaemonRestarts \/ Hangs

Spec == Init /\ [][Next]_vars
Fairness == WF_vars(DaemonWorks) /\ \A r \in Requests : WF_vars(Commit(r))

FairSpec == Spec /\ Fairness

-----------------------------------------------------------------------------
(* Properties.                                                             *)

TypeOK ==
  /\ \A i \in DOMAIN rows : rows[i] \in Row
  /\ \A i, k \in DOMAIN rows : rows[i].id = rows[k].id => i = k
  /\ request \in [Requests -> Request] /\ job \in Job
  /\ waiting \in [Actions -> 0..MaxCalls * MaxRows]
  /\ app \in {"none", "old", "new"} /\ missed \in BOOLEAN
  /\ calls \in 0..MaxCalls /\ faults \in 0..MaxFaults

AtRest == job = NoJob /\ \A f \in Actions : waiting[f] = 0
          /\ \A r \in Requests : request[r] = Idle

(* At rest, unless a report was dropped, a later commit wrote over one or  *)
(* one deploy overlapped the next, the rows tell what is on the computer:  *)
(* nothing still builds, and where the row updated last has the handle,    *)
(* live means that the app is up and stopped that nothing is left.         *)
RowTellsTheTruth ==
  (AtRest /\ ~missed) => \A i \in DOMAIN rows :
    /\ rows[i].status \notin Active
    /\ (i = Len(rows) /\ rows[i].handle) =>
         /\ rows[i].status = "live" => app # "none"
         /\ rows[i].status = "stopped" => app = "none"

(* Whatever is asked for, refused, missed or restarted, the queue of the   *)
(* branch drains; only a build that goes silent holds it up for ever.      *)
Drained == AtRest \/ job = Hung

QueueDrains == []<>Drained

(* "Idempotent: a second call while one is queued or building returns the  *)
(* in-flight deployment instead of starting another."                      *)
OneInFlight == \A i, k \in DOMAIN rows :
                 rows[i].status \in Active /\ rows[k].status \in Active => i = k

(* A deployment does not stay queued once its frame is done with.          *)
NoneLeftQueued == AtRest => ~InFlight

(* A stopped preview stays down until somebody deploys again.              *)
StopSticks ==
  [][\A i \in DOMAIN rows, k \in DOMAIN rows' :
       (rows[i].status = "stopped" /\ rows'[k].id = rows[i].id /\ rows'[k].status # "stopped")
         => \E r \in Requests : request[r].op = "redeploy" /\ request'[r] = Idle]_vars
=============================================================================
