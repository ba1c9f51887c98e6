---------------------------- MODULE PlanningTurns ----------------------------
(***************************************************************************)
(* The Conductor's LLM turns and the jobs that fire them                   *)
(* (forge/conductor.py, forge/scheduler.py, repos/planning_turns.py).      *)
(* Time is counted in planning intervals.  Every turn leaves a record;     *)
(* whether a dry queue may be refilled now is read back from the records,  *)
(* of which last_turn_at scans the newest Scan only, of all projects.      *)
(*                                                                         *)
(* What a turn decides, and the facts it is shown, are left out: a project *)
(* has something to plan, only live work, or nothing.                      *)
(***************************************************************************)
EXTENDS Integers, Sequences, FiniteSets

CONSTANTS
  Projects,      \* the managed projects
  Scan,          \* rows last_turn_at reads
  Interval,      \* sprint_min_interval_hours, in planning intervals
  MaxOther,      \* bound: turns that the other jobs fire
  MaxFaults,     \* bound: restarts, refused sends, offline spells
  MaxRefresh     \* bound: refreshes of the scheduler

TurnAssumption == /\ Scan \in Nat \ {0} /\ Interval \in Nat \ {0}
                  /\ MaxOther \in Nat /\ MaxFaults \in Nat /\ MaxRefresh \in Nat

VARIABLES
  jobs,     \* the installed jobs
  work,     \* work[p]: "plan", "live" or "none"
  online,   \* the Conductor's runtime has a daemon
  log,      \* the newest Scan planning turns, newest first
  job,      \* the planning job: where it is
  since,    \* history: age of each project's last dry-queue trigger
  others, faults, refreshes

vars == <<jobs, work, online, log, job, since, others, faults, refreshes>>

TickJobs    == {"conductor_tick", "conductor_planning", "conductor_progress_check",
                "conductor_sprint_review", "conductor_sprint_planning"}
SystemJobs  == {"stale_run_reconciler", "usage_limit_resume", "dispatch_outbox_sweep"}

Turn == [project : Projects,
         kind    : {"sprint", "other"},            \* kind = sprint_planning, or not
         status  : {"triggered", "dispatched", "skipped", "undelivered", "error"},
         age     : 0..Interval,
         sent    : {"no", "yes", "trying"}]        \* history: the runtime took it
Record(p, kind, status) ==
  [project |-> p, kind |-> kind, status |-> status, age |-> 0, sent |-> "no"]

Job == [pc    : {"idle", "visit", "record", "fire", "send"},
        queue : SUBSET Projects,
        p     : Projects \cup {0}]
Idle == [pc |-> "idle", queue |-> {}, p |-> 0]

Firsts(s) == IF Len(s) > Scan THEN SubSeq(s, 1, Scan) ELSE s
Logged(r) == log' = Firsts(<<r>> \o log)
Onward(queue) == IF queue = {} THEN Idle ELSE [Idle EXCEPT !.pc = "visit", !.queue = queue]

-----------------------------------------------------------------------------
(* The scheduler.                                                          *)

(* Mutant of Refreshed: the planning jobs are forgotten as well.           *)
RefreshedFew == {"conductor_tick", "stale_run_reconciler"}

(* refresh(): all jobs are removed; the Conductor's and the reconciler are *)
(* added again.                                                            *)
Refreshed == TickJobs \cup {"stale_run_reconciler"}

Init ==
  /\ jobs = TickJobs \cup SystemJobs       \* start()
  /\ work = [p \in Projects |-> "none"]
  /\ online = TRUE /\ log = <<>> /\ job = Idle
  /\ since = [p \in Projects |-> Interval]
  /\ others = 0 /\ faults = 0 /\ refreshes = 0

Refresh ==
  /\ refreshes < MaxRefresh
  /\ jobs' = Refreshed /\ refreshes' = refreshes + 1
  /\ UNCHANGED <<work, online, log, job, since, others, faults>>

(* A planning interval passes and the planning job, one instance, fires.   *)
Older(n) == IF n < Interval THEN n + 1 ELSE n

PlanningFires ==
  /\ "conductor_planning" \in jobs /\ job = Idle
  /\ log' = [i \in DOMAIN log |-> [log[i] EXCEPT !.age = Older(@)]]
  /\ since' = [p \in Projects |-> Older(since[p])]
  /\ job' = Onward(Projects)
  /\ UNCHANGED <<jobs, work, online, others, faults, refreshes>>

-----------------------------------------------------------------------------
(* run_planning_turn, one project after the other.                         *)

Plannable(p) == work[p] = "plan"    \* gather_planning_facts lists a task
Busy(p)      == work[p] = "live"    \* project_has_live_work, nothing to list

(* last_turn_at and _sprint_due.                                           *)
SprintsOf(p) == {i \in DOMAIN log : log[i].kind = "sprint" /\ log[i].project = p}
SprintDue(p) ==
  \A i \in SprintsOf(p) :
    (\A k \in SprintsOf(p) : i <= k) => log[i].age >= Interval

Visit(p) ==
  LET rest == job.queue \ {p} IN
  /\ job.pc = "visit" /\ p \in job.queue
  /\ \/ /\ ~online                              \* _record_undelivered
        /\ Logged(Record(p, "other", "undelivered"))
        /\ job' = Onward(rest)
     \/ /\ online /\ Plannable(p)
        /\ Logged([Record(p, "other", "dispatched") EXCEPT !.sent = "trying"])
        /\ job' = [job EXCEPT !.pc = "send", !.queue = rest, !.p = p]
     \/ /\ online /\ ~Plannable(p) /\ ~Busy(p) /\ SprintDue(p)
        /\ job' = [job EXCEPT !.pc = "record", !.queue = rest, !.p = p]
        /\ UNCHANGED log
     \/ /\ online
        /\ Busy(p) \/ (~Plannable(p) /\ ~SprintDue(p))
        /\ Logged(Record(p, "other", "skipped"))
        /\ job' = Onward(rest)
  /\ UNCHANGED <<jobs, work, online, since, others, faults, refreshes>>

(* Mutant of TriggerKind: the early record is not tagged for the gate.     *)
TriggerKindUntagged == "other"

TriggerKind == "sprint"

(* The trigger is recorded before it is fired.                             *)
RecordTrigger ==
  /\ job.pc = "record"
  /\ Logged(Record(job.p, TriggerKind, "triggered"))
  /\ since' = [since EXCEPT ![job.p] = 0]
  /\ job' = [job EXCEPT !.pc = "fire"]
  /\ UNCHANGED <<jobs, work, online, others, faults, refreshes>>

(* run_sprint_planning_turn(trigger="queue_dry").                          *)
FireSprint ==
  /\ job.pc = "fire"
  /\ IF online
     THEN /\ Logged([Record(job.p, "sprint", "dispatched") EXCEPT !.sent = "trying"])
          /\ job' = [job EXCEPT !.pc = "send"]
     ELSE /\ Logged(Record(job.p, "other", "undelivered"))
          /\ job' = Onward(job.queue)
  /\ UNCHANGED <<jobs, work, online, since, others, faults, refreshes>>

(* The record the job has just written, unless newer ones displaced it.    *)
Awaiting == {i \in DOMAIN log : log[i].project = job.p /\ log[i].sent = "trying"}
Marked(status, sent) ==
  [i \in DOMAIN log |->
    IF i \in Awaiting /\ \A k \in Awaiting : i <= k
    THEN [log[i] EXCEPT !.status = status, !.sent = sent] ELSE log[i]]

(* send_runtime_message: delivered, refused by an answer nobody reads, or  *)
(* an exception, which update_status records.                              *)
Send ==
  /\ job.pc = "send"
  /\ \/ log' = Marked("dispatched", "yes") /\ UNCHANGED faults
     \/ /\ faults < MaxFaults /\ faults' = faults + 1
        /\ \E st \in {"dispatched", "error"} : log' = Marked(st, "no")
  /\ job' = Onward(job.queue)
  /\ UNCHANGED <<jobs, work, online, since, others, refreshes>>

-----------------------------------------------------------------------------
(* The other jobs and the rest of the world.                               *)

(* gather_progress_facts may list a task: one in progress or in review is  *)
(* live work; whether its last run failed or went quiet is left open.      *)
Stalled(p) == work[p] # "none"

(* A turn dispatched by one of the daily jobs: sent, refused by an answer  *)
(* nobody reads, or marked as an error.                                    *)
Dispatch(p, kind) ==
  LET r == Record(p, kind, "dispatched") IN
  \/ Logged([r EXCEPT !.sent = "yes"]) /\ UNCHANGED faults
  \/ /\ faults < MaxFaults /\ faults' = faults + 1
     /\ Logged(r) \/ Logged([r EXCEPT !.status = "error"])

(* run_progress_check_turn: without a stalled task there is no record.     *)
ProgressCheck(p) ==
  /\ "conductor_progress_check" \in jobs
  /\ \/ ~online /\ Logged(Record(p, "other", "undelivered")) /\ UNCHANGED faults
     \/ online /\ Stalled(p) /\ Dispatch(p, "other")

(* run_sprint_review_turn: an empty digest is recorded as a skip.          *)
SprintReview(p) ==
  /\ "conductor_sprint_review" \in jobs
  /\ \/ ~online /\ Logged(Record(p, "other", "undelivered")) /\ UNCHANGED faults
     \/ online /\ Logged(Record(p, "other", "skipped")) /\ UNCHANGED faults
     \/ online /\ Dispatch(p, "other")

(* run_sprint_planning_turn, daily or by POST /conductor/sprint-planning.  *)
SprintPlanning(p) ==
  \/ ~online /\ Logged(Record(p, "other", "undelivered")) /\ UNCHANGED faults
  \/ online /\ Dispatch(p, "sprint")

DailyJob(p) ==
  /\ others < MaxOther /\ others' = others + 1
  /\ ProgressCheck(p) \/ SprintReview(p) \/ SprintPlanning(p)
  /\ UNCHANGED <<jobs, work, online, job, since, refreshes>>

WorkComes(p) ==
  /\ work[p] = "none" /\ others < MaxOther
  /\ work' = [work EXCEPT ![p] = "plan"] /\ others' = others + 1
  /\ UNCHANGED <<jobs, online, log, job, since, faults, refreshes>>

WorkGoes(p) ==
  /\ work[p] # "none"
  /\ work' = [work EXCEPT ![p] = IF @ = "plan" THEN "live" ELSE "none"]
  /\ UNCHANGED <<jobs, online, log, job, since, others, faults, refreshes>>

Offline ==
  /\ online /\ faults < MaxFaults
  /\ online' = FALSE /\ faults' = faults + 1
  /\ UNCHANGED <<jobs, work, log, job, since, others, refreshes>>

Online ==
  /\ ~online /\ online' = TRUE
  /\ UNCHANGED <<jobs, work, log, job, since, others, faults, refreshes>>

(* The backend restarts: start() installs every job.                       *)
Restart ==
  /\ faults < MaxFaults /\ faults' = faults + 1
  /\ job' = Idle /\ jobs' = TickJobs \cup SystemJobs
  /\ UNCHANGED <<work, online, log, since, others, refreshes>>

Planning == \/ \E p \in Projects : Visit(p)
            \/ RecordTrigger \/ FireSprint \/ Send

Next ==
  \/ Refresh \/ PlanningFires \/ Planning
  \/ \E p \in Projects : DailyJob(p) \/ WorkComes(p) \/ WorkGoes(p)
  \/ Offline \/ Online \/ Restart

Spec == Init /\ [][Next]_vars

Fairness == /\ WF_vars(PlanningFires) /\ WF_vars(Planning) /\ WF_vars(Online)
            /\ \A p \in Projects : WF_vars(WorkGoes(p))

FairSpec == Spec /\ Fairness

-----------------------------------------------------------------------------
(* Properties.                                                             *)

TypeOK ==
  /\ jobs \subseteq TickJobs \cup SystemJobs
  /\ work \in [Projects -> {"plan", "live", "none"}] /\ online \in BOOLEAN
  /\ Len(log) <= Scan /\ \A i \in DOMAIN log : log[i] \in Turn
  /\ job \in Job /\ since \in [Projects -> 0..Interval]
  /\ others \in 0..MaxOther /\ faults \in 0..MaxFaults /\ refreshes \in 0..MaxRefresh

(* A dry queue is refilled at most once in an interval: a restart between  *)
(* the trigger and the turn, a turn that is refused or undelivered, and    *)
(* any records in between, do not make it fire again.                      *)
SpacedStep ==
  \A p \in Projects : since'[p] = 0 /\ job.pc = "record" /\ job.p = p => since[p] >= Interval

DryQueueSpaced == [][SpacedStep]_vars

(* A project that stays idle is planned again and again: no refresh, no    *)
(* outage and no failed turn keeps the gate shut.                          *)
Planned(p)   == since[p] = 0
WorkGoing(p) == work[p] # "none"

IdleIsPlanned == \A p \in Projects : []<>Planned(p) \/ []<>WorkGoing(p)

(* What the records say was dispatched has reached the runtime or is about *)
(* to: never a fake "dispatched".                                          *)
NoFakeDispatched ==
  job.pc # "send" => \A i \in DOMAIN log : log[i].status = "dispatched" => log[i].sent = "yes"

(* Refresh puts back what remove_all_jobs drops.                           *)
JobsSurviveRefresh == jobs = TickJobs \cup SystemJobs
=============================================================================
