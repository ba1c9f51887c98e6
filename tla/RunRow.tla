------------------------------- MODULE RunRow -------------------------------
(***************************************************************************)
(* One row of the forge_runs table and every way the backend rewrites it.  *)
(*                                                                         *)
(* A handler of backend/forge never edits a run through a common setter:   *)
(* start, complete, cancel, the reconciler, the heartbeat and half a dozen *)
(* others each assign their own subset of columns inside their own         *)
(* transaction.  Each of those assignments is one operator here, from a    *)
(* row to the row it commits, so that what a handler does NOT reset is as  *)
(* visible as what it does.  RunLifecycle says when they are applied.      *)
(*                                                                         *)
(* Columns whose value no guard reads (tokens, cost, diff, summary, paths, *)
(* timestamps kept for display) are left out.                              *)
(***************************************************************************)
EXTENDS Naturals

CONSTANTS
  Tasks,          \* the tasks of one agent; a run belongs to one of them
  ResumeBudget,   \* FORGE_RESTART_MAX_RESUMES
  LimitPauses     \* Policy.max_pauses of usage_limits

ASSUME TaskAssumption == Tasks # {}

ASSUME BudgetAssumption == ResumeBudget \in Nat /\ LimitPauses \in Nat

-----------------------------------------------------------------------------
(* RunStatus, plus the two states of a row id that is not in the table.    *)
Status == {"ready", "pending", "running", "interrupting", "paused",
           "completed", "failed", "cancelled"}
Unborn == "unborn"      \* not inserted yet
Gone   == "gone"        \* deleted by discard_pending_run

Terminal == {"completed", "failed", "cancelled"}

(* RunOutcome: needs_input and blocked are treated alike by every handler  *)
(* modelled here, and are one value, "parked".                             *)
Outcome == {"none", "succeeded", "parked", "failed"}

Intent == {"none", "pause", "discard"}

(* stop_requested_at: NULL, younger than STUCK_TRANSIENT_THRESHOLD_S, or   *)
(* older than it.                                                          *)
StopStamp == {"none", "recent", "due"}

(* last_heartbeat_at (created_at while it is NULL) against                 *)
(* STALE_RUN_THRESHOLD_S.                                                  *)
Clock == {"fresh", "stale"}

(* The error column: RECONCILED_ERROR, "Cancelled by user.", the outbox's  *)
(* "Daemon offline...", a subprocess exit code, any other error.           *)
Error == {"none", "reconciled", "user", "offline", "exit", "other"}

(* Who wrote the last FAILED, who caused the last PAUSED (history).        *)
Writer == {"none", "completion", "reconciler", "dropped"}
Pauser == {"none", "user", "limit", "reconciler"}

Row == [task     : Tasks,
        sched    : BOOLEAN,           \* trigger_event = "task.scheduled"
        status   : Status \cup {Unborn, Gone},
        outcome  : Outcome,
        intent   : Intent,
        stop     : StopStamp,
        clock    : Clock,
        session  : BOOLEAN,           \* session_id captured
        resumes  : 0..ResumeBudget,   \* restart_resumes
        err      : Error,
        limited  : BOOLEAN,           \* pause_reason = "usage_limit"
        hits     : 0..LimitPauses,    \* limit_hits
        said     : Outcome,           \* history: verdict of the turn's agent
        failedBy : Writer,            \* history
        pausedBy : Pauser]            \* history

-----------------------------------------------------------------------------
(* INSERT: runs.create (PENDING) and the insert branch of                  *)
(* get_or_create_task_run (RUNNING).                                       *)
NewRow(task, sched, status) ==
  [task |-> task, sched |-> sched, status |-> status, outcome |-> "none",
   intent |-> "none", stop |-> "none", clock |-> "fresh", session |-> FALSE,
   resumes |-> 0, err |-> "none", limited |-> FALSE, hits |-> 0,
   said |-> "none", failedBy |-> "none", pausedBy |-> "none"]

(* The second transaction of prepare_task_run.  The session, the restart   *)
(* budget, the limit columns and the liveness clock survive it.            *)
Prepared(x) ==
  [x EXCEPT !.status = "ready", !.outcome = "none", !.err = "none",
            !.intent = "none", !.stop = "none", !.said = "none"]

(* The reuse branch of get_or_create_task_run: a chat turn takes the row   *)
(* over whatever its status is.                                            *)
TakenByChat(x) ==
  [x EXCEPT !.status = "running", !.clock = "fresh", !.outcome = "none",
            !.err = "none", !.intent = "none", !.stop = "none",
            !.said = "none"]

(* send_runtime_message flips a PAUSED or parked run to RUNNING and clears *)
(* only the verdict.                                                       *)
WokenByMessage(x) ==
  [x EXCEPT !.status = "running", !.outcome = "none", !.said = "none"]

(* runs.start.                                                             *)
Started(x) == [x EXCEPT !.status = "running", !.clock = "fresh"]

(* runs.complete: the status column is overwritten whatever it was.        *)
Completed(x, e) ==
  [x EXCEPT !.status = IF e = "none" THEN "completed" ELSE "failed",
            !.err = e,
            !.failedBy = IF e = "none" THEN @ ELSE "completion"]

(* Mutant of Stamped: a clean exit is taken for a verdict.                 *)
StampedGreen(x, ok, sid) ==
  [x EXCEPT !.outcome = IF @ # "none" THEN @
                        ELSE IF ok THEN "succeeded" ELSE "failed",
            !.session = @ \/ sid]

(* The transaction complete_trigger runs after complete_run: a failed exit *)
(* with no verdict is stamped FAILED, the session is kept.                 *)
Stamped(x, ok, sid) ==
  [x EXCEPT !.outcome = IF @ = "none" /\ ~ok THEN "failed" ELSE @,
            !.session = @ \/ sid]

(* The cancelled branch of complete_trigger.                               *)
CancelAcked(x) ==
  [x EXCEPT !.status = "cancelled", !.stop = "none", !.intent = "none",
            !.outcome = IF @ = "none" THEN "failed" ELSE @,
            !.session = TRUE]

(* The paused branch of complete_trigger: only INTERRUPTING is flipped.    *)
PauseAcked(x) ==
  IF x.status = "interrupting"
  THEN [x EXCEPT !.status = "paused", !.stop = "none", !.intent = "none",
                 !.session = TRUE, !.pausedBy = "user"]
  ELSE [x EXCEPT !.session = TRUE]

(* pause_on_limit.                                                         *)
LimitPaused(x) ==
  [x EXCEPT !.status = "paused", !.limited = TRUE, !.hits = @ + 1,
            !.err = "none", !.intent = "none", !.stop = "none",
            !.session = TRUE, !.pausedBy = "limit"]

(* finish_run: the agent's verdict, whatever the status of the row.        *)
Declared(x, o) == [x EXCEPT !.outcome = o, !.said = o]

(* Mutant of PauseStamped: the intent without the time of the request.     *)
PauseUnstamped(x) == [x EXCEPT !.intent = "pause"]

(* pause_run, first and second transaction.                                *)
PauseRequested(x) == [x EXCEPT !.status = "interrupting"]
PauseStamped(x)   == [x EXCEPT !.stop = "recent", !.intent = "pause"]

(* Mutant of CancelRequested: the time of the request is forgotten.        *)
CancelUnstamped(x) ==
  [x EXCEPT !.status = "interrupting", !.intent = "discard", !.err = "user"]

(* runs.cancel.                                                            *)
CancelRequested(x) ==
  [x EXCEPT !.status = "interrupting", !.intent = "discard",
            !.stop = "recent", !.err = "user"]

(* resume_run.                                                             *)
Resumed(x) ==
  [x EXCEPT !.status = "pending", !.intent = "none", !.limited = FALSE,
            !.clock = "fresh"]

(* Mutant of Dropped: the error of an earlier life is kept.                *)
DroppedSilently(x) ==
  IF x.status \in {"pending", "running"}
  THEN [x EXCEPT !.status = "failed", !.failedBy = "dropped"] ELSE x

(* mark_dispatch_dropped.                                                  *)
Dropped(x) ==
  IF x.status \in {"pending", "running"}
  THEN [x EXCEPT !.status = "failed", !.err = "offline",
                 !.failedBy = "dropped"]
  ELSE x

(* The reconciler: an INTERRUPTING row whose ack is overdue ...            *)
Stuck(x) == x.status = "interrupting" /\ x.stop = "due"

Escalated(x) ==
  IF x.intent = "discard"
  THEN [x EXCEPT !.status = "cancelled", !.stop = "none", !.intent = "none",
                 !.outcome = IF @ = "none" THEN "failed" ELSE @]
  ELSE [x EXCEPT !.status = "paused", !.stop = "none", !.intent = "none",
                 !.pausedBy = "user"]

(* ... and a PENDING or RUNNING row no daemon reports any more: resumed    *)
(* while it has a session, no verdict and budget, failed otherwise.        *)
Silent(x) == x.status \in {"pending", "running"} /\ x.clock = "stale"

(* Mutant of Resumable: the budget is not looked at.                       *)
ResumableForever(x) == x.session /\ x.outcome = "none"

Resumable(x) == x.session /\ x.outcome = "none" /\ x.resumes < ResumeBudget

(* Mutant of Interrupted: the resume is not counted.                       *)
InterruptedUnpaid(x) ==
  [x EXCEPT !.status = "paused", !.pausedBy = "reconciler"]

Interrupted(x) ==
  [x EXCEPT !.status = "paused", !.resumes = @ + 1,
            !.pausedBy = "reconciler"]

Reconciled(x) ==
  [x EXCEPT !.status = "failed", !.err = "reconciled",
            !.outcome = IF @ = "none" THEN "failed" ELSE @,
            !.failedBy = "reconciler"]

Judged(x) ==
  CASE Stuck(x)                    -> Escalated(x)
    [] Silent(x) /\ Resumable(x)   -> Interrupted(x)
    [] Silent(x) /\ ~Resumable(x)  -> Reconciled(x)
    [] OTHER                       -> x

(* Mutant of Reported: a row with a verdict is not brought back.           *)
ReportedStrictly(x) ==
  CASE x.status \in {"pending", "running"} -> [x EXCEPT !.clock = "fresh"]
    [] x.status = "failed" /\ x.err = "reconciled" /\ x.outcome = "none" ->
         [x EXCEPT !.status = "running", !.err = "none", !.clock = "fresh"]
    [] OTHER -> x

(* heartbeat_runtimes on a run the daemon reports in flight: a live row is *)
(* re-stamped, a row the reconciler failed is brought back.                *)
Reported(x) ==
  CASE x.status \in {"pending", "running"} -> [x EXCEPT !.clock = "fresh"]
    [] x.status = "failed" /\ x.err = "reconciled" ->
         [x EXCEPT !.status = "running", !.err = "none", !.clock = "fresh",
                   !.outcome = IF @ = "failed" THEN "none" ELSE @]
    [] OTHER -> x
=============================================================================
