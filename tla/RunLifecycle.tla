---------------------------- MODULE RunLifecycle ----------------------------
(***************************************************************************)
(* The life of the runs of ONE agent: how the backend's request handlers,  *)
(* its periodic reconciler and usage-limit sweep, and the daemon's reports *)
(* drive the rows of forge_runs (backend/forge/services.py, runs.py,       *)
(* reconciler.py, usage_limits.py).                                        *)
(*                                                                         *)
(* Handlers run on a thread pool and each opens several short database     *)
(* sessions.  A handler is therefore a sequence of transactions: the       *)
(* request takes an idle worker and performs the first one, and the        *)
(* continuation kept in `op[w]` performs the others one step at a time,    *)
(* interleaved with every other worker.  A backend restart forgets the     *)
(* continuations (and the trace-to-scope map), never the rows.             *)
(*                                                                         *)
(* A turn is one dispatch, named by its trace id.  The daemon is abstract  *)
(* here: a turn is queued for it, becomes a live subprocess, and ends with *)
(* or without a report.  DispatchOutbox tells how its frame travels.       *)
(***************************************************************************)
EXTENDS RunRow, FiniteSets

CONSTANTS
  Workers,       \* threads of the backend that serve requests
  MaxRuns,       \* bound: rows ever inserted
  MaxTurns,      \* bound: turns ever dispatched
  MaxRequests,   \* bound: requests and verdicts ever made by users and agents
  Cap,           \* Profile.max_concurrent_runs
  AutoRetryMax,  \* _AUTO_RETRY_MAX
  Requests,      \* the kinds of request this instance issues
  Faults         \* the kinds of fault this instance suffers

ASSUME BoundAssumption == /\ MaxRuns \in Nat \ {0}
                          /\ MaxTurns \in Nat \ {0}
                          /\ MaxRequests \in Nat
                          /\ Cap \in Nat \ {0}
                          /\ AutoRetryMax \in Nat

AllRequests == {"schedule", "prepare", "start", "discard", "restart", "chat",
                "comment", "pause", "cancel", "resume", "declare", "sweep"}
AllFaults   == {"silence", "slow", "lost", "restart", "drop", "limit",
                "crash", "error"}

RunIds  == 1..MaxRuns
TurnIds == 1..MaxTurns

VARIABLES
  run,      \* run[r]: the row with id r (ids are in created_at order)
  turn,     \* turn[t]: the dispatch with trace id t
  op,       \* op[w]: what worker w still has to do for its request
  resting,  \* the runtime's limited_until is in the future
  linked,   \* the daemon is up and reporting
  asked     \* number of requests made, for the bound MaxRequests

vars == <<run, turn, op, resting, linked, asked>>

-----------------------------------------------------------------------------
(* Turns.                                                                  *)
TurnState == {"free",    \* trace id not used yet
              "saved",   \* user message committed, frame not handed over
              "queued",  \* frame handed to the hub
              "live",    \* the daemon's subprocess runs
              "over"}
Signal == {"none", "pause", "cancel"}
Cause  == {"user", "retry", "restart", "limit"}

Turn == [run    : 0..MaxRuns,
         st     : TurnState,
         signal : Signal,     \* flag on the daemon's in-flight entry
         scoped : BOOLEAN,    \* still in the backend's _TRACE_SCOPE map
         by     : Cause]      \* history: why it was dispatched

NoTurn == [run |-> 0, st |-> "free", signal |-> "none", scoped |-> FALSE,
           by |-> "user"]

LiveTurns == {t \in TurnIds : turn[t].st = "live"}
FreeTurn  == {t \in TurnIds : /\ turn[t].st = "free"
                              /\ \A u \in TurnIds : turn[u].st = "free" => t <= u}

(* The trace of the latest message of run r: cancel and pause aim at it.   *)
LatestTurns(r) == {t \in TurnIds : /\ turn[t].run = r
                                   /\ \A u \in TurnIds :
                                        turn[u].run = r => u <= t}

(* A signal frame flags the daemon's entry for a turn, or finds none: the  *)
(* turn is still being provisioned, is over, or the frame is lost.         *)
Flagged(ts, s) ==
  [t \in TurnIds |->
     IF t \in ts THEN [turn[t] EXCEPT !.signal = IF @ = "cancel" THEN @ ELSE s]
     ELSE turn[t]]

Signalled(ts, s) ==
  \E hit \in SUBSET {t \in ts : turn[t].st \in {"queued", "live"}} :
    turn' = Flagged(hit, s)

-----------------------------------------------------------------------------
(* Rows.                                                                   *)
Exists(r)       == r \in RunIds /\ run[r].status \notin {Unborn, Gone}
RowsOf(task)    == {r \in RunIds : Exists(r) /\ run[r].task = task}
Newest(S)       == {r \in S : \A q \in S : q <= r}
InStatus(S, st) == {r \in S : run[r].status = st}
FreeId          == {r \in RunIds : /\ run[r].status = Unborn
                                   /\ \A q \in RunIds :
                                        run[q].status = Unborn => r <= q}
Running         == InStatus(RunIds, "running")

(* prepare_task_run and retry_run: statuses that cannot be re-prepared.    *)
Active == {"pending", "running", "interrupting", "paused"}

(* latest_task_run_is_parked.                                              *)
IsParked(task) ==
  \E r \in Newest(RowsOf(task)) :
    run[r].status = "paused" \/ run[r].outcome = "parked"

-----------------------------------------------------------------------------
(* Continuations.                                                          *)
Step == {"idle", "prep", "create", "write", "dispatch", "trigger", "start",
         "discard", "message", "stamp", "close", "verdict", "resume"}
How  == {"work", "resume", "chat", "comment"}
Exit == {"none", "exit", "other"}   \* how a process that ended by itself did

Op == [pc    : Step,
       run   : 0..MaxRuns,
       task  : Tasks,
       turn  : 0..MaxTurns,
       how   : How,             \* what kind of dispatch this leads to
       sched : BOOLEAN,         \* schedule_task_run: dispatch, else discard
       by    : Cause,
       err   : Exit,            \* what complete_run will be given
       ok    : BOOLEAN,         \* the success flag the daemon posted
       todo  : SUBSET RunIds]   \* runs a sweep has still to resume

(* A continuation that concerns no task names an arbitrary one.            *)
AnyTask == CHOOSE task \in Tasks : TRUE

NoOp == [pc |-> "idle", run |-> 0, task |-> AnyTask, turn |-> 0,
         how |-> "work", sched |-> FALSE, by |-> "user", err |-> "none",
         ok |-> TRUE, todo |-> {}]

At(w, pc)     == op[w].pc = pc
Then(w, next) == op' = [op EXCEPT ![w] = next]

(* The handler returns; a sweep goes on with its next run.                 *)
Return(w) ==
  Then(w, IF op[w].todo = {} THEN NoOp
          ELSE [NoOp EXCEPT !.pc = "resume", !.todo = op[w].todo,
                            !.by = op[w].by])

(* A refused dispatch: schedule_task_run discards what it prepared.        *)
Refused(w) == IF op[w].sched THEN Then(w, [op[w] EXCEPT !.pc = "discard"])
              ELSE Return(w)

(* INSERT, and UPDATE ... WHERE id = r: a deleted row is not written.      *)
Insert(r, row) == run' = [run EXCEPT ![r] = row]
SetRun(r, row) == run' = [run EXCEPT ![r] = IF Exists(r) THEN row ELSE @]

Asks(kind) == /\ kind \in Requests
              /\ asked < MaxRequests
              /\ asked' = asked + 1

Request(kind, w) == Asks(kind) /\ At(w, "idle")

-----------------------------------------------------------------------------
(* Preparing and dispatching a run.                                        *)

(* schedule_task_run: the Conductor, webhooks, the workflow driver.        *)
Schedule(w, task) ==
  /\ Request("schedule", w)
  /\ Then(w, [NoOp EXCEPT !.pc = "prep", !.task = task, !.sched = TRUE])
  /\ UNCHANGED <<run, turn, resting, linked>>

(* The Run button and a task assignment prepare without dispatching.       *)
Prepare(w, task) ==
  /\ Request("prepare", w)
  /\ Then(w, [NoOp EXCEPT !.pc = "prep", !.task = task])
  /\ UNCHANGED <<run, turn, resting, linked>>

(* retry_run.                                                              *)
Restart(w, r) ==
  /\ Request("restart", w)
  /\ Exists(r) /\ run[r].status \notin Active
  /\ Then(w, [NoOp EXCEPT !.pc = "prep", !.task = run[r].task, !.sched = TRUE])
  /\ UNCHANGED <<run, turn, resting, linked>>

(* prepare_task_run, first transaction: find the row to reuse.             *)
PrepareLookup(w) ==
  /\ At(w, "prep")
  /\ LET own == {r \in RowsOf(op[w].task) : run[r].sched} IN
     IF own = {} THEN Then(w, [op[w] EXCEPT !.pc = "create"])
     ELSE \E r \in Newest(own) :
          IF run[r].status \notin Active
          THEN Then(w, [op[w] EXCEPT !.pc = "write", !.run = r])
          ELSE IF op[w].sched
               THEN Then(w, [op[w] EXCEPT !.pc = "dispatch", !.run = r])
               ELSE Return(w)
  /\ UNCHANGED <<run, turn, resting, linked, asked>>

(* runs.create.                                                            *)
PrepareCreate(w) ==
  /\ At(w, "create")
  /\ \/ \E r \in FreeId :
          /\ Insert(r, NewRow(op[w].task, TRUE, "pending"))
          /\ Then(w, [op[w] EXCEPT !.pc = "write", !.run = r])
     \/ /\ FreeId = {}              \* bound MaxRuns reached
        /\ Return(w)
        /\ UNCHANGED run
  /\ UNCHANGED <<turn, resting, linked, asked>>

(* prepare_task_run, last transaction.                                     *)
PrepareWrite(w) ==
  /\ At(w, "write")
  /\ SetRun(op[w].run, Prepared(run[op[w].run]))
  /\ IF op[w].sched THEN Then(w, [op[w] EXCEPT !.pc = "dispatch"])
     ELSE Return(w)
  /\ UNCHANGED <<turn, resting, linked, asked>>

(* The Start button: dispatch_pending_run on a prepared run.               *)
StartRun(w, r) ==
  /\ Request("start", w)
  /\ run[r].status \in {"ready", "pending"}
  /\ Then(w, [NoOp EXCEPT !.pc = "dispatch", !.run = r])
  /\ UNCHANGED <<run, turn, resting, linked>>

(* The checks of dispatch_pending_run.                                     *)
Dispatchable(r, how) ==
  run[r].status \in IF how = "resume" THEN {"paused", "pending"}
                                      ELSE {"ready", "pending"}
(* Mutants: the other work is looked for among the wrong rows; the cap is  *)
(* off by one.                                                             *)
SameTaskPending(r) ==
  \E q \in InStatus(RunIds, "pending") \ {r} : run[q].task = run[r].task
OverCap(r) == Cardinality(Running \ {r}) > Cap

SameTaskRunning(r) == \E q \in Running \ {r} : run[q].task = run[r].task
AtCap(r)           == Cardinality(Running \ {r}) >= Cap

DispatchCheck(w) ==
  /\ At(w, "dispatch")
  /\ LET r == op[w].run IN
     IF Dispatchable(r, op[w].how) /\ ~SameTaskRunning(r) /\ ~AtCap(r)
     THEN Then(w, [op[w] EXCEPT !.pc = "trigger"])
     ELSE Refused(w)
  /\ UNCHANGED <<run, turn, resting, linked, asked>>

(* dispatch_trigger, first transaction: refuse while the runtime rests     *)
(* (or, at the bound MaxTurns, as if the agent had lost its runtime);      *)
(* else pick the run of a run-less chat and commit the user message.  A    *)
(* chat first cancels the earlier turns it still knows of in the scope.    *)
Prior(w) ==
  IF op[w].how \in {"chat", "comment"}
  THEN {t \in TurnIds : /\ turn[t].scoped
                        /\ turn[t].run # 0
                        /\ run[turn[t].run].task = op[w].task}
  ELSE {}

Withdrawn(w, hit) ==
  [t \in TurnIds |-> [turn[t] EXCEPT
                        !.signal = IF t \in hit THEN "cancel" ELSE @,
                        !.scoped = @ /\ t \notin Prior(w)]]

TriggerRefused(w, hit) ==
  /\ \/ resting
     \/ FreeTurn = {}                                          \* bound
     \/ op[w].run = 0 /\ RowsOf(op[w].task) \cup FreeId = {}   \* bound
  /\ turn' = Withdrawn(w, hit)
  /\ Refused(w)
  /\ UNCHANGED run

TriggerSent(w, hit, t, r) ==
  /\ ~resting
  /\ \/ op[w].run # 0 /\ r = op[w].run /\ UNCHANGED run
     \/ /\ op[w].run = 0 /\ r \in Newest(RowsOf(op[w].task))
        /\ SetRun(r, TakenByChat(run[r]))
     \/ /\ op[w].run = 0 /\ r \in FreeId /\ RowsOf(op[w].task) = {}
        /\ Insert(r, NewRow(op[w].task, FALSE, "running"))
  /\ turn' = [Withdrawn(w, hit) EXCEPT ![t] =
                [NoTurn EXCEPT !.run = r, !.st = "saved", !.by = op[w].by]]
  /\ Then(w, [op[w] EXCEPT !.pc = "start", !.run = r, !.turn = t])

Trigger(w) ==
  /\ At(w, "trigger")
  /\ \E hit \in SUBSET {t \in Prior(w) : turn[t].st \in {"queued", "live"}} :
       \/ TriggerRefused(w, hit)
       \/ \E t \in FreeTurn, r \in RunIds : TriggerSent(w, hit, t, r)
  /\ UNCHANGED <<resting, linked, asked>>

(* runs.start, then the frame goes to the hub.                             *)
Start(w) ==
  /\ At(w, "start")
  /\ SetRun(op[w].run, Started(run[op[w].run]))
  /\ turn' = [turn EXCEPT ![op[w].turn].st = "queued",
                          ![op[w].turn].scoped = TRUE]
  /\ Return(w)
  /\ UNCHANGED <<resting, linked, asked>>

(* discard_pending_run, by the user or by a refused schedule_task_run.     *)
Discardable(r) == run[r].status \in {"ready", "pending"}

Discard(w, r) ==
  /\ Request("discard", w)
  /\ Discardable(r)
  /\ SetRun(r, [run[r] EXCEPT !.status = Gone])
  /\ UNCHANGED <<turn, op, resting, linked>>

DiscardRefused(w) ==
  /\ At(w, "discard")
  /\ LET r == op[w].run IN
     IF Discardable(r) THEN SetRun(r, [run[r] EXCEPT !.status = Gone])
     ELSE UNCHANGED run
  /\ Return(w)
  /\ UNCHANGED <<turn, resting, linked, asked>>

-----------------------------------------------------------------------------
(* Messages into the task's conversation.                                  *)

(* _deliver_comment_to_agent: a wake is dispatched only into a task whose  *)
(* run is not parked; the check is a session of its own.                   *)
CommentWake(w, task) ==
  /\ Request("comment", w)
  /\ ~IsParked(task)
  /\ Then(w, [NoOp EXCEPT !.pc = "message", !.task = task,
                         !.how = "comment"])
  /\ UNCHANGED <<run, turn, resting, linked>>

ChatRequest(w, task) ==
  /\ Request("chat", w)
  /\ Then(w, [NoOp EXCEPT !.pc = "message", !.task = task, !.how = "chat"])
  /\ UNCHANGED <<run, turn, resting, linked>>

(* send_runtime_message, first transaction: refused while a stop is in     *)
(* flight, queued behind a running turn, else it wakes the PAUSED run, the *)
(* newest run if its verdict is parked, or goes on without a run.          *)
ToWake(task) ==
  LET rows   == RowsOf(task)
      paused == InStatus(rows, "paused")
      parked == {r \in rows : run[r].outcome = "parked"}
  IN  IF paused # {} THEN Newest(paused) ELSE parked \cap Newest(rows)

Message(w) ==
  /\ At(w, "message")
  /\ LET rows == RowsOf(op[w].task)
         wake == ToWake(op[w].task)
     IN  IF InStatus(rows, "interrupting") # {} \/ InStatus(rows, "running") # {}
         THEN Return(w) /\ UNCHANGED run
         ELSE IF wake = {}
         THEN Then(w, [op[w] EXCEPT !.pc = "trigger"]) /\ UNCHANGED run
         ELSE \E r \in wake :
                /\ SetRun(r, WokenByMessage(run[r]))
                /\ Then(w, [op[w] EXCEPT !.pc = "trigger", !.run = r])
  /\ UNCHANGED <<turn, resting, linked, asked>>

-----------------------------------------------------------------------------
(* Stopping and resuming.                                                  *)

(* pause_run: the status and the signal frame first, the stop stamp and    *)
(* the intent in a second transaction.                                     *)
Pause(w, r) ==
  /\ Request("pause", w)
  /\ run[r].status \in {"running", "paused", "pending"}
  /\ SetRun(r, PauseRequested(run[r]))
  /\ Signalled(LatestTurns(r), "pause")
  /\ Then(w, [NoOp EXCEPT !.pc = "stamp", !.run = r])
  /\ UNCHANGED <<resting, linked>>

PauseStamp(w) ==
  /\ At(w, "stamp")
  /\ SetRun(op[w].run, PauseStamped(run[op[w].run]))
  /\ Return(w)
  /\ UNCHANGED <<turn, resting, linked, asked>>

(* runs.cancel: one transaction, then the cancel frame.                    *)
Cancel(w, r) ==
  /\ Request("cancel", w)
  /\ Exists(r) /\ run[r].status \notin Terminal \cup {"interrupting"}
  /\ SetRun(r, CancelRequested(run[r]))
  /\ Signalled(LatestTurns(r), "cancel")
  /\ UNCHANGED <<op, resting, linked>>

(* resume_run by the user ...                                              *)
Resume(w, r) ==
  /\ Request("resume", w)
  /\ run[r].status \in {"paused", "pending"}
  /\ SetRun(r, IF run[r].status = "paused" THEN Resumed(run[r]) ELSE run[r])
  /\ Then(w, [NoOp EXCEPT !.pc = "dispatch", !.run = r, !.how = "resume"])
  /\ UNCHANGED <<turn, resting, linked>>

(* ... and by a sweep, for one of the runs it collected.                   *)
SweepResume(w) ==
  /\ At(w, "resume")
  /\ \E r \in op[w].todo :
       /\ SetRun(r, IF run[r].status = "paused" THEN Resumed(run[r])
                    ELSE run[r])
       /\ Then(w, [op[w] EXCEPT !.pc = "dispatch", !.run = r,
                                !.how = "resume", !.todo = @ \ {r}])
  /\ UNCHANGED <<turn, resting, linked, asked>>

-----------------------------------------------------------------------------
(* Periodic jobs.                                                          *)

(* The scheduler runs one instance of a job at a time.                     *)
Sweeping(job) == \E v \in Workers : op[v].by = job

(* reconcile_stale_runs: every stuck or silent row is judged, then the     *)
(* interrupted ones are resumed one by one.                                *)
Reconcile(w) ==
  /\ At(w, "idle") /\ ~Sweeping("restart")
  /\ \E r \in RunIds : Stuck(run[r]) \/ Silent(run[r])
  /\ run' = [r \in RunIds |-> Judged(run[r])]
  /\ LET resumed == {r \in RunIds : Silent(run[r]) /\ Resumable(run[r])} IN
     Then(w, IF resumed = {} THEN NoOp
             ELSE [NoOp EXCEPT !.pc = "resume", !.todo = resumed,
                               !.by = "restart"])
  /\ UNCHANGED <<turn, resting, linked, asked>>

(* resume_due_runs.  resume_at never lies beyond the runtime's             *)
(* limited_until, so once the runtime no longer rests every such run is    *)
(* due (no fallback model is configured).                                  *)
(* Mutant of DueRuns: a run on its last limit pause is passed over.        *)
DueRunsUnderBudget ==
  {r \in InStatus(RunIds, "paused") : run[r].limited
                                      /\ run[r].hits < LimitPauses}

DueRuns == {r \in InStatus(RunIds, "paused") : run[r].limited}

LimitSweep(w) ==
  /\ "sweep" \in Requests /\ At(w, "idle") /\ ~Sweeping("limit")
  /\ ~resting
  /\ DueRuns # {}
  /\ Then(w, [NoOp EXCEPT !.pc = "resume", !.todo = DueRuns, !.by = "limit"])
  /\ UNCHANGED <<run, turn, resting, linked, asked>>

-----------------------------------------------------------------------------
(* What the daemon does and reports.                                       *)

(* The frame arrives and the subprocess is started.                        *)
TurnBegins(t) ==
  /\ linked
  /\ turn[t].st = "queued"
  /\ turn' = [turn EXCEPT ![t].st = "live"]
  /\ UNCHANGED <<run, op, resting, linked, asked>>

(* finish_run, called by the agent of a live turn.                         *)
Declare(t, o) ==
  /\ Asks("declare")
  /\ turn[t].st = "live"
  /\ Exists(turn[t].run)
  /\ SetRun(turn[t].run, Declared(run[turn[t].run], o))
  /\ UNCHANGED <<turn, op, resting, linked>>

(* heartbeat_runtimes with the runs of the live turns.                     *)
Heartbeat ==
  /\ linked
  /\ LET reported == {turn[t].run : t \in LiveTurns} IN
     /\ \E r \in reported : Reported(run[r]) # run[r]
     /\ run' = [r \in RunIds |-> IF r \in reported THEN Reported(run[r])
                                 ELSE run[r]]
  /\ UNCHANGED <<turn, op, resting, linked, asked>>

(* complete_trigger for a turn the daemon killed on a signal.              *)
EndTurn(t) == turn' = [turn EXCEPT ![t].st = "over", ![t].scoped = FALSE,
                                   ![t].signal = "none"]

ReportCancelled(w, t) ==
  /\ linked /\ At(w, "idle")
  /\ turn[t].st = "live" /\ turn[t].signal = "cancel"
  /\ EndTurn(t)
  /\ SetRun(turn[t].run, CancelAcked(run[turn[t].run]))
  /\ UNCHANGED <<op, resting, linked, asked>>

ReportPaused(w, t) ==
  /\ linked /\ At(w, "idle")
  /\ turn[t].st = "live" /\ turn[t].signal = "pause"
  /\ EndTurn(t)
  /\ SetRun(turn[t].run, PauseAcked(run[turn[t].run]))
  /\ UNCHANGED <<op, resting, linked, asked>>

(* complete_trigger for a turn whose process ended by itself: e is "none", *)
(* "exit" (subprocess exited with code) or "other".  It reads the verdict, *)
(* which outranks the exit code; the row is closed in later transactions.  *)
Report(w, t, e) ==
  /\ linked /\ At(w, "idle")
  /\ turn[t].st = "live" /\ turn[t].signal = "none"
  /\ EndTurn(t)
  /\ LET r   == turn[t].run
         eff == e = "none" \/ (Exists(r) /\ run[r].outcome # "none")
     IN  Then(w, [NoOp EXCEPT !.pc = "close", !.run = r, !.turn = t,
                              !.err = IF eff THEN "none" ELSE e,
                              !.ok = (e = "none")])
  /\ UNCHANGED <<run, resting, linked, asked>>

TurnSucceeds(w, t) == Report(w, t, "none")
TurnCrashes(w, t)  == "crash" \in Faults /\ Report(w, t, "exit")
TurnErrs(w, t)     == "error" \in Faults /\ Report(w, t, "other")

(* pause_on_limit takes the turn unless a verdict or the pause budget      *)
(* stands against it; then the error is one like any other.                *)
LimitApplies(r) == run[r].outcome = "none" /\ run[r].hits < LimitPauses

TurnHitsLimit(w, t) ==
  /\ "limit" \in Faults
  /\ linked /\ At(w, "idle")
  /\ turn[t].st = "live" /\ turn[t].signal = "none"
  /\ Exists(turn[t].run) /\ LimitApplies(turn[t].run)
  /\ EndTurn(t)
  /\ SetRun(turn[t].run, LimitPaused(run[turn[t].run]))
  /\ resting' = TRUE
  /\ UNCHANGED <<op, linked, asked>>

(* complete_run: the second part of complete_trigger.                      *)
Close(w) ==
  /\ At(w, "close")
  /\ SetRun(op[w].run, Completed(run[op[w].run], op[w].err))
  /\ Then(w, [op[w] EXCEPT !.pc = "verdict"])
  /\ UNCHANGED <<turn, resting, linked, asked>>

(* The verdict stamp, and _maybe_auto_retry after a crash: it counts the   *)
(* FAILED rows of the task.                                                *)
FailedRows(task) == InStatus(RowsOf(task), "failed")

Verdict(w) ==
  /\ At(w, "verdict")
  /\ LET r == op[w].run IN
     /\ SetRun(r, Stamped(run[r], op[w].ok, op[w].err # "other"))
     /\ IF /\ op[w].err = "exit"
           /\ Exists(r)
           /\ Cardinality(FailedRows(run[r].task)) <= AutoRetryMax
        THEN Then(w, [NoOp EXCEPT !.pc = "prep", !.task = run[r].task,
                                  !.sched = TRUE, !.by = "retry"])
        ELSE Return(w)
  /\ UNCHANGED <<turn, resting, linked, asked>>

-----------------------------------------------------------------------------
(* Faults and the passing of time.                                         *)

(* mark_dispatch_dropped: the outbox gave up on a frame.                   *)
DispatchDropped(t) ==
  /\ "drop" \in Faults
  /\ turn[t].st = "queued"
  /\ EndTurn(t)
  /\ SetRun(turn[t].run, Dropped(run[turn[t].run]))
  /\ UNCHANGED <<op, resting, linked, asked>>

(* A process dies, or its completion post is lost: nobody reports it.      *)
TurnLost(t) ==
  /\ "lost" \in Faults
  /\ turn[t].st \in {"queued", "live"}
  /\ turn' = [turn EXCEPT ![t].st = "over", ![t].signal = "none"]
  /\ UNCHANGED <<run, op, resting, linked, asked>>

(* The daemon goes silent, its subprocesses living on, and comes back.     *)
DaemonSilent ==
  /\ "silence" \in Faults
  /\ linked
  /\ linked' = FALSE
  /\ UNCHANGED <<run, turn, op, resting, asked>>

DaemonBack ==
  /\ ~linked
  /\ linked' = TRUE
  /\ UNCHANGED <<run, turn, op, resting, asked>>

(* A backend restart: continuations, in-memory scopes and frames not yet   *)
(* handed over are gone.                                                   *)
BackendRestart ==
  /\ "restart" \in Faults
  /\ \E w \in Workers : ~At(w, "idle")
  /\ op' = [w \in Workers |-> NoOp]
  /\ turn' = [t \in TurnIds |->
                [turn[t] EXCEPT !.scoped = FALSE,
                                !.st = IF @ = "saved" THEN "over" ELSE @]]
  /\ UNCHANGED <<run, resting, linked, asked>>

(* STUCK_TRANSIENT_THRESHOLD_S passes over a requested stop.               *)
StopFallsDue(r) ==
  /\ run[r].stop = "recent"
  /\ SetRun(r, [run[r] EXCEPT !.stop = "due"])
  /\ UNCHANGED <<turn, op, resting, linked, asked>>

(* STALE_RUN_THRESHOLD_S passes over a run nobody reports.  The daemon     *)
(* reports live turns only; a turn that waits for it, or for a slow clone, *)
(* that long is a fault.                                                   *)
Unreported(r) ==
  \/ ~linked
  \/ \A t \in TurnIds :
       turn[t].run = r => \/ turn[t].st \in {"free", "over"}
                          \/ turn[t].st # "live" /\ "slow" \in Faults

GoesStale(r) ==
  /\ run[r].status \in {"pending", "running"}
  /\ run[r].clock = "fresh"
  /\ Unreported(r)
  /\ SetRun(r, [run[r] EXCEPT !.clock = "stale"])
  /\ UNCHANGED <<turn, op, resting, linked, asked>>

LimitResets ==
  /\ resting
  /\ resting' = FALSE
  /\ UNCHANGED <<run, turn, op, linked, asked>>

-----------------------------------------------------------------------------
Init ==
  /\ run = [r \in RunIds |-> NewRow(AnyTask, FALSE, Unborn)]
  /\ turn = [t \in TurnIds |-> NoTurn]
  /\ op = [w \in Workers |-> NoOp]
  /\ resting = FALSE
  /\ linked = TRUE
  /\ asked = 0

UserRequest(w) ==
  \/ \E task \in Tasks : \/ Schedule(w, task)    \/ Prepare(w, task)
                         \/ CommentWake(w, task) \/ ChatRequest(w, task)
  \/ \E r \in RunIds : \/ Restart(w, r) \/ StartRun(w, r) \/ Discard(w, r)
                       \/ Pause(w, r)   \/ Cancel(w, r)   \/ Resume(w, r)

Continue(w) ==
  \/ PrepareLookup(w) \/ PrepareCreate(w)  \/ PrepareWrite(w)
  \/ DispatchCheck(w) \/ Trigger(w)        \/ Start(w)
  \/ Message(w)       \/ DiscardRefused(w) \/ PauseStamp(w)
  \/ SweepResume(w)   \/ Close(w)          \/ Verdict(w)

Completion(w) ==
  \E t \in TurnIds :
    \/ ReportCancelled(w, t) \/ ReportPaused(w, t) \/ TurnSucceeds(w, t)
    \/ TurnCrashes(w, t)     \/ TurnErrs(w, t)     \/ TurnHitsLimit(w, t)

Environment ==
  \/ \E t \in TurnIds : \/ TurnBegins(t) \/ DispatchDropped(t) \/ TurnLost(t)
                        \/ \E o \in Outcome \ {"none"} : Declare(t, o)
  \/ \E r \in RunIds : StopFallsDue(r) \/ GoesStale(r)
  \/ Heartbeat \/ DaemonSilent \/ DaemonBack \/ BackendRestart \/ LimitResets

Next ==
  \/ \E w \in Workers : \/ UserRequest(w) \/ Continue(w) \/ Completion(w)
                        \/ Reconcile(w)   \/ LimitSweep(w)
  \/ Environment

Spec == Init /\ [][Next]_vars

(* What the running system owes: worker threads go on, the scheduler's     *)
(* jobs fire, time passes, a connected daemon heartbeats, and a usage      *)
(* limit ends.  Nothing is owed by users, agents or faults.                *)
Fairness ==
  /\ \A w \in Workers : /\ WF_vars(Continue(w))
                         /\ WF_vars(Reconcile(w))
                         /\ WF_vars(LimitSweep(w))
  /\ \A r \in RunIds : WF_vars(StopFallsDue(r)) /\ WF_vars(GoesStale(r))
  /\ WF_vars(Heartbeat)
  /\ WF_vars(LimitResets)

FairSpec == Spec /\ Fairness

-----------------------------------------------------------------------------
(* Properties.                                                             *)

(* Every variable keeps its shape.  Row bounds restart_resumes and         *)
(* limit_hits by their budgets, whichever handlers interleave.             *)
TypeOK ==
  /\ run  \in [RunIds -> Row]
  /\ turn \in [TurnIds -> Turn]
  /\ op   \in [Workers -> Op]
  /\ resting \in BOOLEAN
  /\ linked  \in BOOLEAN
  /\ asked   \in Nat

(* AP-371: a heartbeat may bring back a FAILED row only if the reconciler  *)
(* failed it, and tells so from the error text alone.  The text never      *)
(* survives under a FAILED written by a completion or a dropped dispatch,  *)
(* although several handlers revive a row without clearing its error.      *)
SentinelIsReconcilers ==
  \A r \in RunIds :
    run[r].status = "failed" /\ run[r].err = "reconciled"
      => run[r].failedBy = "reconciler"

(* finish_run's verdict is the only source of "succeeded", "needs_input"   *)
(* and "blocked", and no exit code, stop, sweep or heartbeat overwrites it *)
(* before the next turn is asked for (AP-108).                             *)
VerdictIsTheAgents ==
  \A r \in RunIds :
    run[r].outcome \in {"succeeded", "parked"}
      \/ run[r].said \in {"succeeded", "parked"}
      => run[r].outcome = run[r].said

(* pause_run commits INTERRUPTING before it stamps stop_requested_at, and  *)
(* the reconciler only escalates stamped rows: an unstamped INTERRUPTING   *)
(* row has a worker that is about to stamp it.                             *)
StopsAreStamped ==
  \A r \in RunIds :
    run[r].status = "interrupting" /\ run[r].stop = "none"
      => \E w \in Workers : At(w, "stamp") /\ op[w].run = r

(* dispatch_pending_run serialises per (agent, task): two runs on one task *)
(* would share a working tree.                                             *)
OneRunningPerTask ==
  \A r, q \in Running : run[r].task = run[q].task => r = q

(* ... and starts prepared or resumed work only below the agent's cap.     *)
CapStep ==
  \A w \in Workers :
    /\ At(w, "start") /\ op[w].how \in {"work", "resume"}
    /\ op'[w].pc # "start" /\ Exists(op[w].run)
    => Cardinality(Running') <= Cap

CapRespected == [][CapStep]_vars

(* restart_resumes bounds how often a dying daemon's run is relaunched     *)
(* unasked: every relaunch has been paid for before it is dispatched.      *)
RestartsAreBudgeted ==
  \A r \in RunIds :
    Cardinality({t \in TurnIds : turn[t].by = "restart" /\ turn[t].run = r})
      <= run[r].resumes

-----------------------------------------------------------------------------
(* Liveness, under FairSpec.                                               *)

(* A requested stop lands: the daemon acks it or the reconciler escalates. *)
StopLands ==
  \A r \in RunIds :
    run[r].status = "interrupting" ~> run[r].status # "interrupting"

(* If the daemon stays away for good, every run comes to rest: the restart *)
(* budget ends the resume loop.                                            *)
SilentRunsSettle ==
  <>[]~linked =>
    <>[](\A r \in RunIds :
           run[r].status \notin {"pending", "running", "interrupting"})

(* A run the reconciler failed although its process lives comes back once  *)
(* the daemon reports again.                                               *)
WronglyFailedReturns ==
  \A t \in TurnIds :
    LET wrong == /\ linked /\ turn[t].st = "live"
                 /\ run[turn[t].run].status = "failed"
                 /\ run[turn[t].run].err = "reconciled"
    IN  wrong ~> ~wrong

(* A run paused on a usage limit does not stay parked.                     *)
LimitPauseEnds ==
  \A r \in RunIds :
    LET parked == run[r].status = "paused" /\ run[r].limited
    IN  parked ~> ~parked

-----------------------------------------------------------------------------
(* What a doc, a docstring or a comment promises and the code breaks.      *)

(* docs: "Terminal states (failed, cancelled) have no outgoing             *)
(* transitions": no report of the daemon reopens or renames a cancelled    *)
(* run.                                                                    *)
CancelledStaysCancelled ==
  [][\A r \in RunIds :
       run[r].status = "cancelled"
       => run'[r].status \notin {"completed", "failed", "paused"}]_vars

(* _maybe_auto_retry: "up to _AUTO_RETRY_MAX times".                       *)
AutoRetryBounded ==
  \A task \in Tasks :
    Cardinality({t \in TurnIds : /\ turn[t].by = "retry"
                                /\ turn[t].run # 0
                                /\ run[turn[t].run].task = task})
      <= AutoRetryMax

(* resume_due_runs: "relaunch limit-paused runs".                          *)
SweepSparesUserPauses ==
  [][\A w \in Workers :
       At(w, "resume") /\ op[w].by = "limit" /\ op'[w].pc = "dispatch"
       => run[op'[w].run].pausedBy = "limit"]_vars

=============================================================================
