------------------------- MODULE RunLifecycleProofs -------------------------
(***************************************************************************)
(* Theorems about RunLifecycle, for every number of workers, runs, turns   *)
(* and requests, every budget, and every set of requests and faults.       *)
(***************************************************************************)
EXTENDS RunLifecycle, FiniteSetTheorems, TLAPS

-----------------------------------------------------------------------------
(* What every rewrite of a run row preserves: it yields a row again.  Two  *)
(* of them count, and stay within their budget only under the guard their  *)
(* handler tests.                                                          *)

(* The values the handlers assign.  Citing them keeps the sets of values    *)
(* folded in the proofs below.                                             *)
LEMMA Values ==
  /\ {"ready", "pending", "running", "interrupting", "paused", "completed",
      "failed", "cancelled"} \subseteq Status
  /\ {"none", "failed"} \subseteq Outcome
  /\ {"none", "pause", "discard"} \subseteq Intent
  /\ {"none", "recent", "due"} \subseteq StopStamp
  /\ {"fresh", "stale"} \subseteq Clock
  /\ {"none", "reconciled", "user", "offline"} \subseteq Error
  /\ {"none", "completion", "reconciler", "dropped"} \subseteq Writer
  /\ {"none", "user", "limit", "reconciler"} \subseteq Pauser
  /\ Gone \in {Unborn, Gone}
BY DEF Status, Outcome, Intent, StopStamp, Clock, Error, Writer, Pauser

(* A new row is a row, whatever the insert that made it.                   *)
LEMMA NewRowType ==
  ASSUME NEW task \in Tasks, NEW sched \in BOOLEAN,
         NEW status \in Status \cup {Unborn, Gone}
  PROVE  NewRow(task, sched, status) \in Row
<1>1. 0 \in 0..ResumeBudget /\ 0 \in 0..LimitPauses
  BY BudgetAssumption
<1> QED BY <1>1, Values, Zenon DEF NewRow, Row

(* The assignments that only set columns.                                  *)
LEMMA AssignmentType ==
  ASSUME NEW x \in Row
  PROVE  /\ Prepared(x) \in Row
         /\ TakenByChat(x) \in Row
         /\ WokenByMessage(x) \in Row
         /\ Started(x) \in Row
         /\ CancelAcked(x) \in Row
         /\ PauseAcked(x) \in Row
         /\ PauseRequested(x) \in Row
         /\ PauseStamped(x) \in Row
         /\ CancelRequested(x) \in Row
         /\ Resumed(x) \in Row
         /\ Dropped(x) \in Row
         /\ Reported(x) \in Row
         /\ [x EXCEPT !.status = Gone] \in Row
         /\ [x EXCEPT !.stop = "due"] \in Row
         /\ [x EXCEPT !.clock = "stale"] \in Row
<1>1. Prepared(x) \in Row           BY Values, Zenon DEF Prepared, Row
<1>2. TakenByChat(x) \in Row        BY Values, Zenon DEF TakenByChat, Row
<1>3. WokenByMessage(x) \in Row     BY Values, Zenon DEF WokenByMessage, Row
<1>4. Started(x) \in Row            BY Values, Zenon DEF Started, Row
<1>5. CancelAcked(x) \in Row        BY Values, Zenon DEF CancelAcked, Row
<1>6. PauseAcked(x) \in Row         BY Values, Zenon DEF PauseAcked, Row
<1>7. PauseRequested(x) \in Row     BY Values, Zenon DEF PauseRequested, Row
<1>8. PauseStamped(x) \in Row       BY Values, Zenon DEF PauseStamped, Row
<1>9. CancelRequested(x) \in Row    BY Values, Zenon DEF CancelRequested, Row
<1>10. Resumed(x) \in Row           BY Values, Zenon DEF Resumed, Row
<1>11. Dropped(x) \in Row           BY Values, Zenon DEF Dropped, Row
<1>12. Reported(x) \in Row          BY Values, Zenon DEF Reported, Row
<1>13. [x EXCEPT !.status = Gone] \in Row    BY Values, Zenon DEF Row
<1>14. [x EXCEPT !.stop = "due"] \in Row     BY Values, Zenon DEF Row
<1>15. [x EXCEPT !.clock = "stale"] \in Row  BY Values, Zenon DEF Row
<1> QED BY <1>1, <1>2, <1>3, <1>4, <1>5, <1>6, <1>7, <1>8, <1>9, <1>10,
           <1>11, <1>12, <1>13, <1>14, <1>15

(* The assignments that take an argument of their handler.                 *)
LEMMA ReportType ==
  ASSUME NEW x \in Row, NEW e \in Error, NEW ok \in BOOLEAN,
         NEW sid \in BOOLEAN, NEW o \in Outcome
  PROVE  /\ Completed(x, e) \in Row
         /\ Stamped(x, ok, sid) \in Row
         /\ Declared(x, o) \in Row
<1>1. Completed(x, e) \in Row       BY Values, Zenon DEF Completed, Row
<1>2. Stamped(x, ok, sid) \in Row   BY Values, Zenon DEF Stamped, Row
<1>3. Declared(x, o) \in Row        BY Values, Zenon DEF Declared, Row
<1> QED BY <1>1, <1>2, <1>3

(* pause_on_limit counts a hit only below max_pauses.                      *)
LEMMA LimitPausedType ==
  ASSUME NEW x \in Row, x.hits < LimitPauses
  PROVE  LimitPaused(x) \in Row
<1>1. x.hits + 1 \in 0..LimitPauses
  BY BudgetAssumption DEF Row
<1> QED BY <1>1, Values, Zenon DEF LimitPaused, Row

(* The reconciler counts a resume only below the restart budget.           *)
LEMMA JudgedType ==
  ASSUME NEW x \in Row
  PROVE  Judged(x) \in Row
<1>1. Escalated(x) \in Row          BY Values, Zenon DEF Escalated, Row
<1>2. Reconciled(x) \in Row         BY Values, Zenon DEF Reconciled, Row
<1>3. ASSUME Resumable(x)
      PROVE  Interrupted(x) \in Row
  <2>1. x.resumes + 1 \in 0..ResumeBudget
    BY <1>3, BudgetAssumption DEF Row, Resumable
  <2> QED BY <2>1, Values, Zenon DEF Interrupted, Row
<1> QED BY <1>1, <1>2, <1>3 DEF Judged

-----------------------------------------------------------------------------
(* The writes of a row keep the table well typed: a deleted row is not     *)
(* written, so the new row is only needed for a row that exists.           *)
LEMMA SetRunType ==
  ASSUME run \in [RunIds -> Row],
         NEW r, NEW row,
         Exists(r) => row \in Row,
         SetRun(r, row)
  PROVE  run' \in [RunIds -> Row]
BY DEF SetRun, Exists

LEMMA InsertType ==
  ASSUME run \in [RunIds -> Row],
         NEW r \in RunIds, NEW row \in Row,
         Insert(r, row)
  PROVE  run' \in [RunIds -> Row]
BY DEF Insert

(* A row that exists is a row.                                             *)
LEMMA ExistsType ==
  ASSUME run \in [RunIds -> Row], NEW r, Exists(r)
  PROVE  r \in RunIds /\ run[r] \in Row
BY DEF Exists

(* The continuations: only a worker's own entry changes.                   *)
LEMMA ThenType ==
  ASSUME op \in [Workers -> Op], NEW w \in Workers, NEW next \in Op,
         Then(w, next)
  PROVE  op' \in [Workers -> Op]
BY DEF Then

LEMMA IdType == RunIds \subseteq 0..MaxRuns /\ TurnIds \subseteq 0..MaxTurns
BY BoundAssumption DEF RunIds, TurnIds

LEMMA AnyTaskType == AnyTask \in Tasks
BY TaskAssumption DEF AnyTask

LEMMA NoOpType == NoOp \in Op
BY BoundAssumption, AnyTaskType DEF NoOp, Op, Step, How, Cause, Exit

(* A continuation with another step and another run is a continuation.     *)
LEMMA OpRunType ==
  ASSUME NEW o \in Op, NEW pc \in Step, NEW r \in RunIds
  PROVE  [o EXCEPT !.pc = pc, !.run = r] \in Op
<1>1. r \in 0..MaxRuns
  BY IdType
<1> QED BY <1>1, Zenon DEF Op

LEMMA OpTurnType ==
  ASSUME NEW o \in Op, NEW pc \in Step, NEW r \in RunIds, NEW t \in TurnIds
  PROVE  [o EXCEPT !.pc = pc, !.run = r, !.turn = t] \in Op
<1>1. r \in 0..MaxRuns /\ t \in 0..MaxTurns
  BY IdType
<1> QED BY <1>1, Zenon DEF Op

LEMMA ReturnType ==
  ASSUME op \in [Workers -> Op], NEW w \in Workers, Return(w)
  PROVE  op' \in [Workers -> Op]
<1>1. [NoOp EXCEPT !.pc = "resume", !.todo = op[w].todo, !.by = op[w].by]
        \in Op
  BY NoOpType DEF Op, Step
<1> QED BY <1>1, NoOpType DEF Return, Then

LEMMA RefusedType ==
  ASSUME op \in [Workers -> Op], NEW w \in Workers, Refused(w)
  PROVE  op' \in [Workers -> Op]
<1>1. [op[w] EXCEPT !.pc = "discard"] \in Op
  BY DEF Op, Step
<1> QED BY <1>1, ReturnType DEF Refused, Then

(* The turns.                                                              *)
LEMMA NoTurnType == NoTurn \in Turn
BY BoundAssumption DEF NoTurn, Turn, TurnState, Signal, Cause

LEMMA EndTurnType ==
  ASSUME turn \in [TurnIds -> Turn], NEW t \in TurnIds, EndTurn(t)
  PROVE  turn' \in [TurnIds -> Turn]
<1>1. [turn[t] EXCEPT !.st = "over", !.scoped = FALSE, !.signal = "none"]
        \in Turn
  BY DEF Turn, TurnState, Signal
<1>2. turn' = [turn EXCEPT ![t] = [turn[t] EXCEPT !.st = "over",
                                     !.scoped = FALSE, !.signal = "none"]]
  BY DEF EndTurn
<1> QED BY <1>1, <1>2

LEMMA SignalledType ==
  ASSUME turn \in [TurnIds -> Turn], NEW ts, NEW s \in Signal,
         Signalled(ts, s)
  PROVE  turn' \in [TurnIds -> Turn]
<1>1. ASSUME NEW t \in TurnIds
      PROVE  [turn[t] EXCEPT !.signal = IF @ = "cancel" THEN @ ELSE s] \in Turn
  BY DEF Turn
<1>2. PICK hit \in SUBSET {t \in ts : turn[t].st \in {"queued", "live"}} :
        turn' = Flagged(hit, s)
  BY DEF Signalled
<1> QED BY <1>1, <1>2 DEF Flagged

-----------------------------------------------------------------------------
(* Type correctness.                                                       *)
LEMMA TypeInit == Init => TypeOK
<1> SUFFICES ASSUME Init PROVE TypeOK
  OBVIOUS
<1>1. NewRow(AnyTask, FALSE, Unborn) \in Row
  BY AnyTaskType, NewRowType DEF Unborn
<1> QED BY <1>1, NoTurnType, NoOpType DEF Init, TypeOK

(* The requests that only give a worker something to do.                   *)
LEMMA TypeAccept ==
  ASSUME TypeOK, NEW w \in Workers, NEW task \in Tasks, NEW r \in RunIds,
         \/ Schedule(w, task)    \/ Prepare(w, task)
         \/ CommentWake(w, task) \/ ChatRequest(w, task)
         \/ Restart(w, r)        \/ StartRun(w, r)
  PROVE  TypeOK'
<1> USE DEF TypeOK, Request, Asks
<1>1. CASE Schedule(w, task)
  <2>1. [NoOp EXCEPT !.pc = "prep", !.task = task, !.sched = TRUE] \in Op
    BY NoOpType DEF Op, Step
  <2> QED BY <1>1, <2>1, ThenType DEF Schedule
<1>2. CASE Prepare(w, task)
  <2>1. [NoOp EXCEPT !.pc = "prep", !.task = task] \in Op
    BY NoOpType DEF Op, Step
  <2> QED BY <1>2, <2>1, ThenType DEF Prepare
<1>3. CASE CommentWake(w, task)
  <2>1. [NoOp EXCEPT !.pc = "message", !.task = task, !.how = "comment"] \in Op
    BY NoOpType DEF Op, Step, How
  <2> QED BY <1>3, <2>1, ThenType DEF CommentWake
<1>4. CASE ChatRequest(w, task)
  <2>1. [NoOp EXCEPT !.pc = "message", !.task = task, !.how = "chat"] \in Op
    BY NoOpType DEF Op, Step, How
  <2> QED BY <1>4, <2>1, ThenType DEF ChatRequest
<1>5. CASE Restart(w, r)
  <2>1. run[r].task \in Tasks
    BY DEF Row
  <2>2. [NoOp EXCEPT !.pc = "prep", !.task = run[r].task, !.sched = TRUE] \in Op
    BY <2>1, NoOpType DEF Op, Step
  <2> QED BY <1>5, <2>2, ThenType DEF Restart
<1>6. CASE StartRun(w, r)
  <2>1. [NoOp EXCEPT !.pc = "dispatch", !.run = r] \in Op
    BY NoOpType, IdType DEF Op, Step
  <2> QED BY <1>6, <2>1, ThenType DEF StartRun
<1> QED BY <1>1, <1>2, <1>3, <1>4, <1>5, <1>6

(* The steps of preparing a run.                                           *)
LEMMA TypePrepare ==
  ASSUME TypeOK, NEW w \in Workers,
         PrepareLookup(w) \/ PrepareCreate(w) \/ PrepareWrite(w)
  PROVE  TypeOK'
<1> USE DEF TypeOK
<1>1. CASE PrepareLookup(w)
  <2>1. \A r \in RunIds :
          /\ [op[w] EXCEPT !.pc = "write", !.run = r] \in Op
          /\ [op[w] EXCEPT !.pc = "dispatch", !.run = r] \in Op
    BY OpRunType DEF Step
  <2>2. [op[w] EXCEPT !.pc = "create"] \in Op
    BY DEF Op, Step
  <2>3. Newest({r \in RowsOf(op[w].task) : run[r].sched}) \subseteq RunIds
    BY DEF Newest, RowsOf
  <2>4. op' \in [Workers -> Op]
    BY <1>1, <2>1, <2>2, <2>3, ThenType, ReturnType DEF PrepareLookup
  <2> QED BY <1>1, <2>4 DEF PrepareLookup
<1>2. CASE PrepareCreate(w)
  <2>1. CASE FreeId = {} /\ Return(w) /\ UNCHANGED run
    BY <1>2, <2>1, ReturnType DEF PrepareCreate
  <2>2. CASE \E r \in FreeId :
               /\ Insert(r, NewRow(op[w].task, TRUE, "pending"))
               /\ Then(w, [op[w] EXCEPT !.pc = "write", !.run = r])
    <3>1. PICK r \in FreeId :
            /\ Insert(r, NewRow(op[w].task, TRUE, "pending"))
            /\ Then(w, [op[w] EXCEPT !.pc = "write", !.run = r])
      BY <2>2
    <3>2. r \in RunIds
      BY DEF FreeId
    <3>3. [op[w] EXCEPT !.pc = "write", !.run = r] \in Op
      BY <3>2, OpRunType DEF Step
    <3>4. op[w].task \in Tasks
      BY DEF Op
    <3> QED BY <1>2, <3>1, <3>2, <3>3, <3>4, ThenType, InsertType, NewRowType,
               Values DEF PrepareCreate
  <2> QED BY <1>2, <2>1, <2>2 DEF PrepareCreate
<1>3. CASE PrepareWrite(w)
  <2>1. run' \in [RunIds -> Row]
    BY <1>3, SetRunType, ExistsType, AssignmentType DEF PrepareWrite
  <2>2. [op[w] EXCEPT !.pc = "dispatch"] \in Op
    BY DEF Op, Step
  <2> QED BY <1>3, <2>1, <2>2, ThenType, ReturnType DEF PrepareWrite
<1> QED BY <1>1, <1>2, <1>3

(* The steps of dispatching one.                                           *)
LEMMA TypeTrigger ==
  ASSUME TypeOK, NEW w \in Workers, Trigger(w)
  PROVE  TypeOK'
<1> USE DEF TypeOK
<1>1. PICK hit \in SUBSET {t \in Prior(w) : turn[t].st \in {"queued", "live"}} :
        \/ TriggerRefused(w, hit)
        \/ \E t \in FreeTurn, r \in RunIds : TriggerSent(w, hit, t, r)
  BY DEF Trigger
<1>2. Withdrawn(w, hit) \in [TurnIds -> Turn]
  <2>1. ASSUME NEW t \in TurnIds
        PROVE  [turn[t] EXCEPT !.signal = IF t \in hit THEN "cancel" ELSE @,
                               !.scoped = @ /\ t \notin Prior(w)] \in Turn
    BY DEF Turn, Signal
  <2> QED BY <2>1 DEF Withdrawn
<1>3. resting' = resting /\ linked' = linked /\ asked' = asked
  BY DEF Trigger
<1>4. CASE TriggerRefused(w, hit)
  BY <1>2, <1>3, <1>4, RefusedType DEF TriggerRefused
<1>5. CASE \E t \in FreeTurn, r \in RunIds : TriggerSent(w, hit, t, r)
  <2>1. PICK t \in FreeTurn, r \in RunIds : TriggerSent(w, hit, t, r)
    BY <1>5
  <2>2. t \in TurnIds /\ r \in RunIds /\ r \in 0..MaxRuns
    BY IdType DEF FreeTurn
  <2>3. [NoTurn EXCEPT !.run = r, !.st = "saved", !.by = op[w].by] \in Turn
    BY <2>2, NoTurnType DEF Turn, TurnState, Op
  <2>4. turn' \in [TurnIds -> Turn]
    BY <1>2, <2>1, <2>2, <2>3 DEF TriggerSent
  <2>5. [op[w] EXCEPT !.pc = "start", !.run = r, !.turn = t] \in Op
    BY <2>2, OpTurnType DEF Step
  <2>6. op' \in [Workers -> Op]
    BY <2>1, <2>5, ThenType DEF TriggerSent
  <2>7. op[w].task \in Tasks
    BY DEF Op
  <2>8. run' \in [RunIds -> Row]
    <3>1. CASE UNCHANGED run
      BY <3>1
    <3>2. CASE SetRun(r, TakenByChat(run[r]))
      BY <3>2, SetRunType, ExistsType, AssignmentType
    <3>3. CASE Insert(r, NewRow(op[w].task, FALSE, "running"))
      BY <3>3, <2>7, InsertType, NewRowType, Values
    <3> QED BY <2>1, <3>1, <3>2, <3>3 DEF TriggerSent
  <2> QED BY <1>3, <2>4, <2>6, <2>8
<1> QED BY <1>1, <1>4, <1>5

LEMMA TypeDispatch ==
  ASSUME TypeOK, NEW w \in Workers,
         DispatchCheck(w) \/ Start(w) \/ DiscardRefused(w)
  PROVE  TypeOK'
<1> USE DEF TypeOK
<1>1. CASE DispatchCheck(w)
  <2>1. [op[w] EXCEPT !.pc = "trigger"] \in Op
    BY DEF Op, Step
  <2> QED BY <1>1, <2>1, ThenType, RefusedType DEF DispatchCheck
<1>2. CASE Start(w)
  <2>1. run' \in [RunIds -> Row]
    BY <1>2, SetRunType, ExistsType, AssignmentType DEF Start
  <2>2. turn' \in [TurnIds -> Turn]
    <3>1. ASSUME NEW t \in TurnIds
          PROVE  [turn[t] EXCEPT !.st = "queued", !.scoped = TRUE] \in Turn
      BY DEF Turn, TurnState
    <3>2. turn' = [turn EXCEPT ![op[w].turn] =
                     [turn[op[w].turn] EXCEPT !.st = "queued", !.scoped = TRUE]]
      BY <1>2 DEF Start
    <3> QED BY <3>1, <3>2
  <2> QED BY <1>2, <2>1, <2>2, ReturnType DEF Start
<1>3. CASE DiscardRefused(w)
  <2>1. run' \in [RunIds -> Row]
    BY <1>3, SetRunType, ExistsType, AssignmentType DEF DiscardRefused
  <2> QED BY <1>3, <2>1, ReturnType DEF DiscardRefused
<1> QED BY <1>1, <1>2, <1>3

(* Discarding, stopping and resuming.                                      *)
LEMMA TypeStop ==
  ASSUME TypeOK, NEW w \in Workers, NEW r \in RunIds,
         Discard(w, r) \/ Pause(w, r) \/ Cancel(w, r) \/ Resume(w, r)
  PROVE  TypeOK'
<1> USE DEF TypeOK, Request, Asks
<1>0. run[r] \in Row
  OBVIOUS
<1>1. CASE Discard(w, r)
  <2>1. run' \in [RunIds -> Row]
    BY <1>0, <1>1, SetRunType, AssignmentType DEF Discard
  <2> QED BY <1>1, <2>1 DEF Discard
<1>2. CASE Pause(w, r)
  <2>1. run' \in [RunIds -> Row]
    BY <1>0, <1>2, SetRunType, AssignmentType DEF Pause
  <2>2. turn' \in [TurnIds -> Turn]
    BY <1>2, SignalledType DEF Pause, Signal
  <2>3. [NoOp EXCEPT !.pc = "stamp", !.run = r] \in Op
    BY NoOpType, IdType DEF Op, Step
  <2> QED BY <1>2, <2>1, <2>2, <2>3, ThenType DEF Pause
<1>3. CASE Cancel(w, r)
  <2>1. run' \in [RunIds -> Row]
    BY <1>0, <1>3, SetRunType, AssignmentType DEF Cancel
  <2>2. turn' \in [TurnIds -> Turn]
    BY <1>3, SignalledType DEF Cancel, Signal
  <2> QED BY <1>3, <2>1, <2>2 DEF Cancel
<1>4. CASE Resume(w, r)
  <2>1. run' \in [RunIds -> Row]
    BY <1>0, <1>4, SetRunType, AssignmentType DEF Resume
  <2>2. [NoOp EXCEPT !.pc = "dispatch", !.run = r, !.how = "resume"] \in Op
    BY NoOpType, IdType DEF Op, Step, How
  <2> QED BY <1>4, <2>1, <2>2, ThenType DEF Resume
<1> QED BY <1>1, <1>2, <1>3, <1>4

(* The second halves of pause_run, a sweep and send_runtime_message.       *)
LEMMA TypeContinue ==
  ASSUME TypeOK, NEW w \in Workers,
         PauseStamp(w) \/ SweepResume(w) \/ Message(w)
  PROVE  TypeOK'
<1> USE DEF TypeOK
<1>1. CASE PauseStamp(w)
  <2>1. run' \in [RunIds -> Row]
    BY <1>1, SetRunType, ExistsType, AssignmentType DEF PauseStamp
  <2> QED BY <1>1, <2>1, ReturnType DEF PauseStamp
<1>2. CASE SweepResume(w)
  <2>1. PICK r \in op[w].todo :
          /\ SetRun(r, IF run[r].status = "paused" THEN Resumed(run[r])
                       ELSE run[r])
          /\ Then(w, [op[w] EXCEPT !.pc = "dispatch", !.run = r,
                                   !.how = "resume", !.todo = @ \ {r}])
    BY <1>2 DEF SweepResume
  <2>2. r \in RunIds
    BY DEF Op
  <2>3. run' \in [RunIds -> Row]
    BY <2>1, <2>2, SetRunType, AssignmentType
  <2>4. [op[w] EXCEPT !.pc = "dispatch", !.run = r, !.how = "resume",
                      !.todo = @ \ {r}] \in Op
    <3>1. "dispatch" \in Step /\ "resume" \in How /\ r \in 0..MaxRuns
      BY <2>2, IdType DEF Step, How
    <3>2. op[w].todo \ {r} \in SUBSET RunIds
      BY DEF Op
    <3> QED BY <3>1, <3>2, Zenon DEF Op
  <2> QED BY <1>2, <2>1, <2>3, <2>4, ThenType DEF SweepResume
<1>3. CASE Message(w)
  <2>1. [op[w] EXCEPT !.pc = "trigger"] \in Op
    BY DEF Op, Step
  <2>2. CASE Return(w) /\ UNCHANGED run
    BY <1>3, <2>2, ReturnType DEF Message
  <2>3. CASE Then(w, [op[w] EXCEPT !.pc = "trigger"]) /\ UNCHANGED run
    BY <1>3, <2>1, <2>3, ThenType DEF Message
  <2>4. CASE \E r \in ToWake(op[w].task) :
               /\ SetRun(r, WokenByMessage(run[r]))
               /\ Then(w, [op[w] EXCEPT !.pc = "trigger", !.run = r])
    <3>1. PICK r \in ToWake(op[w].task) :
            /\ SetRun(r, WokenByMessage(run[r]))
            /\ Then(w, [op[w] EXCEPT !.pc = "trigger", !.run = r])
      BY <2>4
    <3>2. r \in RunIds
      BY DEF ToWake, Newest, RowsOf, InStatus
    <3>3. [op[w] EXCEPT !.pc = "trigger", !.run = r] \in Op
      BY <3>2, OpRunType DEF Step
    <3>4. run' \in [RunIds -> Row]
      BY <3>1, <3>2, SetRunType, AssignmentType
    <3> QED BY <1>3, <3>1, <3>3, <3>4, ThenType DEF Message
  <2> QED BY <1>3, <2>2, <2>3, <2>4 DEF Message
<1> QED BY <1>1, <1>2, <1>3

(* The periodic jobs.                                                      *)
LEMMA TypeSweep ==
  ASSUME TypeOK, NEW w \in Workers, Reconcile(w) \/ LimitSweep(w)
  PROVE  TypeOK'
<1> USE DEF TypeOK
<1>1. CASE Reconcile(w)
  <2>1. run' \in [RunIds -> Row]
    BY <1>1, JudgedType DEF Reconcile
  <2>2. [NoOp EXCEPT !.pc = "resume",
                     !.todo = {r \in RunIds : Silent(run[r]) /\ Resumable(run[r])},
                     !.by = "restart"] \in Op
    BY NoOpType DEF Op, Step, Cause
  <2>3. op' \in [Workers -> Op]
    BY <1>1, <2>2, NoOpType, ThenType DEF Reconcile
  <2> QED BY <1>1, <2>1, <2>3 DEF Reconcile
<1>2. CASE LimitSweep(w)
  <2>1. [NoOp EXCEPT !.pc = "resume", !.todo = DueRuns, !.by = "limit"] \in Op
    BY NoOpType DEF Op, Step, Cause, DueRuns, InStatus
  <2> QED BY <1>2, <2>1, ThenType DEF LimitSweep
<1> QED BY <1>1, <1>2

(* What the daemon reports.                                                *)
LEMMA TypeReport ==
  ASSUME TypeOK, NEW w \in Workers, NEW t \in TurnIds,
         \/ ReportCancelled(w, t) \/ ReportPaused(w, t) \/ TurnHitsLimit(w, t)
         \/ TurnSucceeds(w, t)    \/ TurnCrashes(w, t)  \/ TurnErrs(w, t)
  PROVE  TypeOK'
<1> USE DEF TypeOK
<1>1. CASE ReportCancelled(w, t)
  <2>1. run' \in [RunIds -> Row]
    BY <1>1, SetRunType, ExistsType, AssignmentType DEF ReportCancelled
  <2> QED BY <1>1, <2>1, EndTurnType DEF ReportCancelled
<1>2. CASE ReportPaused(w, t)
  <2>1. run' \in [RunIds -> Row]
    BY <1>2, SetRunType, ExistsType, AssignmentType DEF ReportPaused
  <2> QED BY <1>2, <2>1, EndTurnType DEF ReportPaused
<1>3. CASE TurnHitsLimit(w, t)
  <2>1. run[turn[t].run] \in Row /\ run[turn[t].run].hits < LimitPauses
    BY <1>3, ExistsType DEF TurnHitsLimit, LimitApplies
  <2>2. run' \in [RunIds -> Row]
    BY <1>3, <2>1, SetRunType, LimitPausedType DEF TurnHitsLimit
  <2> QED BY <1>3, <2>2, EndTurnType DEF TurnHitsLimit
<1>4. ASSUME NEW e \in Exit, Report(w, t, e)
      PROVE  TypeOK'
  <2>1. turn[t].run \in 0..MaxRuns /\ t \in 0..MaxTurns
    BY IdType DEF Turn
  <2>2. \A err \in {"none", e} :
          [NoOp EXCEPT !.pc = "close", !.run = turn[t].run, !.turn = t,
                       !.err = err, !.ok = (e = "none")] \in Op
    BY <2>1, NoOpType DEF Op, Step, Exit
  <2>3. op' \in [Workers -> Op]
    BY <1>4, <2>2, ThenType DEF Report
  <2> QED BY <1>4, <2>3, EndTurnType DEF Report
<1> QED BY <1>1, <1>2, <1>3, <1>4 DEF TurnSucceeds, TurnCrashes, TurnErrs, Exit

LEMMA TypeClose ==
  ASSUME TypeOK, NEW w \in Workers, Close(w) \/ Verdict(w)
  PROVE  TypeOK'
<1> USE DEF TypeOK
<1>0. op[w].err \in Error /\ op[w].ok \in BOOLEAN
  BY DEF Op, Exit, Error
<1>1. CASE Close(w)
  <2>1. run' \in [RunIds -> Row]
    BY <1>0, <1>1, SetRunType, ExistsType, ReportType, Values DEF Close
  <2>2. [op[w] EXCEPT !.pc = "verdict"] \in Op
    BY DEF Op, Step
  <2> QED BY <1>1, <2>1, <2>2, ThenType DEF Close
<1>2. CASE Verdict(w)
  <2>1. run' \in [RunIds -> Row]
    <3>1. Exists(op[w].run) =>
            Stamped(run[op[w].run], op[w].ok, op[w].err # "other") \in Row
      BY <1>0, ExistsType, ReportType, Values
    <3> QED BY <1>2, <3>1, SetRunType DEF Verdict
  <2>2. ASSUME Exists(op[w].run)
        PROVE  [NoOp EXCEPT !.pc = "prep", !.task = run[op[w].run].task,
                            !.sched = TRUE, !.by = "retry"] \in Op
    <3>1. run[op[w].run].task \in Tasks
      BY <2>2, ExistsType DEF Row
    <3> QED BY <3>1, NoOpType DEF Op, Step, Cause
  <2>3. op' \in [Workers -> Op]
    BY <1>2, <2>2, ThenType, ReturnType DEF Verdict
  <2> QED BY <1>2, <2>1, <2>3 DEF Verdict
<1> QED BY <1>1, <1>2

(* Agents, the daemon, faults and the passing of time.                     *)
LEMMA TypeEnvironment ==
  ASSUME TypeOK, Environment
  PROVE  TypeOK'
<1> USE DEF TypeOK
<1>1. ASSUME NEW t \in TurnIds, TurnBegins(t)
      PROVE  TypeOK'
  <2>1. [turn[t] EXCEPT !.st = "live"] \in Turn
    BY DEF Turn, TurnState
  <2> QED BY <1>1, <2>1 DEF TurnBegins
<1>2. ASSUME NEW t \in TurnIds, DispatchDropped(t)
      PROVE  TypeOK'
  <2>1. run' \in [RunIds -> Row]
    BY <1>2, SetRunType, ExistsType, AssignmentType DEF DispatchDropped
  <2> QED BY <1>2, <2>1, EndTurnType DEF DispatchDropped
<1>3. ASSUME NEW t \in TurnIds, TurnLost(t)
      PROVE  TypeOK'
  <2>1. [turn[t] EXCEPT !.st = "over", !.signal = "none"] \in Turn
    BY DEF Turn, TurnState, Signal
  <2> QED BY <1>3, <2>1 DEF TurnLost
<1>4. ASSUME NEW t \in TurnIds, NEW o \in Outcome, Declare(t, o)
      PROVE  TypeOK'
  <2>1. run' \in [RunIds -> Row]
    BY <1>4, SetRunType, ExistsType, ReportType, Values DEF Declare
  <2> QED BY <1>4, <2>1 DEF Declare, Asks
<1>5. ASSUME NEW r \in RunIds, StopFallsDue(r) \/ GoesStale(r)
      PROVE  TypeOK'
  <2>1. run' \in [RunIds -> Row]
    BY <1>5, SetRunType, AssignmentType DEF StopFallsDue, GoesStale
  <2> QED BY <1>5, <2>1 DEF StopFallsDue, GoesStale
<1>6. CASE Heartbeat
  BY <1>6, AssignmentType DEF Heartbeat
<1>7. CASE DaemonSilent \/ DaemonBack \/ LimitResets
  BY <1>7 DEF DaemonSilent, DaemonBack, LimitResets
<1>8. CASE BackendRestart
  <2>1. ASSUME NEW t \in TurnIds
        PROVE  [turn[t] EXCEPT !.scoped = FALSE,
                  !.st = IF @ = "saved" THEN "over" ELSE @] \in Turn
    BY DEF Turn, TurnState
  <2>2. turn' \in [TurnIds -> Turn] /\ op' \in [Workers -> Op]
    BY <1>8, <2>1, NoOpType DEF BackendRestart
  <2> QED BY <1>8, <2>2 DEF BackendRestart
<1> QED BY <1>1, <1>2, <1>3, <1>4, <1>5, <1>6, <1>7, <1>8 DEF Environment

(* Whatever interleaves, crashes or restarts, the tables keep their shape; *)
(* above all restart_resumes and limit_hits never exceed their budgets,    *)
(* though the handlers that count them test the budget in one place and    *)
(* other handlers reset neither.                                           *)
THEOREM TypeCorrect == Spec => []TypeOK
<1>1. TypeOK /\ [Next]_vars => TypeOK'
  <2> SUFFICES ASSUME TypeOK, [Next]_vars PROVE TypeOK'
    OBVIOUS
  <2>1. CASE UNCHANGED vars
    BY <2>1 DEF vars, TypeOK
  <2>2. CASE Environment
    BY <2>2, TypeEnvironment
  <2>3. ASSUME NEW w \in Workers, UserRequest(w)
        PROVE  TypeOK'
    <3>1. ASSUME NEW task \in Tasks,
                 \/ Schedule(w, task)    \/ Prepare(w, task)
                 \/ CommentWake(w, task) \/ ChatRequest(w, task)
          PROVE  TypeOK'
      <4>1. 1 \in RunIds
        BY BoundAssumption DEF RunIds
      <4> QED BY <3>1, <4>1, TypeAccept
    <3>2. ASSUME NEW r \in RunIds, Restart(w, r) \/ StartRun(w, r)
          PROVE  TypeOK'
      BY <3>2, TypeAccept, AnyTaskType
    <3>3. ASSUME NEW r \in RunIds,
                 Discard(w, r) \/ Pause(w, r) \/ Cancel(w, r) \/ Resume(w, r)
          PROVE  TypeOK'
      BY <3>3, TypeStop
    <3> QED BY <2>3, <3>1, <3>2, <3>3 DEF UserRequest
  <2>4. ASSUME NEW w \in Workers, Continue(w)
        PROVE  TypeOK'
    BY <2>4, TypePrepare, TypeTrigger, TypeDispatch, TypeContinue, TypeClose
       DEF Continue
  <2>5. ASSUME NEW w \in Workers, Completion(w)
        PROVE  TypeOK'
    BY <2>5, TypeReport DEF Completion
  <2>6. ASSUME NEW w \in Workers, Reconcile(w) \/ LimitSweep(w)
        PROVE  TypeOK'
    BY <2>6, TypeSweep
  <2> QED BY <2>1, <2>2, <2>3, <2>4, <2>5, <2>6 DEF Next
<1> QED BY <1>1, TypeInit, PTL DEF Spec

-----------------------------------------------------------------------------
(* A run row is written from some twenty places.  RowStep is the complete  *)
(* list of what one step can do to one row; the invariants that speak of a *)
(* row alone follow from it, operator by operator, however the handlers    *)
(* interleave.                                                             *)

(* y is what one handler may make of the row x.                            *)
Rewritten(x, y) ==
  \/ y = x
  \/ /\ x.status = Unborn
     /\ \E task \in Tasks, sched \in BOOLEAN, status \in {"pending", "running"} :
          y = NewRow(task, sched, status)
  \/ y \in {Prepared(x), TakenByChat(x), WokenByMessage(x), Started(x)}
  \/ y \in {CancelAcked(x), PauseAcked(x), LimitPaused(x)}
  \/ y \in {PauseStamped(x), CancelRequested(x), Resumed(x)}
  \/ y \in {Dropped(x), Judged(x), Reported(x)}
  \/ y \in {[x EXCEPT !.status = Gone], [x EXCEPT !.stop = "due"],
            [x EXCEPT !.clock = "stale"]}
  \/ \E o \in Outcome : y = Declared(x, o)
  \/ \E e \in Exit : y = Completed(x, e)
  \/ \E ok \in BOOLEAN, sid \in BOOLEAN : y = Stamped(x, ok, sid)

(* The one rewrite that leaves its handler something to do for the row:    *)
(* pause_run has asked for the stop and will stamp it.                     *)
PauseBegun(q) ==
  /\ run'[q] = PauseRequested(run[q])
  /\ \E w \in Workers : op'[w].pc = "stamp" /\ op'[w].run = q

LEMMA SetRunRow ==
  ASSUME run \in [RunIds -> Row],
         NEW r, NEW row, NEW q \in RunIds,
         SetRun(r, row)
  PROVE  run'[q] = run[q] \/ (q = r /\ Exists(q) /\ run'[q] = row)
BY DEF SetRun, Exists

LEMMA InsertRow ==
  ASSUME run \in [RunIds -> Row],
         NEW r \in FreeId, NEW row, NEW q \in RunIds,
         Insert(r, row)
  PROVE  run'[q] = run[q] \/ (run[q].status = Unborn /\ run'[q] = row)
BY DEF Insert, FreeId

LEMMA InsertRewritten ==
  ASSUME run \in [RunIds -> Row], NEW q \in RunIds, NEW task \in Tasks,
         NEW sched \in BOOLEAN, NEW status \in {"pending", "running"},
         NEW r \in FreeId, Insert(r, NewRow(task, sched, status))
  PROVE  Rewritten(run[q], run'[q])
<1>1. CASE run'[q] = run[q]
  BY <1>1 DEF Rewritten
<1>2. CASE run[q].status = Unborn /\ run'[q] = NewRow(task, sched, status)
  BY <1>2, Zenon DEF Rewritten
<1> QED BY <1>1, <1>2, InsertRow

(* Every named rewrite, as a fact ...                                      *)
LEMMA Rewrites ==
  ASSUME NEW x
  PROVE  /\ Rewritten(x, x)
         /\ Rewritten(x, Prepared(x))       /\ Rewritten(x, TakenByChat(x))
         /\ Rewritten(x, WokenByMessage(x)) /\ Rewritten(x, Started(x))
         /\ Rewritten(x, CancelAcked(x))    /\ Rewritten(x, PauseAcked(x))
         /\ Rewritten(x, LimitPaused(x))    /\ Rewritten(x, PauseStamped(x))
         /\ Rewritten(x, CancelRequested(x))
         /\ Rewritten(x, Resumed(x))        /\ Rewritten(x, Dropped(x))
         /\ Rewritten(x, Judged(x))         /\ Rewritten(x, Reported(x))
         /\ Rewritten(x, [x EXCEPT !.status = Gone])
         /\ Rewritten(x, [x EXCEPT !.stop = "due"])
         /\ Rewritten(x, [x EXCEPT !.clock = "stale"])
         /\ \A o \in Outcome : Rewritten(x, Declared(x, o))
         /\ \A e \in Exit : Rewritten(x, Completed(x, e))
         /\ \A ok \in BOOLEAN, sid \in BOOLEAN : Rewritten(x, Stamped(x, ok, sid))
BY Zenon DEF Rewritten

(* ... and what a handler that sets one row does to any row.               *)
LEMMA SetRewritten ==
  ASSUME run \in [RunIds -> Row], NEW q \in RunIds, NEW r, NEW row,
         SetRun(r, row), Rewritten(run[r], row)
  PROVE  Rewritten(run[q], run'[q])
<1>1. CASE run'[q] = run[q]
  BY <1>1, Rewrites
<1>2. CASE q = r /\ run'[q] = row
  BY <1>2
<1> QED BY <1>1, <1>2, SetRunRow

LEMMA PlainStep ==
  ASSUME TypeOK, [Next]_vars, NEW q \in RunIds,
         \A w \in Workers, r \in RunIds : ~Pause(w, r)
  PROVE  Rewritten(run[q], run'[q])
<1> USE DEF TypeOK
<1>1. CASE UNCHANGED run
  BY <1>1 DEF Rewritten
<1>2. ASSUME NEW w \in Workers, UserRequest(w)
      PROVE  Rewritten(run[q], run'[q])
  <2>1. CASE \E task \in Tasks : \/ Schedule(w, task) \/ Prepare(w, task)
                                 \/ CommentWake(w, task)
                                 \/ ChatRequest(w, task)
    BY <1>1, <2>1 DEF Schedule, Prepare, CommentWake, ChatRequest
  <2>2. ASSUME NEW r \in RunIds,
               \/ Restart(w, r) \/ StartRun(w, r) \/ Discard(w, r)
               \/ Pause(w, r)   \/ Cancel(w, r)   \/ Resume(w, r)
        PROVE  Rewritten(run[q], run'[q])
    <3>1. CASE Restart(w, r) \/ StartRun(w, r)
      BY <1>1, <3>1 DEF Restart, StartRun
    <3>2. CASE Discard(w, r)
      BY <3>2, SetRewritten, Rewrites DEF Discard
    <3>4. CASE Cancel(w, r)
      BY <3>4, SetRewritten, Rewrites DEF Cancel
    <3>5. CASE Resume(w, r)
      BY <3>5, SetRewritten, Rewrites DEF Resume
    <3> QED BY <2>2, <3>1, <3>2, <3>4, <3>5
  <2> QED BY <1>2, <2>1, <2>2 DEF UserRequest
<1>3. ASSUME NEW w \in Workers, Continue(w)
      PROVE  Rewritten(run[q], run'[q])
  <2>0. op[w].task \in Tasks /\ op[w].err \in Exit /\ op[w].ok \in BOOLEAN
    BY DEF Op
  <2>1. CASE PrepareLookup(w) \/ DispatchCheck(w)
    BY <1>1, <2>1 DEF PrepareLookup, DispatchCheck
  <2>2. CASE PrepareCreate(w)
    BY <2>0, <2>2, <1>1, InsertRewritten DEF PrepareCreate
  <2>3. CASE PrepareWrite(w)
    BY <2>3, SetRewritten, Rewrites DEF PrepareWrite
  <2>4. CASE Trigger(w)
    <3>1. ASSUME NEW hit, NEW t, NEW r \in RunIds, TriggerSent(w, hit, t, r)
          PROVE  Rewritten(run[q], run'[q])
      <4>1. CASE SetRun(r, TakenByChat(run[r]))
        BY <4>1, SetRewritten, Rewrites
      <4>2. CASE r \in FreeId /\ Insert(r, NewRow(op[w].task, FALSE, "running"))
        BY <2>0, <4>2, InsertRewritten
      <4> QED BY <1>1, <3>1, <4>1, <4>2 DEF TriggerSent
    <3> QED BY <1>1, <2>4, <3>1 DEF Trigger, TriggerRefused
  <2>5. CASE Start(w)
    BY <2>5, SetRewritten, Rewrites DEF Start
  <2>6. CASE Message(w)
    <3>1. ASSUME NEW r, SetRun(r, WokenByMessage(run[r]))
          PROVE  Rewritten(run[q], run'[q])
      BY <3>1, SetRewritten, Rewrites
    <3> QED BY <1>1, <2>6, <3>1, Zenon DEF Message
  <2>7. CASE DiscardRefused(w)
    BY <1>1, <2>7, SetRewritten, Rewrites DEF DiscardRefused
  <2>8. CASE PauseStamp(w)
    BY <2>8, SetRewritten, Rewrites DEF PauseStamp
  <2>9. CASE SweepResume(w)
    BY <2>9, SetRewritten, Rewrites DEF SweepResume
  <2>10. CASE Close(w)
    BY <2>0, <2>10, SetRewritten, Rewrites DEF Close
  <2>11. CASE Verdict(w)
    <3>1. PICK sid \in BOOLEAN : sid = (op[w].err # "other")
      OBVIOUS
    <3>2. SetRun(op[w].run, Stamped(run[op[w].run], op[w].ok, sid))
      BY <2>11, <3>1 DEF Verdict
    <3> QED BY <2>0, <3>1, <3>2, SetRewritten, Rewrites
  <2> QED BY <1>3, <2>1, <2>2, <2>3, <2>4, <2>5, <2>6, <2>7, <2>8, <2>9,
             <2>10, <2>11 DEF Continue
<1>4. ASSUME NEW w \in Workers, Completion(w)
      PROVE  Rewritten(run[q], run'[q])
  <2>1. PICK t \in TurnIds :
          \/ ReportCancelled(w, t) \/ ReportPaused(w, t) \/ TurnSucceeds(w, t)
          \/ TurnCrashes(w, t)     \/ TurnErrs(w, t)     \/ TurnHitsLimit(w, t)
    BY <1>4 DEF Completion
  <2>2. CASE ReportCancelled(w, t)
    BY <2>2, SetRewritten, Rewrites DEF ReportCancelled
  <2>3. CASE ReportPaused(w, t)
    BY <2>3, SetRewritten, Rewrites DEF ReportPaused
  <2>4. CASE TurnHitsLimit(w, t)
    BY <2>4, SetRewritten, Rewrites DEF TurnHitsLimit
  <2>5. CASE TurnSucceeds(w, t) \/ TurnCrashes(w, t) \/ TurnErrs(w, t)
    BY <1>1, <2>5 DEF TurnSucceeds, TurnCrashes, TurnErrs, Report
  <2> QED BY <2>1, <2>2, <2>3, <2>4, <2>5
<1>5. ASSUME NEW w \in Workers, Reconcile(w) \/ LimitSweep(w)
      PROVE  Rewritten(run[q], run'[q])
  BY <1>1, <1>5 DEF Reconcile, LimitSweep, Rewritten
<1>6. CASE Environment
  <2>1. ASSUME NEW t \in TurnIds, TurnBegins(t) \/ TurnLost(t)
        PROVE  Rewritten(run[q], run'[q])
    BY <1>1, <2>1 DEF TurnBegins, TurnLost
  <2>2. ASSUME NEW t \in TurnIds, DispatchDropped(t)
        PROVE  Rewritten(run[q], run'[q])
    BY <2>2, SetRewritten, Rewrites DEF DispatchDropped
  <2>3. ASSUME NEW t \in TurnIds, NEW o \in Outcome, Declare(t, o)
        PROVE  Rewritten(run[q], run'[q])
    BY <2>3, SetRewritten, Rewrites DEF Declare
  <2>4. ASSUME NEW r \in RunIds, StopFallsDue(r) \/ GoesStale(r)
        PROVE  Rewritten(run[q], run'[q])
    BY <2>4, SetRewritten, Rewrites DEF StopFallsDue, GoesStale
  <2>5. CASE Heartbeat
    BY <2>5 DEF Heartbeat, Rewritten
  <2>6. CASE DaemonSilent \/ DaemonBack \/ BackendRestart \/ LimitResets
    BY <1>1, <2>6 DEF DaemonSilent, DaemonBack, BackendRestart, LimitResets
  <2> QED BY <1>6, <2>1, <2>2, <2>3, <2>4, <2>5, <2>6 DEF Environment
<1> QED BY <1>1, <1>2, <1>3, <1>4, <1>5, <1>6 DEF Next, vars

LEMMA PauseStep ==
  ASSUME TypeOK, NEW w \in Workers, NEW r \in RunIds, Pause(w, r),
         NEW q \in RunIds
  PROVE  Rewritten(run[q], run'[q]) \/ PauseBegun(q)
<1>1. op'[w] = [NoOp EXCEPT !.pc = "stamp", !.run = r]
  BY DEF TypeOK, Pause, Then
<1>2. op'[w].pc = "stamp" /\ op'[w].run = r
  BY <1>1 DEF NoOp
<1>3. run'[q] = run[q] \/ (q = r /\ run'[q] = PauseRequested(run[q]))
  BY SetRunRow DEF TypeOK, Pause
<1>4. CASE run'[q] = run[q]
  BY <1>4 DEF Rewritten
<1>5. CASE q = r /\ run'[q] = PauseRequested(run[q])
  BY <1>2, <1>5 DEF PauseBegun
<1> QED BY <1>3, <1>4, <1>5

(* No step writes a row in a way that is not on the list, or is not the    *)
(* beginning of a pause.                                                   *)
THEOREM RowStep ==
  ASSUME TypeOK, [Next]_vars, NEW q \in RunIds
  PROVE  Rewritten(run[q], run'[q]) \/ PauseBegun(q)
BY PlainStep, PauseStep

-----------------------------------------------------------------------------
(* Invariants of a row.                                                    *)
SentinelRow(x) ==
  x.status = "failed" /\ x.err = "reconciled" => x.failedBy = "reconciler"

VerdictRow(x) ==
  x.outcome \in {"succeeded", "parked"} \/ x.said \in {"succeeded", "parked"}
    => x.outcome = x.said

LEMMA RowRewritten ==
  ASSUME NEW x \in Row, NEW y, Rewritten(x, y) \/ y = PauseRequested(x),
         SentinelRow(x), VerdictRow(x)
  PROVE  SentinelRow(y) /\ VerdictRow(y)
<1> USE DEF SentinelRow, VerdictRow, Row
<1>1. CASE y = x
  BY <1>1
<1>2. ASSUME NEW task, NEW sched, NEW status \in {"pending", "running"},
             y = NewRow(task, sched, status)
      PROVE  SentinelRow(y) /\ VerdictRow(y)
  BY <1>2 DEF NewRow
<1>3. CASE y = Prepared(x)         BY <1>3 DEF Prepared
<1>4. CASE y = TakenByChat(x)      BY <1>4 DEF TakenByChat
<1>5. CASE y = WokenByMessage(x)   BY <1>5 DEF WokenByMessage
<1>6. CASE y = Started(x)          BY <1>6 DEF Started
<1>7. CASE y = CancelAcked(x)      BY <1>7 DEF CancelAcked
<1>8. CASE y = PauseAcked(x)       BY <1>8 DEF PauseAcked
<1>9. CASE y = LimitPaused(x)      BY <1>9 DEF LimitPaused
<1>10. CASE y = PauseRequested(x)  BY <1>10 DEF PauseRequested
<1>11. CASE y = PauseStamped(x)    BY <1>11 DEF PauseStamped
<1>12. CASE y = CancelRequested(x) BY <1>12 DEF CancelRequested
<1>13. CASE y = Resumed(x)         BY <1>13 DEF Resumed
<1>14. CASE y = Dropped(x)         BY <1>14 DEF Dropped
<1>15. CASE y = Reported(x)        BY <1>15 DEF Reported
<1>16. CASE y = Judged(x)
  <2>1. CASE y = Escalated(x)      BY <2>1 DEF Escalated
  <2>2. CASE y = Interrupted(x)    BY <2>2 DEF Interrupted
  <2>3. CASE y = Reconciled(x)     BY <2>3 DEF Reconciled
  <2> QED BY <1>1, <1>16, <2>1, <2>2, <2>3 DEF Judged
<1>17. CASE y = [x EXCEPT !.status = Gone]
  BY <1>17 DEF Gone
<1>18. CASE y = [x EXCEPT !.stop = "due"] \/ y = [x EXCEPT !.clock = "stale"]
  BY <1>18
<1>19. ASSUME NEW o, y = Declared(x, o)
       PROVE  SentinelRow(y) /\ VerdictRow(y)
  BY <1>19 DEF Declared
<1>20. ASSUME NEW e \in Exit, y = Completed(x, e)
       PROVE  SentinelRow(y) /\ VerdictRow(y)
  BY <1>20 DEF Completed, Exit
<1>21. ASSUME NEW ok, NEW sid, y = Stamped(x, ok, sid)
       PROVE  SentinelRow(y) /\ VerdictRow(y)
  BY <1>21 DEF Stamped
<1> HIDE DEF SentinelRow, VerdictRow, Row
<1> QED BY <1>1, <1>2, <1>3, <1>4, <1>5, <1>6, <1>7, <1>8, <1>9, <1>10,
           <1>11, <1>12, <1>13, <1>14, <1>15, <1>16, <1>17, <1>18, <1>19,
           <1>20, <1>21 DEF Rewritten

RowInv == \A r \in RunIds : SentinelRow(run[r]) /\ VerdictRow(run[r])

LEMMA RowsKept == Spec => []RowInv
<1>1. Init => RowInv
  <2>1. SentinelRow(NewRow(AnyTask, FALSE, Unborn))
        /\ VerdictRow(NewRow(AnyTask, FALSE, Unborn))
    BY DEF SentinelRow, VerdictRow, NewRow, Unborn
  <2> QED BY <2>1 DEF Init, RowInv
<1>2. TypeOK /\ RowInv /\ [Next]_vars => RowInv'
  <2> SUFFICES ASSUME TypeOK, RowInv, [Next]_vars, NEW r \in RunIds
               PROVE  SentinelRow(run'[r]) /\ VerdictRow(run'[r])
    BY DEF RowInv
  <2>1. run[r] \in Row
    BY DEF TypeOK
  <2>2. SentinelRow(run[r]) /\ VerdictRow(run[r])
    BY DEF RowInv
  <2> QED BY <2>1, <2>2, RowStep, RowRewritten DEF PauseBegun
<1> QED BY <1>1, <1>2, TypeCorrect, PTL DEF Spec

(* AP-371: heartbeat_runtimes tells the reconciler's verdict from any      *)
(* other failure by the error text alone.  It never mistakes one for the   *)
(* other: a FAILED row carrying the text was failed by the reconciler.     *)
THEOREM SentinelHolds == Spec => []SentinelIsReconcilers
<1>1. RowInv => SentinelIsReconcilers
  BY DEF RowInv, SentinelRow, SentinelIsReconcilers
<1> QED BY <1>1, RowsKept, PTL

(* AP-108: a green or parked verdict is exactly what finish_run recorded   *)
(* for the turn: no exit code, stop, sweep, heartbeat or restart writes,   *)
(* keeps or erases one by itself.                                          *)
THEOREM VerdictHolds == Spec => []VerdictIsTheAgents
<1>1. RowInv => VerdictIsTheAgents
  BY DEF RowInv, VerdictRow, VerdictIsTheAgents
<1> QED BY <1>1, RowsKept, PTL

-----------------------------------------------------------------------------
(* Only a pause leaves a row INTERRUPTING without a stop stamp.            *)
Unstamped(x) == x.status = "interrupting" /\ x.stop = "none"

LEMMA UnstampedStays ==
  ASSUME NEW x \in Row, NEW y, Rewritten(x, y), Unstamped(y)
  PROVE  Unstamped(x)
<1> USE DEF Unstamped, Row
<1>1. CASE y = x
  BY <1>1
<1>2. ASSUME NEW task, NEW sched, NEW status \in {"pending", "running"},
             y = NewRow(task, sched, status)
      PROVE  FALSE
  BY <1>2 DEF NewRow
<1>3. CASE y = Prepared(x)         BY <1>3 DEF Prepared
<1>4. CASE y = TakenByChat(x)      BY <1>4 DEF TakenByChat
<1>5. CASE y = WokenByMessage(x)   BY <1>5 DEF WokenByMessage
<1>6. CASE y = Started(x)          BY <1>6 DEF Started
<1>7. CASE y = CancelAcked(x)      BY <1>7 DEF CancelAcked
<1>8. CASE y = PauseAcked(x)       BY <1>8 DEF PauseAcked
<1>9. CASE y = LimitPaused(x)      BY <1>9 DEF LimitPaused
<1>11. CASE y = PauseStamped(x)    BY <1>11 DEF PauseStamped
<1>12. CASE y = CancelRequested(x) BY <1>12 DEF CancelRequested
<1>13. CASE y = Resumed(x)         BY <1>13 DEF Resumed
<1>14. CASE y = Dropped(x)         BY <1>14 DEF Dropped
<1>15. CASE y = Reported(x)        BY <1>15 DEF Reported
<1>16. CASE y = Judged(x)
  <2>1. CASE y = Escalated(x)      BY <2>1 DEF Escalated
  <2>2. CASE y = Interrupted(x)    BY <2>2 DEF Interrupted
  <2>3. CASE y = Reconciled(x)     BY <2>3 DEF Reconciled
  <2> QED BY <1>1, <1>16, <2>1, <2>2, <2>3 DEF Judged
<1>17. CASE y = [x EXCEPT !.status = Gone]
  BY <1>17 DEF Gone
<1>18. CASE y = [x EXCEPT !.stop = "due"] \/ y = [x EXCEPT !.clock = "stale"]
  BY <1>18
<1>19. ASSUME NEW o, y = Declared(x, o)
       PROVE  Unstamped(x)
  BY <1>19 DEF Declared
<1>20. ASSUME NEW e \in Exit, y = Completed(x, e)
       PROVE  FALSE
  BY <1>20 DEF Completed
<1>21. ASSUME NEW ok, NEW sid, y = Stamped(x, ok, sid)
       PROVE  Unstamped(x)
  BY <1>21 DEF Stamped
<1> HIDE DEF Unstamped, Row
<1> QED BY <1>1, <1>2, <1>3, <1>4, <1>5, <1>6, <1>7, <1>8, <1>9, <1>11,
           <1>12, <1>13, <1>14, <1>15, <1>16, <1>17, <1>18, <1>19, <1>20,
           <1>21 DEF Rewritten

(* A worker that owes a stamp does nothing else first, and nobody does     *)
(* anything for it.                                                        *)
LEMMA StamperStays ==
  ASSUME TypeOK, [Next]_vars, "restart" \notin Faults,
         NEW w \in Workers, At(w, "stamp"), ~PauseStamp(w)
  PROVE  op'[w] = op[w]
<1> USE DEF At
<1>1. ASSUME NEW v \in Workers, NEW next, Then(v, next), op[v].pc # "stamp"
      PROVE  op'[w] = op[w]
  BY <1>1 DEF Then
<1>2. ASSUME NEW v \in Workers, Refused(v) \/ Return(v), op[v].pc # "stamp"
      PROVE  op'[w] = op[w]
  BY <1>1, <1>2 DEF Refused, Return
<1>3. CASE UNCHANGED op
  BY <1>3
<1>4. ASSUME NEW v \in Workers, UserRequest(v)
      PROVE  op'[w] = op[w]
  BY <1>1, <1>3, <1>4 DEF UserRequest, Schedule, Prepare, CommentWake,
     ChatRequest, Restart, StartRun, Discard, Pause, Cancel, Resume, Request
<1>5. ASSUME NEW v \in Workers, Continue(v)
      PROVE  op'[w] = op[w]
  <2>1. CASE PrepareLookup(v) \/ PrepareCreate(v) \/ PrepareWrite(v)
    BY <1>1, <1>2, <2>1 DEF PrepareLookup, PrepareCreate, PrepareWrite
  <2>2. CASE DispatchCheck(v) \/ Start(v) \/ DiscardRefused(v)
    BY <1>1, <1>2, <2>2 DEF DispatchCheck, Start, DiscardRefused
  <2>3. CASE Trigger(v)
    BY <1>1, <1>2, <2>3 DEF Trigger, TriggerRefused, TriggerSent
  <2>4. CASE Message(v) \/ SweepResume(v)
    BY <1>1, <1>2, <2>4 DEF Message, SweepResume
  <2>5. CASE Close(v) \/ Verdict(v)
    BY <1>1, <1>2, <2>5 DEF Close, Verdict
  <2>6. CASE PauseStamp(v)
    <3>1. v # w
      BY <2>6
    <3> QED BY <2>6, <3>1 DEF PauseStamp, Return, Then
  <2> QED BY <1>5, <2>1, <2>2, <2>3, <2>4, <2>5, <2>6 DEF Continue
<1>6. ASSUME NEW v \in Workers, Completion(v)
      PROVE  op'[w] = op[w]
  BY <1>1, <1>3, <1>6 DEF Completion, ReportCancelled, ReportPaused,
     TurnSucceeds, TurnCrashes, TurnErrs, Report, TurnHitsLimit
<1>7. ASSUME NEW v \in Workers, Reconcile(v) \/ LimitSweep(v)
      PROVE  op'[w] = op[w]
  BY <1>1, <1>7 DEF Reconcile, LimitSweep
<1>8. CASE Environment
  BY <1>3, <1>8 DEF Environment, TurnBegins, DispatchDropped, TurnLost,
     Declare, StopFallsDue, GoesStale, Heartbeat, DaemonSilent, DaemonBack,
     BackendRestart, LimitResets
<1> QED BY <1>3, <1>4, <1>5, <1>6, <1>7, <1>8 DEF Next, vars

(* Unless the backend restarts between the two commits of pause_run, every *)
(* INTERRUPTING row the reconciler would skip for want of a stamp has a    *)
(* worker about to stamp it.                                               *)
THEOREM StopsHold ==
  ASSUME "restart" \notin Faults
  PROVE  Spec => []StopsAreStamped
<1>1. Init => StopsAreStamped
  <2>1. NewRow(AnyTask, FALSE, Unborn).status # "interrupting"
    BY DEF NewRow, Unborn
  <2> QED BY <2>1 DEF Init, StopsAreStamped
<1>2. TypeOK /\ StopsAreStamped /\ [Next]_vars => StopsAreStamped'
  <2> SUFFICES ASSUME TypeOK, StopsAreStamped, [Next]_vars,
                      NEW r \in RunIds, Unstamped(run'[r])
               PROVE  \E w \in Workers : op'[w].pc = "stamp" /\ op'[w].run = r
    BY DEF StopsAreStamped, Unstamped, At
  <2>1. CASE PauseBegun(r)
    BY <2>1 DEF PauseBegun
  <2>2. CASE Rewritten(run[r], run'[r])
    <3>1. Unstamped(run[r])
      BY <2>2, UnstampedStays DEF TypeOK
    <3>2. PICK w \in Workers : At(w, "stamp") /\ op[w].run = r
      BY <3>1 DEF StopsAreStamped, Unstamped
    <3>3. ~PauseStamp(w)
      <4> SUFFICES ASSUME PauseStamp(w) PROVE FALSE
        OBVIOUS
      <4>1. Exists(r)
        BY <3>1 DEF Exists, Unstamped, Unborn, Gone
      <4>2. run'[r] = PauseStamped(run[r])
        BY <3>2, <4>1 DEF PauseStamp, SetRun, TypeOK
      <4>3. run'[r].stop = "recent"
        BY <4>2 DEF PauseStamped, TypeOK, Row
      <4> QED BY <4>3 DEF Unstamped
    <3>4. op'[w] = op[w]
      BY <3>2, <3>3, StamperStays
    <3> QED BY <3>2, <3>4 DEF At
  <2> QED BY <2>1, <2>2, RowStep
<1> QED BY <1>1, <1>2, TypeCorrect, PTL DEF Spec

-----------------------------------------------------------------------------
(* What dispatch_pending_run checks before it dispatches a run, two        *)
(* transactions before the run starts, is still so when it does: proved    *)
(* for requests that are served one at a time and a daemon that is heard   *)
(* while it lives.  Several requests at once, or a daemon that comes back  *)
(* with runs given up for dead, break both.                                *)

Serial == /\ \A v, w \in Workers : v = w
          /\ "silence" \notin Faults /\ "slow" \notin Faults

Born(r) == run[r].status # Unborn

(* What the checks have found.                                             *)
Clear(r, how) ==
  /\ Born(r) /\ ~SameTaskRunning(r)
  /\ how \in {"work", "resume"} => ~AtCap(r)

(* What a continuation works on, and what its handler has checked by then. *)
OpFits(w) ==
  /\ op[w].pc \in {"write", "dispatch", "start"} => op[w].run \in RunIds
  /\ At(w, "message") => op[w].run = 0 /\ op[w].how \in {"chat", "comment"}
  /\ At(w, "trigger") => op[w].run \in RunIds \/ op[w].how \in {"chat", "comment"}
  /\ At(w, "start") => op[w].turn \in TurnIds /\ turn[op[w].turn].run = op[w].run

Cleared(w) ==
  /\ At(w, "start") \/ (At(w, "trigger") /\ op[w].run # 0) => Clear(op[w].run, op[w].how)
  /\ At(w, "trigger") /\ op[w].run = 0 => \A q \in Running : run[q].task # op[w].task

OpInv    == \A w \in Workers : OpFits(w)
ClearInv == \A w \in Workers : Cleared(w)

(* Rows that a heartbeat may bring back, or that are about to become such, *)
(* have no turn left that the daemon could report.                         *)
Hot(x)  == x.clock = "stale" \/ (x.status = "failed" /\ x.err = "reconciled")
Busy(t) == turn[t].st \in {"queued", "live"}

QuietInv ==
  /\ linked
  /\ \A r \in RunIds, t \in TurnIds : Exists(r) /\ Hot(run[r]) /\ Busy(t) => turn[t].run # r

SerialInv == OpInv /\ ClearInv /\ QuietInv /\ OneRunningPerTask

-----------------------------------------------------------------------------
(* What most steps do to a row: it does not begin to run, keeps its task   *)
(* once it is born, and does not become one of the rows above.             *)
Lives(x) == x.status \notin {Unborn, Gone}

Still(x, y) ==
  /\ y.status = "running" => x.status = "running"
  /\ x.status # Unborn => y.status # Unborn /\ y.task = x.task

Cool(x, y) == Lives(y) /\ Hot(y) => Lives(x) /\ Hot(x)

Tame(x, y) == Still(x, y) /\ Cool(x, y)

LEMMA TameSame == ASSUME NEW x PROVE Tame(x, x)
BY DEF Tame, Still, Cool

LEMMA TameRewrites ==
  ASSUME NEW x \in Row, Lives(x)
  PROVE  /\ Tame(x, Prepared(x))       /\ Tame(x, CancelAcked(x))
         /\ Tame(x, PauseAcked(x))     /\ Tame(x, LimitPaused(x))
         /\ Tame(x, PauseRequested(x)) /\ Tame(x, PauseStamped(x))
         /\ Tame(x, CancelRequested(x))
         /\ Tame(x, Resumed(x))        /\ Tame(x, Dropped(x))
         /\ Tame(x, [x EXCEPT !.status = Gone])
         /\ Tame(x, [x EXCEPT !.stop = "due"])
         /\ \A o : Tame(x, Declared(x, o))
         /\ \A e \in Exit : Tame(x, Completed(x, e))
         /\ \A ok, sid : Tame(x, Stamped(x, ok, sid))
<1> USE DEF Tame, Still, Cool, Lives, Hot, Row, Unborn, Gone
<1>1. Tame(x, Prepared(x))         BY DEF Prepared
<1>2. Tame(x, CancelAcked(x))      BY DEF CancelAcked
<1>3. Tame(x, PauseAcked(x))       BY DEF PauseAcked
<1>4. Tame(x, LimitPaused(x))      BY DEF LimitPaused
<1>5. Tame(x, PauseRequested(x))   BY DEF PauseRequested
<1>6. Tame(x, PauseStamped(x))     BY DEF PauseStamped
<1>7. Tame(x, CancelRequested(x))  BY DEF CancelRequested
<1>8. Tame(x, Resumed(x))          BY DEF Resumed
<1>9. Tame(x, Dropped(x))          BY DEF Dropped
<1>10. Tame(x, [x EXCEPT !.status = Gone])
  OBVIOUS
<1>11. Tame(x, [x EXCEPT !.stop = "due"])
  OBVIOUS
<1>12. ASSUME NEW o PROVE Tame(x, Declared(x, o))
  BY DEF Declared
<1>13. ASSUME NEW e \in Exit PROVE Tame(x, Completed(x, e))
  BY DEF Completed, Exit
<1>14. ASSUME NEW ok, NEW sid PROVE Tame(x, Stamped(x, ok, sid))
  BY DEF Stamped
<1> HIDE DEF Tame, Still, Cool, Lives, Hot, Row, Unborn, Gone
<1> QED
  BY <1>1, <1>2, <1>3, <1>4, <1>5, <1>6, <1>7, <1>8, <1>9, <1>10, <1>11, <1>12, <1>13, <1>14

LEMMA TameJudged ==
  ASSUME NEW x \in Row
  PROVE  Tame(x, Judged(x))
<1> USE DEF Tame, Still, Cool, Lives, Hot, Row, Unborn, Gone, Stuck, Silent
<1>1. CASE Stuck(x)
  BY <1>1 DEF Judged, Escalated
<1>2. CASE Silent(x) /\ Resumable(x)
  <2>1. Judged(x) = Interrupted(x)
    BY <1>2 DEF Judged
  <2> QED
    BY <1>2, <2>1 DEF Interrupted
<1>3. CASE Silent(x) /\ ~Resumable(x)
  <2>1. Judged(x) = Reconciled(x)
    BY <1>3 DEF Judged
  <2> QED
    BY <1>3, <2>1 DEF Reconciled
<1>4. CASE ~Stuck(x) /\ ~Silent(x)
  <2>1. Judged(x) = x
    BY <1>4 DEF Judged
  <2> QED
    BY <2>1, TameSame
<1> QED
  BY <1>1, <1>2, <1>3, <1>4

(* A heartbeat cannot bring back a row that is not one of those.           *)
LEMMA TameReported ==
  ASSUME NEW x \in Row, ~(Lives(x) /\ Hot(x))
  PROVE  Tame(x, Reported(x))
BY DEF Reported, Tame, Still, Cool, Lives, Hot, Row, Unborn, Gone

AllTame  == \A q \in RunIds : Tame(run[q], run'[q])
AllStill == \A q \in RunIds : Still(run[q], run'[q])
AllCool  == \A q \in RunIds : Cool(run[q], run'[q])

LEMMA TameBoth == AllTame <=> AllStill /\ AllCool
BY DEF AllTame, AllStill, AllCool, Tame

LEMMA TameKept == ASSUME UNCHANGED run PROVE AllTame
BY TameSame DEF AllTame

LEMMA TameSet ==
  ASSUME run \in [RunIds -> Row], NEW r, NEW row, SetRun(r, row),
         Exists(r) => Tame(run[r], row)
  PROVE  AllTame
<1>1. \A q \in RunIds : run'[q] = run[q] \/ (q = r /\ Exists(r) /\ run'[q] = row)
  BY DEF SetRun, Exists
<1> QED
  BY <1>1, TameSame DEF AllTame

LEMMA RowLives ==
  ASSUME run \in [RunIds -> Row], NEW r, Exists(r)
  PROVE  r \in RunIds /\ run[r] \in Row /\ Lives(run[r])
BY DEF Exists, Lives

-----------------------------------------------------------------------------
(* What still steps preserve.                                              *)

LEMMA RunningShrinks ==
  ASSUME AllStill
  PROVE  /\ Running' \subseteq Running
         /\ \A q \in Running' : run[q].status # Unborn => run'[q].task = run[q].task
BY DEF AllStill, Still, Running, InStatus

LEMMA RunningFinite == IsFiniteSet(Running) /\ Running \subseteq RunIds
<1>1. IsFiniteSet(RunIds)
  BY FS_Interval, BoundAssumption DEF RunIds
<1>2. Running \subseteq RunIds
  BY DEF Running, InStatus
<1> QED
  BY <1>1, <1>2, FS_Subset

(* Fewer runs do not reach the cap that more did not.                      *)
LEMMA CapKept ==
  ASSUME NEW r, ~AtCap(r), Running' \ {r} \subseteq Running \ {r}
  PROVE  ~AtCap(r)'
<1> DEFINE R == Running \ {r}
           S == Running' \ {r}
<1>1. IsFiniteSet(R)
  BY RunningFinite, FS_Subset
<1>2. IsFiniteSet(S) /\ Cardinality(S) <= Cardinality(R)
  BY <1>1, FS_Subset
<1>3. Cardinality(R) \in Nat /\ Cardinality(S) \in Nat /\ Cap \in Nat
  BY <1>1, <1>2, FS_CardinalityType, BoundAssumption
<1>4. ~(Cardinality(R) >= Cap)
  BY DEF AtCap
<1> HIDE DEF R, S
<1>5. ~(Cardinality(S) >= Cap)
  BY <1>2, <1>3, <1>4
<1> QED
  BY <1>5 DEF AtCap, S

LEMMA ClearStays ==
  ASSUME AllStill, NEW r \in RunIds, NEW how, Clear(r, how)
  PROVE  Clear(r, how)'
<1>1. Born(r)' /\ run'[r].task = run[r].task
  BY DEF Clear, Born, AllStill, Still
<1>2. ~SameTaskRunning(r)'
  <2>1. ASSUME NEW q \in Running' \ {r}, run'[q].task = run'[r].task PROVE FALSE
    <3>1. q \in Running /\ run[q].status = "running" /\ run'[q].task = run[q].task
      BY <2>1, RunningShrinks DEF Running, InStatus, Unborn
    <3> QED
      BY <1>1, <2>1, <3>1 DEF Clear, SameTaskRunning
  <2> QED
    BY <2>1 DEF SameTaskRunning
<1>3. how \in {"work", "resume"} => ~AtCap(r)'
  BY RunningShrinks, CapKept DEF Clear
<1> QED
  BY <1>1, <1>2, <1>3 DEF Clear

LEMMA OneStays ==
  ASSUME AllStill, OneRunningPerTask
  PROVE  OneRunningPerTask'
<1>1. ASSUME NEW r \in Running' PROVE r \in Running /\ run'[r].task = run[r].task
  BY <1>1, RunningShrinks DEF Running, InStatus, Unborn
<1> QED
  BY <1>1 DEF OneRunningPerTask

-----------------------------------------------------------------------------
(* Which steps are tame.                                                   *)

LEMMA TameRequest ==
  ASSUME TypeOK, NEW w \in Workers, UserRequest(w)
  PROVE  AllTame
<1> USE DEF TypeOK
<1>1. ASSUME NEW r \in RunIds, Exists(r) PROVE run[r] \in Row /\ Lives(run[r])
  BY <1>1, RowLives
<1>2. CASE \E task \in Tasks : \/ Schedule(w, task) \/ Prepare(w, task)
                               \/ CommentWake(w, task) \/ ChatRequest(w, task)
  BY <1>2, TameKept DEF Schedule, Prepare, CommentWake, ChatRequest
<1>3. ASSUME NEW r \in RunIds, Restart(w, r) \/ StartRun(w, r) PROVE AllTame
  BY <1>3, TameKept DEF Restart, StartRun
<1>4. ASSUME NEW r \in RunIds, Discard(w, r) PROVE AllTame
  BY <1>1, <1>4, TameSet, TameRewrites DEF Discard
<1>5. ASSUME NEW r \in RunIds, Pause(w, r) PROVE AllTame
  BY <1>1, <1>5, TameSet, TameRewrites DEF Pause
<1>6. ASSUME NEW r \in RunIds, Cancel(w, r) PROVE AllTame
  BY <1>1, <1>6, TameSet, TameRewrites DEF Cancel
<1>7. ASSUME NEW r \in RunIds, Resume(w, r) PROVE AllTame
  BY <1>1, <1>7, TameSet, TameRewrites, TameSame DEF Resume
<1> QED
  BY <1>2, <1>3, <1>4, <1>5, <1>6, <1>7 DEF UserRequest

LEMMA TameContinue ==
  ASSUME TypeOK, NEW w \in Workers, Continue(w), ~Trigger(w), ~Start(w), ~Message(w)
  PROVE  AllTame
<1> USE DEF TypeOK
<1>1. ASSUME NEW r, Exists(r) PROVE run[r] \in Row /\ Lives(run[r])
  BY <1>1, RowLives
<1>2. CASE PrepareLookup(w) \/ DispatchCheck(w)
  BY <1>2, TameKept DEF PrepareLookup, DispatchCheck
<1>3. CASE PrepareCreate(w)
  <2>1. ASSUME NEW r \in FreeId, Insert(r, NewRow(op[w].task, TRUE, "pending"))
        PROVE  AllTame
    <3> DEFINE row == NewRow(op[w].task, TRUE, "pending")
    <3>1. \A q \in RunIds : run'[q] = run[q] \/ (run[q].status = Unborn /\ run'[q] = row)
      BY <2>1 DEF Insert, FreeId
    <3>2. row.status = "pending" /\ row.clock = "fresh"
      BY DEF NewRow
    <3> HIDE DEF row
    <3> QED
      BY <3>1, <3>2, TameSame DEF AllTame, Tame, Still, Cool, Hot, Lives, Unborn
  <2> QED
    BY <1>3, <2>1, TameKept DEF PrepareCreate
<1>4. CASE PrepareWrite(w)
  BY <1>1, <1>4, TameSet, TameRewrites DEF PrepareWrite
<1>5. CASE DiscardRefused(w)
  BY <1>1, <1>5, TameSet, TameRewrites, TameKept DEF DiscardRefused
<1>6. CASE PauseStamp(w)
  BY <1>1, <1>6, TameSet, TameRewrites DEF PauseStamp
<1>7. CASE SweepResume(w)
  BY <1>1, <1>7, TameSet, TameRewrites, TameSame DEF SweepResume
<1>8. CASE Close(w)
  <2>1. op[w].err \in Exit
    BY DEF Op
  <2> QED
    BY <1>1, <1>8, <2>1, TameSet, TameRewrites DEF Close
<1>9. CASE Verdict(w)
  <2>1. PICK sid : sid = (op[w].err # "other")
    OBVIOUS
  <2>2. SetRun(op[w].run, Stamped(run[op[w].run], op[w].ok, sid))
    BY <1>9, <2>1 DEF Verdict
  <2> QED
    BY <1>1, <2>2, TameSet, TameRewrites
<1> QED
  BY <1>2, <1>3, <1>4, <1>5, <1>6, <1>7, <1>8, <1>9 DEF Continue

LEMMA TameCompletion ==
  ASSUME TypeOK, NEW w \in Workers, Completion(w)
  PROVE  AllTame
<1> USE DEF TypeOK
<1>1. ASSUME NEW r, Exists(r) PROVE run[r] \in Row /\ Lives(run[r])
  BY <1>1, RowLives
<1>2. PICK t \in TurnIds :
        \/ ReportCancelled(w, t) \/ ReportPaused(w, t) \/ TurnSucceeds(w, t)
        \/ TurnCrashes(w, t)     \/ TurnErrs(w, t)     \/ TurnHitsLimit(w, t)
  BY DEF Completion
<1>3. CASE ReportCancelled(w, t)
  BY <1>1, <1>3, TameSet, TameRewrites DEF ReportCancelled
<1>4. CASE ReportPaused(w, t)
  BY <1>1, <1>4, TameSet, TameRewrites DEF ReportPaused
<1>5. CASE TurnHitsLimit(w, t)
  BY <1>1, <1>5, TameSet, TameRewrites DEF TurnHitsLimit
<1>6. CASE TurnSucceeds(w, t) \/ TurnCrashes(w, t) \/ TurnErrs(w, t)
  BY <1>6, TameKept DEF TurnSucceeds, TurnCrashes, TurnErrs, Report
<1> QED
  BY <1>2, <1>3, <1>4, <1>5, <1>6

LEMMA TameJob ==
  ASSUME TypeOK, NEW w \in Workers, Reconcile(w) \/ LimitSweep(w)
  PROVE  AllTame
<1>1. CASE Reconcile(w)
  <2>1. \A q \in RunIds : run[q] \in Row /\ run'[q] = Judged(run[q])
    BY <1>1 DEF Reconcile, TypeOK
  <2> QED
    BY <2>1, TameJudged DEF AllTame
<1>2. CASE LimitSweep(w)
  BY <1>2, TameKept DEF LimitSweep
<1> QED
  BY <1>1, <1>2

LEMMA TameEnvironment ==
  ASSUME TypeOK, QuietInv, Environment, \A r \in RunIds : ~GoesStale(r)
  PROVE  AllTame
<1> USE DEF TypeOK
<1>1. ASSUME NEW r, Exists(r) PROVE run[r] \in Row /\ Lives(run[r])
  BY <1>1, RowLives
<1>2. ASSUME NEW t \in TurnIds, TurnBegins(t) \/ TurnLost(t) PROVE AllTame
  BY <1>2, TameKept DEF TurnBegins, TurnLost
<1>3. ASSUME NEW t \in TurnIds, DispatchDropped(t) PROVE AllTame
  BY <1>1, <1>3, TameSet, TameRewrites DEF DispatchDropped
<1>4. ASSUME NEW t \in TurnIds, NEW o \in Outcome, Declare(t, o) PROVE AllTame
  BY <1>1, <1>4, TameSet, TameRewrites DEF Declare
<1>5. ASSUME NEW r \in RunIds, StopFallsDue(r) PROVE AllTame
  BY <1>1, <1>5, TameSet, TameRewrites DEF StopFallsDue
<1>6. CASE Heartbeat
  <2>1. ASSUME NEW q \in RunIds PROVE Tame(run[q], run'[q])
    <3>1. CASE \E t \in LiveTurns : turn[t].run = q
      <4>1. PICK t \in LiveTurns : turn[t].run = q
        BY <3>1
      <4>2. t \in TurnIds /\ Busy(t)
        BY DEF LiveTurns, Busy
      <4>3. ~(Lives(run[q]) /\ Hot(run[q]))
        BY <4>1, <4>2 DEF QuietInv, Exists, Lives
      <4>4. run'[q] = Reported(run[q]) /\ run[q] \in Row
        BY <1>6, <3>1 DEF Heartbeat
      <4> QED
        BY <4>3, <4>4, TameReported
    <3>2. CASE ~\E t \in LiveTurns : turn[t].run = q
      <4>1. run'[q] = run[q]
        BY <1>6, <3>2 DEF Heartbeat
      <4> QED
        BY <4>1, TameSame
    <3> QED
      BY <3>1, <3>2
  <2> QED
    BY <2>1 DEF AllTame
<1>7. CASE DaemonSilent \/ DaemonBack \/ BackendRestart \/ LimitResets
  BY <1>7, TameKept DEF DaemonSilent, DaemonBack, BackendRestart, LimitResets
<1> QED
  BY <1>2, <1>3, <1>4, <1>5, <1>6, <1>7 DEF Environment

-----------------------------------------------------------------------------
(* What the steps do to the turns: only a start makes one busy.            *)

Calm ==
  \A t \in TurnIds : turn'[t].st \in {"queued", "live"} =>
    Busy(t) /\ turn'[t].run = turn[t].run

LEMMA CalmKept == ASSUME UNCHANGED turn PROVE Calm
BY DEF Calm, Busy

LEMMA CalmEnd ==
  ASSUME turn \in [TurnIds -> Turn], NEW t \in TurnIds, EndTurn(t)
  PROVE  Calm
BY DEF EndTurn, Calm, Busy, Turn

LEMMA CalmSignalled ==
  ASSUME turn \in [TurnIds -> Turn], NEW ts, NEW s, Signalled(ts, s)
  PROVE  Calm
BY DEF Signalled, Flagged, Calm, Busy, Turn

LEMMA CalmTrigger ==
  ASSUME TypeOK, NEW w \in Workers, Trigger(w)
  PROVE  Calm
<1> USE DEF TypeOK
<1>1. PICK hit \in SUBSET {t \in Prior(w) : turn[t].st \in {"queued", "live"}} :
        \/ TriggerRefused(w, hit)
        \/ \E t \in FreeTurn, r \in RunIds : TriggerSent(w, hit, t, r)
  BY DEF Trigger
<1> DEFINE W == Withdrawn(w, hit)
<1>2. \A t \in TurnIds : W[t].st = turn[t].st /\ W[t].run = turn[t].run
  BY DEF Withdrawn, Turn
<1>3. DOMAIN W = TurnIds
  BY DEF Withdrawn
<1>4. CASE TriggerRefused(w, hit)
  BY <1>2, <1>4 DEF TriggerRefused, Calm, Busy
<1>5. CASE \E t \in FreeTurn, r \in RunIds : TriggerSent(w, hit, t, r)
  <2>1. PICK t \in FreeTurn, r \in RunIds : TriggerSent(w, hit, t, r)
    BY <1>5
  <2> DEFINE n == [NoTurn EXCEPT !.run = r, !.st = "saved", !.by = op[w].by]
  <2>2. turn' = [W EXCEPT ![t] = n]
    BY <2>1 DEF TriggerSent
  <2>3. n.st = "saved"
    BY DEF NoTurn
  <2> HIDE DEF n, W
  <2>4. \A u \in TurnIds : turn'[u].st = "saved" \/ turn'[u] = W[u]
    BY <1>3, <2>2, <2>3
  <2> QED
    BY <1>2, <2>4 DEF Calm, Busy
<1> QED
  BY <1>1, <1>4, <1>5

LEMMA CalmStep ==
  ASSUME TypeOK, Next, \A w \in Workers : ~Start(w)
  PROVE  Calm
<1> USE DEF TypeOK
<1>1. ASSUME NEW w \in Workers, UserRequest(w) PROVE Calm
  BY <1>1, CalmKept, CalmSignalled
     DEF UserRequest, Schedule, Prepare, CommentWake, ChatRequest, Restart, StartRun,
         Discard, Pause, Cancel, Resume
<1>2. ASSUME NEW w \in Workers, Continue(w) PROVE Calm
  BY <1>2, CalmKept, CalmTrigger
     DEF Continue, PrepareLookup, PrepareCreate, PrepareWrite, DispatchCheck, Message,
         DiscardRefused, PauseStamp, SweepResume, Close, Verdict
<1>3. ASSUME NEW w \in Workers, Completion(w) PROVE Calm
  BY <1>3, CalmEnd
     DEF Completion, ReportCancelled, ReportPaused, TurnSucceeds, TurnCrashes, TurnErrs,
         Report, TurnHitsLimit
<1>4. ASSUME NEW w \in Workers, Reconcile(w) \/ LimitSweep(w) PROVE Calm
  BY <1>4, CalmKept DEF Reconcile, LimitSweep
<1>5. CASE Environment
  <2>1. ASSUME NEW t \in TurnIds, TurnBegins(t) PROVE Calm
    BY <2>1 DEF TurnBegins, Calm, Busy, Turn
  <2>2. ASSUME NEW t \in TurnIds, TurnLost(t) PROVE Calm
    BY <2>2 DEF TurnLost, Calm, Busy, Turn
  <2>3. ASSUME NEW t \in TurnIds, DispatchDropped(t) PROVE Calm
    BY <2>3, CalmEnd DEF DispatchDropped
  <2>4. CASE BackendRestart
    BY <2>4 DEF BackendRestart, Calm, Busy, Turn
  <2> QED
    BY <1>5, <2>1, <2>2, <2>3, <2>4, CalmKept
       DEF Environment, Declare, StopFallsDue, GoesStale, Heartbeat, DaemonSilent,
           DaemonBack, LimitResets
<1> QED
  BY <1>1, <1>2, <1>3, <1>4, <1>5 DEF Next

(* Whatever happens around the handlers, a turn belongs to the same run.   *)
LEMMA TurnsBelong ==
  ASSUME TypeOK, Environment
  PROVE  \A t \in TurnIds : turn'[t].run = turn[t].run
<1> USE DEF TypeOK
<1>1. ASSUME NEW u \in TurnIds, EndTurn(u) \/ TurnBegins(u) \/ TurnLost(u)
      PROVE  \A t \in TurnIds : turn'[t].run = turn[t].run
  BY <1>1 DEF EndTurn, TurnBegins, TurnLost, Turn
<1>2. CASE BackendRestart
  BY <1>2 DEF BackendRestart, Turn
<1> QED
  BY <1>1, <1>2 DEF Environment, DispatchDropped, Declare, StopFallsDue, GoesStale,
     Heartbeat, DaemonSilent, DaemonBack, LimitResets

-----------------------------------------------------------------------------
(* What the steps do to the continuations.                                 *)

(* One that has not passed the checks of dispatch_pending_run.             *)
Fine(o) ==
  /\ o.pc \notin {"trigger", "start"}
  /\ o.pc \in {"write", "dispatch"} => o.run \in RunIds
  /\ o.pc = "message" => o.run = 0 /\ o.how \in {"chat", "comment"}

LEMMA FineReturn ==
  ASSUME op \in [Workers -> Op], NEW w \in Workers, Return(w) \/ Refused(w)
  PROVE  Fine(op'[w])
<1>1. ASSUME Return(w) PROVE Fine(op'[w])
  BY <1>1 DEF Return, Then, NoOp, Fine
<1>2. CASE Refused(w) /\ op[w].sched
  <2> DEFINE o == [op[w] EXCEPT !.pc = "discard"]
  <2>1. op'[w] = o
    BY <1>2 DEF Refused, Then
  <2>2. o.pc = "discard"
    BY DEF Op
  <2> HIDE DEF o
  <2> QED
    BY <2>1, <2>2 DEF Fine
<1> QED
  BY <1>1, <1>2 DEF Refused

LEMMA FineRequest ==
  ASSUME TypeOK, NEW w \in Workers, UserRequest(w)
  PROVE  Fine(op'[w])
<1> USE DEF TypeOK, Request, Then, NoOp, Fine, At
<1>1. ASSUME NEW task \in Tasks, Schedule(w, task) \/ Prepare(w, task)
      PROVE  Fine(op'[w])
  BY <1>1 DEF Schedule, Prepare
<1>2. ASSUME NEW task \in Tasks, CommentWake(w, task) \/ ChatRequest(w, task)
      PROVE  Fine(op'[w])
  BY <1>2, ZenonT(40) DEF CommentWake, ChatRequest
<1>3. ASSUME NEW r \in RunIds, Restart(w, r) PROVE Fine(op'[w])
  BY <1>3 DEF Restart
<1>4. ASSUME NEW r \in RunIds, StartRun(w, r) PROVE Fine(op'[w])
  BY <1>4 DEF StartRun
<1>5. ASSUME NEW r \in RunIds, Pause(w, r) PROVE Fine(op'[w])
  BY <1>5 DEF Pause
<1>6. ASSUME NEW r \in RunIds, Resume(w, r) PROVE Fine(op'[w])
  <2>1. op' = [op EXCEPT ![w] = [NoOp EXCEPT !.pc = "dispatch", !.run = r, !.how = "resume"]]
    BY <1>6 DEF Resume
  <2> QED
    BY <2>1
<1>7. ASSUME NEW r \in RunIds, Discard(w, r) \/ Cancel(w, r)
      PROVE  Fine(op'[w])
  BY <1>7 DEF Discard, Cancel
<1> QED
  BY <1>1, <1>2, <1>3, <1>4, <1>5, <1>6, <1>7 DEF UserRequest

LEMMA FineContinue ==
  ASSUME TypeOK, OpInv, NEW w \in Workers, Continue(w),
         ~DispatchCheck(w), ~Trigger(w), ~Message(w)
  PROVE  Fine(op'[w])
<1> USE DEF TypeOK
<1>1. ASSUME NEW pc, NEW o, o = [op[w] EXCEPT !.pc = pc], Then(w, o),
             pc \notin {"trigger", "start", "message"},
             pc \in {"write", "dispatch"} => op[w].run \in RunIds
      PROVE  Fine(op'[w])
  BY <1>1 DEF Then, Op, Fine
<1>2. ASSUME NEW pc \in {"write", "dispatch"}, NEW r \in RunIds, NEW o,
             o = [op[w] EXCEPT !.pc = pc, !.run = r], Then(w, o)
      PROVE  Fine(op'[w])
  BY <1>2 DEF Then, Op, Fine
<1>3. CASE PrepareLookup(w)
  <2>1. Newest({r \in RowsOf(op[w].task) : run[r].sched}) \subseteq RunIds
    BY DEF Newest, RowsOf
  <2>2. \/ Then(w, [op[w] EXCEPT !.pc = "create"])
        \/ Return(w)
        \/ \E r \in RunIds : \/ Then(w, [op[w] EXCEPT !.pc = "write", !.run = r])
                             \/ Then(w, [op[w] EXCEPT !.pc = "dispatch", !.run = r])
    BY <1>3, <2>1 DEF PrepareLookup
  <2>3. ASSUME Then(w, [op[w] EXCEPT !.pc = "create"]) PROVE Fine(op'[w])
    BY <2>3 DEF Then, Op, Fine
  <2>4. ASSUME NEW r \in RunIds, NEW pc \in {"write", "dispatch"},
               Then(w, [op[w] EXCEPT !.pc = pc, !.run = r])
        PROVE  Fine(op'[w])
    BY <1>2, <2>4
  <2> QED
    BY <2>2, <2>3, <2>4, FineReturn
<1>4. CASE PrepareCreate(w)
  <2>1. FreeId \subseteq RunIds
    BY DEF FreeId
  <2> QED
    BY <1>2, <1>4, <2>1, FineReturn DEF PrepareCreate
<1>5. CASE PrepareWrite(w)
  <2>1. op[w].run \in RunIds
    BY <1>5 DEF PrepareWrite, OpInv, OpFits, At
  <2> QED
    BY <1>1, <1>5, <2>1, FineReturn DEF PrepareWrite
<1>6. CASE Start(w) \/ DiscardRefused(w) \/ PauseStamp(w)
  BY <1>6, FineReturn DEF Start, DiscardRefused, PauseStamp
<1>7. CASE SweepResume(w)
  <2>1. PICK r \in op[w].todo :
          Then(w, [op[w] EXCEPT !.pc = "dispatch", !.run = r,
                                !.how = "resume", !.todo = @ \ {r}])
    BY <1>7 DEF SweepResume
  <2> DEFINE o == [op[w] EXCEPT !.pc = "dispatch", !.run = r,
                                !.how = "resume", !.todo = @ \ {r}]
  <2>2. o.pc = "dispatch" /\ o.run = r /\ r \in RunIds
    BY DEF Op
  <2>3. op'[w] = o
    BY <2>1 DEF Then
  <2> HIDE DEF o
  <2> QED
    BY <2>2, <2>3 DEF Fine
<1>8. CASE Close(w)
  BY <1>1, <1>8 DEF Close
<1>9. CASE Verdict(w)
  <2>1. \/ Return(w)
        \/ \E task : Then(w, [NoOp EXCEPT !.pc = "prep", !.task = task, !.sched = TRUE,
                                          !.by = "retry"])
    BY <1>9 DEF Verdict
  <2>2. ASSUME NEW task, Then(w, [NoOp EXCEPT !.pc = "prep", !.task = task, !.sched = TRUE,
                                              !.by = "retry"])
        PROVE  Fine(op'[w])
    BY <2>2 DEF Then, NoOp, Fine
  <2> QED
    BY <2>1, <2>2, FineReturn
<1> QED
  BY <1>3, <1>4, <1>5, <1>6, <1>7, <1>8, <1>9 DEF Continue

LEMMA FineOther ==
  ASSUME TypeOK, NEW w \in Workers, Completion(w) \/ Reconcile(w) \/ LimitSweep(w)
  PROVE  Fine(op'[w])
<1> USE DEF TypeOK, Then, NoOp, Fine, At
<1>1. ASSUME NEW t \in TurnIds, ReportCancelled(w, t) \/ ReportPaused(w, t) \/ TurnHitsLimit(w, t)
      PROVE  Fine(op'[w])
  BY <1>1 DEF ReportCancelled, ReportPaused, TurnHitsLimit
<1>2. ASSUME NEW t \in TurnIds, TurnSucceeds(w, t) \/ TurnCrashes(w, t) \/ TurnErrs(w, t)
      PROVE  Fine(op'[w])
  <2>1. PICK e : Report(w, t, e)
    BY <1>2 DEF TurnSucceeds, TurnCrashes, TurnErrs
  <2> DEFINE r   == turn[t].run
             eff == e = "none" \/ (Exists(r) /\ run[r].outcome # "none")
             o   == [NoOp EXCEPT !.pc = "close", !.run = r, !.turn = t,
                                 !.err = IF eff THEN "none" ELSE e, !.ok = (e = "none")]
  <2>2. Then(w, o)
    BY <2>1 DEF Report
  <2>3. o.pc = "close"
    OBVIOUS
  <2> HIDE DEF o
  <2> QED
    BY <2>2, <2>3
<1>3. CASE Reconcile(w)
  BY <1>3 DEF Reconcile
<1>4. CASE LimitSweep(w)
  BY <1>4 DEF LimitSweep
<1> QED
  BY <1>1, <1>2, <1>3, <1>4 DEF Completion

(* Around the handlers a continuation stays, or is forgotten.              *)
LEMMA OpsKept ==
  ASSUME TypeOK, Environment, NEW w \in Workers
  PROVE  op'[w] = op[w] \/ op'[w] = NoOp
BY DEF Environment, TurnBegins, TurnLost, DispatchDropped, Declare, StopFallsDue,
   GoesStale, Heartbeat, DaemonSilent, DaemonBack, BackendRestart, LimitResets

-----------------------------------------------------------------------------
(* The checks, step by step.                                               *)

LEMMA FineChecks ==
  ASSUME NEW w \in Workers, Fine(op'[w])
  PROVE  OpFits(w)' /\ Cleared(w)'
BY DEF Fine, OpFits, Cleared, At

(* What was checked stays so while rows are stilled and turns belong.      *)
LEMMA ChecksKept ==
  ASSUME TypeOK, NEW w \in Workers, OpFits(w), Cleared(w), AllStill, op'[w] = op[w],
         \A t \in TurnIds : turn'[t].run = turn[t].run
  PROVE  OpFits(w)' /\ Cleared(w)'
<1>1. OpFits(w)'
  BY DEF OpFits, At
<1>2. ASSUME At(w, "start") \/ (At(w, "trigger") /\ op[w].run # 0)
      PROVE  Clear(op[w].run, op[w].how)'
  <2>1. PICK r, how : r = op[w].run /\ how = op[w].how
    OBVIOUS
  <2>2. Clear(r, how)
    BY <1>2, <2>1 DEF Cleared
  <2>3. r \in RunIds
    BY <1>2, <2>1 DEF TypeOK, Op, OpFits, At, RunIds
  <2>4. Clear(r, how)'
    BY <2>2, <2>3, ClearStays
  <2> QED
    BY <2>1, <2>4 DEF Clear
<1>3. ASSUME At(w, "trigger"), op[w].run = 0, NEW q \in Running'
      PROVE  run'[q].task # op[w].task
  BY <1>3, RunningShrinks DEF Cleared, Running, InStatus, Unborn
<1> QED
  BY <1>1, <1>2, <1>3 DEF Cleared, At

(* A row begins to run where no other row of its task does.                *)
LEMMA NewRunner ==
  ASSUME OneRunningPerTask, NEW r \in RunIds,
         \A q \in RunIds \ {r} : run'[q] = run[q],
         \A q \in Running \ {r} : run[q].task # run'[r].task
  PROVE  /\ OneRunningPerTask'
         /\ ~SameTaskRunning(r)'
         /\ Running' \ {r} \subseteq Running \ {r}
<1>1. \A q \in Running' \ {r} : q \in Running \ {r} /\ run'[q] = run[q]
  BY DEF Running, InStatus
<1> QED
  BY <1>1 DEF OneRunningPerTask, SameTaskRunning

LEMMA CheckDispatch ==
  ASSUME TypeOK, OpInv, NEW w \in Workers, DispatchCheck(w)
  PROVE  OpFits(w)' /\ Cleared(w)'
<1> USE DEF TypeOK
<1>1. PICK r, how : r = op[w].run /\ how = op[w].how
  OBVIOUS
<1>2. r \in RunIds /\ r # 0
  BY <1>1 DEF OpInv, OpFits, DispatchCheck, At, RunIds
<1>3. CASE Dispatchable(r, how) /\ ~SameTaskRunning(r) /\ ~AtCap(r)
  <2> DEFINE o == [op[w] EXCEPT !.pc = "trigger"]
  <2>1. op'[w] = o
    BY <1>1, <1>3 DEF DispatchCheck, Then
  <2>2. o.pc = "trigger" /\ o.run = r /\ o.how = how
    BY <1>1 DEF Op
  <2> HIDE DEF o
  <2>3. Clear(r, how)
    BY <1>3 DEF Clear, Born, Dispatchable, Unborn
  <2>4. AllStill
    BY TameKept, TameBoth DEF DispatchCheck
  <2>5. Clear(r, how)'
    BY <1>2, <2>3, <2>4, ClearStays
  <2>6. op'[w].pc = "trigger" /\ op'[w].run = r /\ op'[w].how = how
    BY <2>1, <2>2
  <2> QED
    BY <1>2, <2>5, <2>6 DEF OpFits, Cleared, At, Clear
<1>4. CASE ~(Dispatchable(r, how) /\ ~SameTaskRunning(r) /\ ~AtCap(r))
  BY <1>1, <1>4, FineReturn, FineChecks DEF DispatchCheck
<1> QED
  BY <1>3, <1>4

(* A write of a row that exists.                                           *)
LEMMA SetLiving ==
  ASSUME run \in [RunIds -> Row], NEW r, NEW row, Exists(r), SetRun(r, row)
  PROVE  r \in RunIds /\ run'[r] = row /\ \A q \in RunIds \ {r} : run'[q] = run[q]
BY DEF SetRun, Exists

LEMMA CoolFresh ==
  ASSUME NEW r \in RunIds, \A q \in RunIds \ {r} : run'[q] = run[q],
         Cool(run[r], run'[r])
  PROVE  AllCool
BY DEF AllCool, Cool

(* send_runtime_message wakes a run only after it has found none of the    *)
(* task running; the row it wakes keeps its clock and its task.            *)
LEMMA CheckMessage ==
  ASSUME TypeOK, OpInv, OneRunningPerTask, NEW w \in Workers, Message(w)
  PROVE  OpFits(w)' /\ Cleared(w)' /\ OneRunningPerTask' /\ AllCool
<1> USE DEF TypeOK
<1>1. PICK how, task : how = op[w].how /\ task = op[w].task
  OBVIOUS
<1>2. how \in {"chat", "comment"} /\ op[w].run = 0
  BY <1>1 DEF Message, OpInv, OpFits
<1> DEFINE rows == RowsOf(task)
           busy == InStatus(rows, "interrupting") # {} \/ InStatus(rows, "running") # {}
<1>3. CASE Return(w) /\ UNCHANGED run
  BY <1>3, FineReturn, FineChecks, OneStays, TameKept, TameBoth
<1>4. CASE ~busy /\ Then(w, [op[w] EXCEPT !.pc = "trigger"]) /\ UNCHANGED run
  <2> DEFINE o == [op[w] EXCEPT !.pc = "trigger"]
  <2>1. o.pc = "trigger" /\ o.run = 0 /\ o.how = how /\ o.task = task
    BY <1>1, <1>2 DEF Op
  <2>2. op'[w] = o
    BY <1>4 DEF Then
  <2> HIDE DEF o
  <2>3. \A q \in Running' : run'[q].task # task
    BY <1>4 DEF Running, InStatus, RowsOf, Exists, Unborn, Gone
  <2> QED
    BY <1>2, <1>4, <2>1, <2>2, <2>3, OneStays, TameKept, TameBoth DEF OpFits, Cleared, At
<1>5. ASSUME ~busy, NEW r \in rows, SetRun(r, WokenByMessage(run[r])),
             Then(w, [op[w] EXCEPT !.pc = "trigger", !.run = r])
      PROVE  OpFits(w)' /\ Cleared(w)' /\ OneRunningPerTask' /\ AllCool
  <2> DEFINE o == [op[w] EXCEPT !.pc = "trigger", !.run = r]
  <2>1. o.pc = "trigger" /\ o.run = r /\ o.how = how
    BY <1>1 DEF Op
  <2>2. op'[w] = o
    BY <1>5 DEF Then
  <2> HIDE DEF o
  <2>3. Exists(r) /\ r \in RunIds /\ run[r] \in Row /\ run[r].task = task
    BY DEF RowsOf, Exists
  <2>4. run'[r] = WokenByMessage(run[r]) /\ \A q \in RunIds \ {r} : run'[q] = run[q]
    BY <1>5, <2>3, SetLiving
  <2>5. /\ run'[r].status = "running" /\ run'[r].task = task
        /\ run'[r].clock = run[r].clock
    BY <2>3, <2>4 DEF WokenByMessage, Row
  <2>6. \A q \in Running : run[q].task # task
    BY <1>5 DEF Running, InStatus, RowsOf, Exists, Unborn, Gone
  <2>7. OneRunningPerTask' /\ ~SameTaskRunning(r)'
    BY <2>3, <2>4, <2>5, <2>6, NewRunner
  <2>8. Cool(run[r], run'[r])
    BY <2>3, <2>5 DEF Cool, Lives, Hot, Exists
  <2>9. OpFits(w)'
    BY <2>1, <2>2, <2>3 DEF OpFits, At
  <2>10. Cleared(w)'
    BY <1>2, <2>1, <2>2, <2>3, <2>5, <2>7 DEF Cleared, At, Clear, Born, Unborn, SameTaskRunning, RunIds
  <2> QED
    BY <2>3, <2>4, <2>7, <2>8, <2>9, <2>10, CoolFresh
<1>6. ToWake(task) \subseteq rows
  BY DEF ToWake, Newest, InStatus
<1>7. \/ Return(w) /\ UNCHANGED run
      \/ ~busy /\ Then(w, [op[w] EXCEPT !.pc = "trigger"]) /\ UNCHANGED run
      \/ ~busy /\ \E r \in ToWake(task) :
           /\ SetRun(r, WokenByMessage(run[r]))
           /\ Then(w, [op[w] EXCEPT !.pc = "trigger", !.run = r])
  BY <1>1 DEF Message
<1> HIDE DEF rows, busy
<1> QED
  BY <1>3, <1>4, <1>5, <1>6, <1>7

(* runs.start: the run it starts has been cleared.                         *)
LEMMA CheckStart ==
  ASSUME TypeOK, OpInv, ClearInv, OneRunningPerTask, NEW w \in Workers, Start(w)
  PROVE  /\ OpFits(w)' /\ Cleared(w)' /\ OneRunningPerTask' /\ AllCool
         /\ Running' \subseteq Running \cup {op[w].run}
<1> USE DEF TypeOK
<1>1. OpFits(w)' /\ Cleared(w)'
  BY FineReturn, FineChecks DEF Start
<1>2. PICK r, how : r = op[w].run /\ how = op[w].how
  OBVIOUS
<1>3. r \in RunIds /\ Clear(r, how) /\ SetRun(r, Started(run[r]))
  BY <1>2 DEF Start, OpInv, OpFits, ClearInv, Cleared, At
<1>4. CASE Exists(r)
  <2>1. run'[r] = Started(run[r]) /\ \A q \in RunIds \ {r} : run'[q] = run[q]
    BY <1>3, <1>4, SetLiving
  <2>2. run'[r].status = "running" /\ run'[r].clock = "fresh" /\ run'[r].task = run[r].task
    BY <1>3, <2>1 DEF Started, Row
  <2>3. \A q \in Running \ {r} : run[q].task # run'[r].task
    BY <1>3, <2>2 DEF Clear, SameTaskRunning
  <2>4. OneRunningPerTask' /\ Running' \ {r} \subseteq Running \ {r}
    BY <1>3, <2>1, <2>3, NewRunner
  <2>5. AllCool
    BY <1>3, <2>1, <2>2, CoolFresh DEF Cool, Hot
  <2> QED
    BY <1>1, <1>2, <2>4, <2>5
<1>5. CASE ~Exists(r)
  <2>1. \A q \in RunIds : run'[q] = run[q]
    BY <1>3, <1>5 DEF SetRun
  <2>2. AllTame
    BY <2>1, TameSame DEF AllTame
  <2> QED
    BY <1>1, <2>2, TameBoth, OneStays, RunningShrinks
<1> QED
  BY <1>4, <1>5

(* dispatch_trigger: the run it was given has been cleared; one that it    *)
(* takes or inserts for a chat belongs to a task with no other running.    *)
LEMMA CheckTrigger ==
  ASSUME TypeOK, OpInv, ClearInv, OneRunningPerTask, NEW w \in Workers, Trigger(w)
  PROVE  OpFits(w)' /\ Cleared(w)' /\ OneRunningPerTask' /\ AllCool
<1> USE DEF TypeOK
<1>1. PICK how, task : how = op[w].how /\ task = op[w].task
  OBVIOUS
<1>2. PICK hit \in SUBSET {t \in Prior(w) : turn[t].st \in {"queued", "live"}} :
        \/ TriggerRefused(w, hit)
        \/ \E t \in FreeTurn, r \in RunIds : TriggerSent(w, hit, t, r)
  BY DEF Trigger
<1>3. CASE TriggerRefused(w, hit)
  BY <1>3, FineReturn, FineChecks, OneStays, TameKept, TameBoth DEF TriggerRefused
<1>4. ASSUME NEW t \in FreeTurn, NEW r \in RunIds, TriggerSent(w, hit, t, r)
      PROVE  OpFits(w)' /\ Cleared(w)' /\ OneRunningPerTask' /\ AllCool
  <2> DEFINE o == [op[w] EXCEPT !.pc = "start", !.run = r, !.turn = t]
             n == [NoTurn EXCEPT !.run = r, !.st = "saved", !.by = op[w].by]
  <2>1. o.pc = "start" /\ o.run = r /\ o.turn = t /\ o.how = how
    BY <1>1 DEF Op
  <2>2. op'[w] = o
    BY <1>4 DEF TriggerSent, Then
  <2>3. t \in TurnIds /\ turn'[t].run = r
    <3>1. n.run = r
      BY DEF NoTurn
    <3>2. turn' = [Withdrawn(w, hit) EXCEPT ![t] = n] /\ t \in TurnIds
      BY <1>4 DEF TriggerSent, FreeTurn
    <3> HIDE DEF n
    <3> QED
      BY <3>1, <3>2 DEF Withdrawn
  <2> HIDE DEF o, n
  <2>4. OpFits(w)'
    BY <2>1, <2>2, <2>3 DEF OpFits, At
  <2>5. At(w, "trigger")
    BY DEF Trigger
  <2>6. CASE op[w].run # 0 /\ r = op[w].run /\ UNCHANGED run
    <3>1. AllStill /\ AllCool
      BY <2>6, TameKept, TameBoth
    <3>2. Clear(r, how)
      BY <1>1, <2>5, <2>6 DEF ClearInv, Cleared
    <3>3. Clear(r, how)'
      BY <3>1, <3>2, ClearStays
    <3>4. Cleared(w)'
      BY <2>1, <2>2, <3>3 DEF Cleared, At, Clear
    <3> QED
      BY <2>4, <3>1, <3>4, OneStays
  <2>7. ASSUME op[w].run = 0, run'[r].status = "running", run'[r].task = task,
               run'[r].clock = "fresh", \A q \in RunIds \ {r} : run'[q] = run[q]
        PROVE  OpFits(w)' /\ Cleared(w)' /\ OneRunningPerTask' /\ AllCool
    <3>1. how \in {"chat", "comment"}
      BY <1>1, <2>5, <2>7 DEF OpInv, OpFits, RunIds
    <3>2. \A q \in Running : run[q].task # task
      BY <1>1, <2>5, <2>7 DEF ClearInv, Cleared
    <3>3. OneRunningPerTask' /\ ~SameTaskRunning(r)'
      BY <2>7, <3>2, NewRunner
    <3>4. AllCool
      BY <2>7, CoolFresh DEF Cool, Hot
    <3>5. Cleared(w)'
      BY <2>1, <2>2, <2>7, <3>1, <3>3 DEF Cleared, At, Clear, Born, Unborn, SameTaskRunning
    <3> QED
      BY <2>4, <3>3, <3>4, <3>5
  <2>8. CASE op[w].run = 0 /\ r \in Newest(RowsOf(op[w].task)) /\ SetRun(r, TakenByChat(run[r]))
    <3>1. Exists(r) /\ run[r] \in Row /\ run[r].task = task
      BY <1>1, <2>8 DEF Newest, RowsOf
    <3>2. run'[r] = TakenByChat(run[r]) /\ \A q \in RunIds \ {r} : run'[q] = run[q]
      BY <2>8, <3>1, SetLiving
    <3>3. /\ run'[r].status = "running" /\ run'[r].task = task
          /\ run'[r].clock = "fresh"
      BY <3>1, <3>2 DEF TakenByChat, Row
    <3> QED
      BY <2>7, <2>8, <3>2, <3>3
  <2>9. CASE op[w].run = 0 /\ Insert(r, NewRow(op[w].task, FALSE, "running"))
    <3>1. /\ run'[r] = NewRow(task, FALSE, "running")
          /\ \A q \in RunIds \ {r} : run'[q] = run[q]
      BY <1>1, <2>9 DEF Insert
    <3>2. /\ run'[r].status = "running" /\ run'[r].task = task
          /\ run'[r].clock = "fresh"
      BY <3>1 DEF NewRow
    <3> QED
      BY <2>7, <2>9, <3>1, <3>2
  <2> QED
    BY <1>4, <2>6, <2>8, <2>9 DEF TriggerSent
<1> QED
  BY <1>2, <1>3, <1>4

-----------------------------------------------------------------------------
(* The daemon reports no row that has been given up.                       *)

LEMMA StartedTurn ==
  ASSUME TypeOK, OpInv, NEW w \in Workers, Start(w), NEW t \in TurnIds, Busy(t)'
  PROVE  turn'[t].run = turn[t].run /\ (t = op[w].turn \/ Busy(t))
<1> USE DEF TypeOK
<1>1. PICK u \in TurnIds : u = op[w].turn
  BY DEF Start, OpInv, OpFits
<1>2. turn' = [turn EXCEPT ![u] = [turn[u] EXCEPT !.st = "queued", !.scoped = TRUE]]
  BY <1>1 DEF Start
<1> DEFINE n == [turn[u] EXCEPT !.st = "queued", !.scoped = TRUE]
<1>3. n.run = turn[u].run
  BY DEF Turn
<1> HIDE DEF n
<1>4. turn'[u] = n /\ \A v \in TurnIds \ {u} : turn'[v] = turn[v]
  BY <1>2 DEF n
<1> QED
  BY <1>1, <1>3, <1>4 DEF Busy

LEMMA QuietKept ==
  ASSUME QuietInv, AllCool, Calm, linked'
  PROVE  QuietInv'
BY DEF QuietInv, AllCool, Cool, Calm, Exists, Lives, Busy

LEMMA QuietStart ==
  ASSUME TypeOK, OpInv, QuietInv, NEW w \in Workers, Start(w), AllCool
  PROVE  QuietInv'
<1> USE DEF TypeOK
<1>1. PICK r, u : r = op[w].run /\ u = op[w].turn
  OBVIOUS
<1>2. r \in RunIds /\ turn[u].run = r /\ SetRun(r, Started(run[r])) /\ linked'
  BY <1>1 DEF Start, OpInv, OpFits, At, QuietInv
<1>3. ASSUME Exists(r)' PROVE ~Hot(run'[r])
  <2>1. run'[r] = Started(run[r])
    BY <1>2, <1>3 DEF SetRun, Exists
  <2>2. run'[r].status = "running" /\ run'[r].clock = "fresh"
    BY <1>2, <2>1 DEF Started, Row
  <2> QED
    BY <2>2 DEF Hot
<1>4. ASSUME NEW q \in RunIds, NEW t \in TurnIds, Exists(q)', Hot(run'[q]), Busy(t)'
      PROVE  turn'[t].run # q
  <2>1. turn'[t].run = turn[t].run /\ (t = u \/ Busy(t))
    BY <1>1, <1>4, StartedTurn
  <2>2. Exists(q) /\ Hot(run[q]) /\ q # r
    BY <1>3, <1>4 DEF AllCool, Cool, Exists, Lives
  <2> QED
    BY <1>2, <2>1, <2>2 DEF QuietInv
<1> QED
  BY <1>2, <1>4 DEF QuietInv

(* A row goes stale when nobody reports it: none of its turns is busy.     *)
LEMMA QuietStale ==
  ASSUME Serial, TypeOK, QuietInv, NEW r \in RunIds, GoesStale(r)
  PROVE  AllStill /\ QuietInv'
<1> USE DEF TypeOK
<1>1. \A t \in TurnIds : Busy(t) => turn[t].run # r
  BY DEF Serial, GoesStale, Unreported, QuietInv, Busy
<1>2. \A q \in RunIds \ {r} : run'[q] = run[q]
  BY DEF GoesStale, SetRun
<1>3. Still(run[r], run'[r])
  BY DEF GoesStale, SetRun, Row, Still
<1>4. AllStill
  BY <1>2, <1>3 DEF AllStill, Still
<1>5. QuietInv'
  BY <1>1, <1>2 DEF GoesStale, QuietInv, Exists, Busy
<1> QED
  BY <1>4, <1>5

LEMMA LinkStays ==
  ASSUME Serial, QuietInv, Next
  PROVE  linked'
<1> USE DEF QuietInv
<1>1. ASSUME NEW w \in Workers, UserRequest(w) PROVE linked'
  BY <1>1 DEF UserRequest, Schedule, Prepare, CommentWake, ChatRequest, Restart, StartRun,
     Discard, Pause, Cancel, Resume
<1>2. ASSUME NEW w \in Workers, Continue(w) PROVE linked'
  BY <1>2 DEF Continue, PrepareLookup, PrepareCreate, PrepareWrite, DispatchCheck, Trigger,
     Start, Message, DiscardRefused, PauseStamp, SweepResume, Close, Verdict
<1>3. ASSUME NEW w \in Workers, Completion(w) \/ Reconcile(w) \/ LimitSweep(w) PROVE linked'
  BY <1>3 DEF Completion, ReportCancelled, ReportPaused, TurnSucceeds, TurnCrashes, TurnErrs,
     Report, TurnHitsLimit, Reconcile, LimitSweep
<1>4. CASE Environment
  BY <1>4 DEF Serial, Environment, TurnBegins, TurnLost, DispatchDropped, Declare,
     StopFallsDue, GoesStale, Heartbeat, DaemonSilent, DaemonBack, BackendRestart, LimitResets
<1> QED
  BY <1>1, <1>2, <1>3, <1>4 DEF Next

-----------------------------------------------------------------------------
(* The invariant.                                                          *)

LEMMA SerialInit == Init => SerialInv
<1> SUFFICES ASSUME Init PROVE SerialInv
  OBVIOUS
<1>1. \A w \in Workers : op[w].pc = "idle"
  BY DEF Init, NoOp
<1>2. \A r \in RunIds : run[r].status = Unborn
  BY DEF Init, NewRow
<1>3. OpInv /\ ClearInv
  BY <1>1 DEF OpInv, OpFits, ClearInv, Cleared, At
<1>4. QuietInv
  BY <1>2 DEF Init, QuietInv, Exists
<1>5. OneRunningPerTask
  BY <1>2 DEF OneRunningPerTask, Running, InStatus, Unborn
<1> QED
  BY <1>3, <1>4, <1>5 DEF SerialInv

(* A handler of the only worker.                                           *)
LEMMA WorkerStep ==
  ASSUME Serial, TypeOK, SerialInv, NEW w \in Workers,
         UserRequest(w) \/ Continue(w) \/ Completion(w) \/ Reconcile(w) \/ LimitSweep(w)
  PROVE  OpInv' /\ ClearInv' /\ OneRunningPerTask' /\ AllCool
<1> USE DEF SerialInv
<1> SUFFICES OpFits(w)' /\ Cleared(w)' /\ OneRunningPerTask' /\ AllCool
  BY DEF Serial, OpInv, ClearInv
<1>1. CASE UserRequest(w)
  BY <1>1, FineRequest, FineChecks, TameRequest, TameBoth, OneStays
<1>2. CASE Completion(w)
  BY <1>2, FineOther, FineChecks, TameCompletion, TameBoth, OneStays
<1>3. CASE Reconcile(w) \/ LimitSweep(w)
  BY <1>3, FineOther, FineChecks, TameJob, TameBoth, OneStays
<1>4. CASE Message(w)
  BY <1>4, CheckMessage
<1>5. CASE Trigger(w)
  BY <1>5, CheckTrigger
<1>6. CASE Start(w)
  BY <1>6, CheckStart
<1>7. CASE Continue(w) /\ ~Message(w) /\ ~Trigger(w) /\ ~Start(w)
  <2>1. OneRunningPerTask' /\ AllCool
    BY <1>7, TameContinue, TameBoth, OneStays
  <2>2. OpFits(w)' /\ Cleared(w)'
    BY <1>7, CheckDispatch, FineContinue, FineChecks
  <2> QED
    BY <2>1, <2>2
<1> QED
  BY <1>1, <1>2, <1>3, <1>4, <1>5, <1>6, <1>7

(* What happens around the handlers.                                       *)
LEMMA EnvironmentStep ==
  ASSUME Serial, TypeOK, SerialInv, Environment
  PROVE  /\ OpInv' /\ ClearInv' /\ OneRunningPerTask'
         /\ AllCool \/ \E r \in RunIds : GoesStale(r)
<1> USE DEF SerialInv
<1>1. AllStill /\ (AllCool \/ \E r \in RunIds : GoesStale(r))
  BY QuietStale, TameEnvironment, TameBoth
<1>2. ASSUME NEW w \in Workers PROVE OpFits(w)' /\ Cleared(w)'
  <2>1. CASE op'[w] = op[w]
    BY <1>1, <2>1, ChecksKept, TurnsBelong DEF OpInv, ClearInv
  <2>2. CASE op'[w] = NoOp
    <3>1. Fine(op'[w])
      BY <2>2 DEF NoOp, Fine
    <3> QED
      BY <3>1, FineChecks
  <2> QED
    BY <2>1, <2>2, OpsKept
<1> QED
  BY <1>1, <1>2, OneStays DEF OpInv, ClearInv

LEMMA SerialStep ==
  ASSUME Serial, TypeOK, SerialInv, [Next]_vars
  PROVE  SerialInv'
<1>1. CASE UNCHANGED vars
  BY <1>1 DEF vars, SerialInv, OpInv, OpFits, ClearInv, Cleared, Clear, QuietInv,
     OneRunningPerTask, At, Born, Busy, Exists, SameTaskRunning, AtCap, Running, InStatus
<1>2. CASE Next
  <2>1. /\ OpInv' /\ ClearInv' /\ OneRunningPerTask'
        /\ AllCool \/ \E r \in RunIds : GoesStale(r)
    BY <1>2, WorkerStep, EnvironmentStep DEF Next
  <2>2. ASSUME NEW r \in RunIds, GoesStale(r) PROVE QuietInv'
    BY <2>2, QuietStale DEF SerialInv
  <2>3. ASSUME NEW w \in Workers, Start(w), AllCool PROVE QuietInv'
    BY <2>3, QuietStart DEF SerialInv
  <2>4. ASSUME \A w \in Workers : ~Start(w), AllCool PROVE QuietInv'
    BY <1>2, <2>4, CalmStep, LinkStays, QuietKept DEF SerialInv
  <2> QED
    BY <2>1, <2>2, <2>3, <2>4 DEF SerialInv
<1> QED
  BY <1>1, <1>2

LEMMA SerialAlways == ASSUME Serial PROVE Spec => []SerialInv
<1>1. ASSUME TypeOK, SerialInv, [Next]_vars PROVE SerialInv'
  BY <1>1, SerialStep
<1> QED
  BY <1>1, SerialInit, TypeCorrect, PTL DEF Spec

(* dispatch_pending_run and the message path serialise per (agent, task):  *)
(* no two runs of one task are running, however dispatches, chats, wakes,  *)
(* resumes, sweeps, completions, drops, losses and restarts follow one     *)
(* another, as long as one request is served at a time and no daemon comes *)
(* back with turns given up for dead.                                      *)
THEOREM OneRunIsRunning == ASSUME Serial PROVE Spec => []OneRunningPerTask
<1>1. SerialInv => OneRunningPerTask
  BY DEF SerialInv
<1> QED
  BY <1>1, SerialAlways, PTL

-----------------------------------------------------------------------------
(* The cap.                                                                *)

LEMMA CapAtStart ==
  ASSUME Serial, TypeOK, SerialInv, [Next]_vars
  PROVE  CapStep
<1> SUFFICES ASSUME NEW w \in Workers,
                    At(w, "start"), op[w].how \in {"work", "resume"}, op'[w].pc # "start"
             PROVE  Cardinality(Running') <= Cap
  BY DEF CapStep
<1>1. PICK r, how : r = op[w].run /\ how = op[w].how
  OBVIOUS
<1>2. ~AtCap(r)
  BY <1>1 DEF SerialInv, ClearInv, Cleared, Clear
<1>3. Running' \subseteq Running \cup {r}
  <2>1. ASSUME NEW v \in Workers, Start(v) PROVE Running' \subseteq Running \cup {r}
    BY <1>1, <2>1, CheckStart DEF Serial, SerialInv
  <2>2. CASE Environment
    BY <2>2, QuietStale, TameEnvironment, TameBoth, RunningShrinks DEF SerialInv
  <2>3. ASSUME NEW v \in Workers, UserRequest(v) \/ Completion(v) \/ Reconcile(v) \/ LimitSweep(v)
        PROVE  Running' \subseteq Running \cup {r}
    BY <2>3, TameRequest, TameCompletion, TameJob, TameBoth, RunningShrinks
  <2>4. ASSUME NEW v \in Workers, Continue(v), ~Start(v)
        PROVE  Running' \subseteq Running \cup {r}
    <3>1. v = w /\ ~Trigger(v) /\ ~Message(v)
      BY DEF Serial, Trigger, Message, At
    <3> QED
      BY <2>4, <3>1, TameContinue, TameBoth, RunningShrinks
  <2>5. CASE UNCHANGED vars
    BY <2>5 DEF vars, Running, InStatus
  <2> QED
    BY <2>1, <2>2, <2>3, <2>4, <2>5 DEF Next
<1> DEFINE R == Running \ {r}
           S == Running'
<1>4. IsFiniteSet(R) /\ r \notin R /\ S \subseteq R \cup {r}
  BY <1>3, RunningFinite, FS_Subset
<1>5. IsFiniteSet(R \cup {r}) /\ Cardinality(R \cup {r}) = Cardinality(R) + 1
  BY <1>4, FS_AddElement
<1>6. Cardinality(S) <= Cardinality(R \cup {r}) /\ IsFiniteSet(S)
  BY <1>4, <1>5, FS_Subset
<1>7. Cardinality(R) \in Nat /\ Cardinality(S) \in Nat /\ Cap \in Nat
  BY <1>4, <1>6, FS_CardinalityType, BoundAssumption
<1>8. ~(Cardinality(R) >= Cap)
  BY <1>2 DEF AtCap
<1> HIDE DEF R, S
<1>9. Cardinality(S) <= Cap
  BY <1>5, <1>6, <1>7, <1>8
<1> QED
  BY <1>9 DEF S

(* max_concurrent_runs is checked two transactions before the run starts,  *)
(* and still holds when it does: starting prepared or resumed work leaves  *)
(* at most that many runs of the agent running.                            *)
THEOREM WorkStaysBelowTheCap == ASSUME Serial PROVE Spec => CapRespected
<1>1. ASSUME TypeOK, SerialInv, [Next]_vars PROVE CapStep
  BY <1>1, CapAtStart
<1>2. ASSUME TypeOK, SerialInv, [Next]_vars PROVE [CapStep]_vars
  BY <1>1, <1>2
<1> QED
  BY <1>2, SerialAlways, TypeCorrect, PTL DEF Spec, CapRespected
=============================================================================
