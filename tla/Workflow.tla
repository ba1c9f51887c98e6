------------------------------ MODULE Workflow ------------------------------
(***************************************************************************)
(* The workflow driver on one task (forge/workflow.py, finish_run and      *)
(* submit_review of forge/services.py, move and update of tasks.py, the    *)
(* merge thread of daemon/core.py and daemon/integrate.py) under the       *)
(* pipeline of templates/workflow/default.yaml.                            *)
(*                                                                         *)
(* A turn that declares success drives the board: from in_progress to a    *)
(* reviewer, from review to a merge on the daemon, whose answer finishes   *)
(* the advance.  Each commit is a step: the driver reads once, then logs,  *)
(* moves, assigns and dispatches in sessions of their own, while people    *)
(* move the task, agents push, turns end and the same run row starts the   *)
(* next turn.  A run row is reused for every turn of its agent; what the   *)
(* driver asks of the ledger is scoped to the turn by started_at.          *)
(*                                                                         *)
(* Branch names, prompts and comments are left out; agents stay members of *)
(* the project, and the project has a runtime, a repository and a verify   *)
(* command.  The pull request's head is a number, 0 while none is linked.  *)
(***************************************************************************)
EXTENDS Integers, Sequences, FiniteSets

CONSTANTS
  Agents, Nobody,
  Reviewers, Writers,  \* the agents the two roles match
  Threads,             \* requests served at once
  Jobs,                \* merges ever requested
  MaxAttempts,         \* bounce.max_attempts
  MaxTurns,            \* bound: turns ever started
  MaxHead,             \* bound: pushes to the pull request
  MaxMoves,            \* bound: moves made by hand or by an agent
  Faults               \* what this instance suffers

ASSUME RoleAssumption == /\ Reviewers \subseteq Agents /\ Writers \subseteq Agents
                         /\ Nobody \notin Agents
ASSUME BoundAssumption == /\ MaxAttempts \in Nat /\ MaxTurns \in Nat \ {0}
                          /\ MaxHead \in Nat /\ MaxMoves \in Nat

AllFaults == {"crash",    \* the server dies between two commits
              "lost",     \* an integrate frame or its answer is lost
              "refuse"}   \* a dispatch is refused: cap, resting or absent runtime

VARIABLES
  column,   \* the task's status
  assignee,
  dod,      \* every item of its definition of done is checked
  head,     \* the head of its pull request
  proof,    \* the head its newest proof was attached after
  merged,   \* the head GitHub has merged, 0 if none
  rows,     \* the agents with a run row on the task, oldest row first
  run,      \* run[a]: that row, and what the ledger holds of its turn
  thread,   \* a request being served: finish_run, a move, a merge result
  job,      \* a merge on the daemon
  proved,   \* history: the heads whose merge result passed the verify command
  closer,   \* history: who moved the task to done last
  moves, turns

vars == <<column, assignee, dod, head, proof, merged, rows, run, thread, job,
          proved, closer, moves, turns>>
task == <<column, assignee, dod, head, proof>>

Columns  == {"todo", "in_progress", "review", "done"}
Verdicts == {"approve", "reject"}

Position == [c \in Columns |-> CASE c = "todo" -> 1 [] c = "in_progress" -> 2
                                 [] c = "review" -> 3 [] c = "done" -> 4]

Row == [st      : {"none", "running", "over"},
        id      : 0..MaxTurns,
        decided : BOOLEAN,                   \* a driver event since the turn began
        demoted : BOOLEAN,                   \* a backward move out of review since then
        verdict : Verdicts \cup {"none"},    \* the latest review_verdict since then
        keys    : SUBSET Verdicts,           \* idempotency keys, one for each verdict
        said    : Verdicts \cup {"none"}]    \* history: what the turn submitted last

Thread == [pc   : {"idle", "drive", "log", "move", "assign", "dispatch", "send",
                   "manual", "report"},
           then : {"idle", "log"},           \* after the dispatch
           by   : Agents \cup {Nobody}, id : 0..MaxTurns,   \* the run it is about
           to   : Agents \cup {Nobody},      \* whom it hands the task to
           col  : Columns,                   \* the column it moves the task to
           skip : BOOLEAN,                   \* move without the gates
           said : Verdicts \cup {"none"},    \* history: run[by].said when it decided
           job  : Jobs \cup {0}]             \* the answer it serves

Job == [st   : {"none", "sent", "read", "ok", "fix", "stay", "reported", "gone"},
        by   : Agents \cup {Nobody}, id : 0..MaxTurns,
        head : 0..MaxHead,
        said : Verdicts \cup {"none"}]

FreshTurn == [st |-> "running", id |-> 0, decided |-> FALSE, demoted |-> FALSE,
              verdict |-> "none", keys |-> {}, said |-> "none"]
NoRow     == [FreshTurn EXCEPT !.st = "none"]
Idle      == [pc |-> "idle", then |-> "idle", by |-> Nobody, id |-> 0, to |-> Nobody,
              col |-> "todo", skip |-> FALSE, said |-> "none", job |-> 0]
NoJob     == [st |-> "none", by |-> Nobody, id |-> 0, head |-> 0, said |-> "none"]

Goes(d, r)  == thread' = [thread EXCEPT ![d] = r]
Over(d)     == Goes(d, Idle)
Becomes(d, pc) == IF pc = "idle" THEN Over(d) ELSE Goes(d, [thread[d] EXCEPT !.pc = pc])
Running(a)  == run[a].st = "running"
Members(s)  == {s[i] : i \in DOMAIN s}

-----------------------------------------------------------------------------
(* Checks, roles and budgets: pure reads.                                  *)

(* gates.evaluate with the checks of the two forward moves that have any.  *)
Evidence == dod /\ head > 0 /\ proof = head
GatePasses(from, to) ==
  CASE <<from, to>> \in {<<"in_progress", "review">>, <<"review", "done">>} -> Evidence
    [] <<from, to>> = <<"todo", "in_progress">> -> assignee # Nobody
    [] OTHER -> TRUE

(* pick_role_agent: someone the role matches, never `not`.                 *)
Picked(role, not) == IF role \ {not} = {} THEN {Nobody} ELSE role \ {not}

(* prior_run_by_other_agent: the newest row older than a's.                *)
Prior(a) ==
  LET before == {i \in DOMAIN rows : i + 1 \in DOMAIN rows /\ rows[i + 1] = a}
  IN  IF before = {} THEN Nobody ELSE rows[CHOOSE i \in before : TRUE]

(* count_agent_runs_since: rows created in the window, and a row is reused. *)
RecentRuns(b) == Cardinality({i \in DOMAIN rows : rows[i] = b})

(* Whom _hand_back_after_rejection gives the task to; Nobody: it escalates. *)
HandBackTo(a) ==
  LET b == Prior(a)
  IN  IF b = Nobody THEN Nobody ELSE IF RecentRuns(b) >= MaxAttempts THEN Nobody ELSE b

-----------------------------------------------------------------------------
(* Effects shared by several handlers.                                     *)

(* TaskService.move.  A move back past review is what a rejection is to    *)
(* every turn that has begun; a closed task remembers who closed it.       *)
Backward(to) == Position[to] < Position[column] /\ Position[to] < Position["review"]

MoveTo(to, who) ==
  /\ column' = to
  /\ closer' = IF to = "done" /\ column # "done" THEN who
               ELSE IF to # "done" THEN "none" ELSE closer
  /\ run' = IF Backward(to) THEN [a \in Agents |-> [run[a] EXCEPT !.demoted = TRUE]]
            ELSE run
  /\ UNCHANGED <<assignee, dod, head, proof>>

(* _log_driver_decision: a transition_events row of the run, if it is      *)
(* still the row of that id.                                               *)
Logged(a, id) == IF a # Nobody /\ run[a].id = id /\ run[a].st # "none"
                 THEN [run EXCEPT ![a].decided = TRUE] ELSE run

(* schedule_task_run: prepare resets the agent's row and dispatch starts   *)
(* its turn; a running row is left alone; a refused row is discarded.      *)

NextTurn(a) == [FreshTurn EXCEPT !.id = run[a].id, !.keys = run[a].keys]

StartTurn(a) ==
  /\ ~Running(a) /\ turns < MaxTurns
  /\ turns' = turns + 1
  /\ IF a \in Members(rows)
     THEN /\ run' = [run EXCEPT ![a] = NextTurn(a)]
          /\ UNCHANGED rows
     ELSE /\ run' = [run EXCEPT ![a] = [FreshTurn EXCEPT !.id = turns + 1]]
          /\ rows' = Append(rows, a)

RowsWithout(a) ==
  LET k == CHOOSE k \in DOMAIN rows : rows[k] = a
  IN  IF a \in Members(rows)
      THEN [i \in 1..(Len(rows) - 1) |-> rows[IF i < k THEN i ELSE i + 1]]
      ELSE rows

Discard(a) ==
  /\ ~Running(a) /\ "refuse" \in Faults
  /\ run' = [run EXCEPT ![a] = NoRow]
  /\ rows' = RowsWithout(a)
  /\ UNCHANGED turns

Schedule(a) == \/ StartTurn(a)
               \/ Discard(a)
               \/ /\ Running(a) \/ turns = MaxTurns
                  /\ UNCHANGED <<run, rows, turns>>

-----------------------------------------------------------------------------
(* Agents and people.                                                      *)

Init ==
  /\ column = "in_progress" /\ assignee \in Agents \ Reviewers
  /\ dod = FALSE /\ head = 0 /\ proof = 0 /\ merged = 0
  /\ rows = <<assignee>>
  /\ run = [a \in Agents |-> IF a = assignee THEN [FreshTurn EXCEPT !.id = 1] ELSE NoRow]
  /\ thread = [d \in Threads |-> Idle]
  /\ job = [j \in Jobs |-> NoJob]
  /\ proved = {} /\ closer = "none" /\ moves = 0 /\ turns = 1

(* A turn pushes to the pull request, with or without testing it again.    *)
Work(a) ==
  /\ Running(a) /\ head < MaxHead /\ merged = 0
  /\ head' = head + 1
  /\ proof' \in {proof, head + 1}
  /\ dod' = TRUE
  /\ UNCHANGED <<column, assignee, merged, rows, run, thread, job, proved, closer, moves, turns>>

(* record_review_verdict: one row for each (run, verdict), ever.           *)
Recorded(row, v) ==
  IF v \in row.keys THEN row
  ELSE [row EXCEPT !.verdict = v, !.keys = @ \cup {v}]

SubmitReview(a, v) ==
  /\ Running(a) /\ column = "review" /\ run[a].said # v
  /\ run' = [run EXCEPT ![a] = [Recorded(run[a], v) EXCEPT !.said = v]]
  /\ UNCHANGED <<task, merged, rows, thread, job, proved, closer, moves, turns>>

(* A reviewer demotes the task and unchecks items of its DoD.              *)
Reject(a) ==
  /\ Running(a) /\ column = "review" /\ moves < MaxMoves
  /\ moves' = moves + 1
  /\ column' = "in_progress" /\ dod' = FALSE /\ closer' = "none"
  /\ run' = [b \in Agents |-> [run[b] EXCEPT !.demoted = TRUE]]
  /\ UNCHANGED <<assignee, head, proof, merged, rows, thread, job, proved, turns>>

TurnEnds(a) ==
  /\ Running(a)
  /\ run' = [run EXCEPT ![a].st = "over"]
  /\ UNCHANGED <<task, merged, rows, thread, job, proved, closer, moves, turns>>

(* A person moves the task; the request goes on to dispatch_on_manual_move. *)
HumanMove(d, to) ==
  /\ thread[d].pc = "idle" /\ moves < MaxMoves /\ to # column
  /\ GatePasses(column, to)
  /\ moves' = moves + 1
  /\ MoveTo(to, "person")
  /\ Goes(d, [Idle EXCEPT !.pc = "manual", !.col = to])
  /\ UNCHANGED <<merged, rows, job, proved, turns>>

(* The agent of the column entered, kept if it is the assignee and fits.   *)
EntryAgent(to) ==
  CASE to = "review" -> IF assignee \in Reviewers THEN {assignee} ELSE Picked(Reviewers, assignee)
    [] to = "done"   -> IF assignee \in Writers THEN {assignee} ELSE Picked(Writers, Nobody)
    [] to = "in_progress" -> {assignee}
    [] OTHER -> {Nobody}

ManualDispatch(d) ==
  /\ thread[d].pc = "manual"
  /\ \E b \in EntryAgent(thread[d].col) :
       IF b = Nobody \/ \E a \in Agents : Running(a) THEN Over(d)
       ELSE Goes(d, [thread[d] EXCEPT !.to = b, !.pc = IF b = assignee THEN "dispatch" ELSE "assign"])
  /\ UNCHANGED <<task, merged, rows, run, job, proved, closer, moves, turns>>

-----------------------------------------------------------------------------
(* advance_after_run.                                                      *)

(* finish_run commits the outcome, then drives.                            *)
Finish(d, a) ==
  /\ Running(a) /\ thread[d].pc = "idle"
  /\ Goes(d, [Idle EXCEPT !.pc = "drive", !.by = a, !.id = run[a].id])
  /\ UNCHANGED <<task, merged, rows, run, job, proved, closer, moves, turns>>

(* What the one read session of the driver finds, in the code's order; the *)
(* thread's next step is the first commit of that outcome.                 *)
Skipped(a)  == run[a].decided
Demoted(a)  == ~Skipped(a) /\ run[a].demoted
Terminal(a) == ~Skipped(a) /\ ~Demoted(a) /\ column \in {"todo", "done"}
Unlinked(a) == ~Skipped(a) /\ ~Demoted(a) /\ column = "review" /\ head = 0
Unproven(a) == /\ ~Skipped(a) /\ ~Demoted(a) /\ column = "review" /\ head > 0
               /\ run[a].verdict # "approve"
Eligible(a) == /\ ~Skipped(a) /\ ~Demoted(a)
               /\ \/ column = "in_progress"
                  \/ column = "review" /\ head > 0 /\ run[a].verdict = "approve"

(* _bounce_gate_failure: a corrective run of the same agent, or, once the  *)
(* budget is spent, nothing more.                                          *)
Bounced(t, a) ==
  IF RecentRuns(a) >= MaxAttempts THEN [t EXCEPT !.pc = "log"]
  ELSE [t EXCEPT !.pc = "dispatch", !.to = a, !.then = "log"]

Decision(d, a) ==
  LET t == [thread[d] EXCEPT !.said = run[a].said] IN
  \/ /\ Skipped(a) \/ Unproven(a)
     /\ Over(d)
  \/ /\ Demoted(a)
     /\ Goes(d, IF HandBackTo(a) = Nobody THEN [t EXCEPT !.pc = "log"]
                ELSE [t EXCEPT !.pc = "assign", !.to = HandBackTo(a), !.then = "log"])
  \/ /\ Terminal(a) \/ Unlinked(a)
     /\ Goes(d, [t EXCEPT !.pc = "log"])
  \/ /\ Eligible(a) /\ ~Evidence
     /\ Goes(d, Bounced(t, a))
  \/ /\ Eligible(a) /\ Evidence /\ column = "review"
     /\ Goes(d, [t EXCEPT !.pc = "log", !.col = "done"])
  \/ /\ Eligible(a) /\ Evidence /\ column = "in_progress"
     /\ \E b \in Picked(Reviewers, a) :
          Goes(d, [t EXCEPT !.pc = "log", !.to = b, !.col = "review"])

Drive(d) ==
  LET t == thread[d] IN
  /\ t.pc = "drive"
  /\ IF run[t.by].st = "none" \/ run[t.by].id # t.id THEN Over(d) ELSE Decision(d, t.by)
  /\ UNCHANGED <<task, merged, rows, run, job, proved, closer, moves, turns>>

(* Mutant of AfterLog: an approval closes the task, the merge follows.     *)
AfterLogOnePhase(t) ==
  IF t.col = "done" \/ (t.to # Nobody /\ t.then = "idle") THEN "move" ELSE "idle"

AfterLog(t) ==
  CASE t.col = "done" -> "send"
    [] t.col = "review" /\ t.to # Nobody /\ t.then = "idle" -> "move"
    [] OTHER -> "idle"

(* The decision is committed before what it decides is done.               *)
Log(d) ==
  LET t == thread[d] IN
  /\ t.pc = "log"
  /\ run' = Logged(t.by, t.id)
  /\ Becomes(d, AfterLog(t))
  /\ UNCHANGED <<task, merged, rows, job, proved, closer, moves, turns>>

(* hub.dispatch_integrate: no outbox row, so an absent daemon loses it.    *)
Send(d) ==
  LET t == thread[d] IN
  /\ t.pc = "send"
  /\ \/ \E j \in Jobs, st \in {"sent"} \cup (IF "lost" \in Faults THEN {"gone"} ELSE {}) :
          /\ job[j].st = "none" /\ \A i \in Jobs : i < j => job[i].st # "none"
          /\ job' = [job EXCEPT ![j] = [NoJob EXCEPT !.st = st, !.by = t.by, !.id = t.id,
                                                     !.said = t.said]]
     \/ (\A j \in Jobs : job[j].st # "none") /\ UNCHANGED job
  /\ Over(d)
  /\ UNCHANGED <<task, merged, rows, run, proved, closer, moves, turns>>

(* move_task as the workflow: a gate that fails now ends the request.      *)
Move(d) ==
  LET t == thread[d] IN
  /\ t.pc = "move"
  /\ \/ /\ t.skip \/ GatePasses(column, t.col)
        /\ MoveTo(t.col, "workflow")
        /\ Becomes(d, IF t.to = Nobody THEN "idle"
                       ELSE IF t.col = "done" THEN "dispatch" ELSE "assign")
     \/ /\ ~t.skip /\ ~GatePasses(column, t.col)
        /\ Over(d)
        /\ UNCHANGED <<task, run, closer>>
  /\ UNCHANGED <<merged, rows, job, proved, moves, turns>>

Assign(d) ==
  /\ thread[d].pc = "assign"
  /\ assignee' = thread[d].to
  /\ Becomes(d, "dispatch")
  /\ UNCHANGED <<column, dod, head, proof, merged, rows, run, job, proved, closer, moves, turns>>

Dispatch(d) ==
  /\ thread[d].pc = "dispatch"
  /\ Schedule(thread[d].to)
  /\ Becomes(d, thread[d].then)
  /\ UNCHANGED <<task, merged, job, proved, closer, moves>>

(* The server dies between two commits of its requests.                    *)
Crash ==
  /\ "crash" \in Faults
  /\ \E d \in Threads : thread[d].pc # "idle"
  /\ thread' = [d \in Threads |-> Idle]
  /\ UNCHANGED <<task, merged, rows, run, job, proved, closer, moves, turns>>

-----------------------------------------------------------------------------
(* The merge on the daemon.                                                *)

(* It reads the pull request and fetches GitHub's test merge of its head.  *)
ReadPR(j) ==
  /\ job[j].st = "sent"
  /\ \/ merged # 0 /\ job' = [job EXCEPT ![j].st = "ok"]
     \/ merged = 0 /\ \E st \in {"read", "fix", "stay"} :
                         job' = [job EXCEPT ![j].st = st, ![j].head = head]
  /\ UNCHANGED <<task, merged, rows, run, thread, proved, closer, moves, turns>>

VerifyPasses(j) ==
  /\ job[j].st = "read" /\ job[j].head \notin proved
  /\ proved' = proved \cup {job[j].head}
  /\ UNCHANGED <<task, merged, rows, run, thread, job, closer, moves, turns>>

VerifyFails(j) ==
  /\ job[j].st = "read" /\ job[j].head \notin proved
  /\ job' = [job EXCEPT ![j].st = "fix"]
  /\ UNCHANGED <<task, merged, rows, run, thread, proved, closer, moves, turns>>

(* Mutant of PinHolds: the merge is not pinned to the head.                *)
Unpinned(j) == merged = 0

(* merge_pr is pinned to the head that was checked.                        *)
PinHolds(j) == merged = 0 /\ job[j].head = head

(* Mutant of Refused: a refused merge is tried again.                      *)
RefusedRetries(j) == "read"

Refused(j) == "stay"

MergePR(j) ==
  /\ job[j].st = "read" /\ job[j].head \in proved
  /\ \/ PinHolds(j) /\ merged' = head /\ job' = [job EXCEPT ![j].st = "ok"]
     \/ ~PinHolds(j) /\ job' = [job EXCEPT ![j].st = Refused(j)] /\ UNCHANGED merged
  /\ UNCHANGED <<task, rows, run, thread, proved, closer, moves, turns>>

(* post_integration_result: one try.                                       *)
Answered(j) == job[j].st \in {"ok", "fix", "stay"}

AnswerLost(j) ==
  /\ Answered(j) /\ "lost" \in Faults
  /\ job' = [job EXCEPT ![j].st = "gone"]
  /\ UNCHANGED <<task, merged, rows, run, thread, proved, closer, moves, turns>>

-----------------------------------------------------------------------------
(* complete_integration: everything is recomputed from the task's column.  *)

NextColumn(c) == IF c = "in_progress" THEN "review" ELSE "done"

(* Merged: the decision is committed, then the move, then the writer.      *)
Integrated(d, j) ==
  /\ job[j].st = "ok"
  /\ run' = Logged(job[j].by, job[j].id)
  /\ \E w \in (IF NextColumn(column) = "done" THEN Picked(Writers, Nobody) ELSE {Nobody}) :
       Goes(d, [Idle EXCEPT !.pc = "move", !.col = NextColumn(column), !.skip = TRUE, !.to = w])
  /\ UNCHANGED <<task, closer>>

(* The implementer's to fix, while the task is still in review: move it    *)
(* back, hand it back, dispatch, and log last.                             *)
HandedBack(d, j) ==
  /\ job[j].st = "fix" /\ column = "review" /\ run[job[j].by].id = job[j].id
  /\ MoveTo("in_progress", "workflow")
  /\ LET b == HandBackTo(job[j].by)
         t == [Idle EXCEPT !.by = job[j].by, !.id = job[j].id, !.then = "log"]
     IN  Goes(d, IF b = Nobody THEN [t EXCEPT !.pc = "log"]
                 ELSE [t EXCEPT !.pc = "assign", !.to = b])

(* Anything else stays where it is; the failure is a decision of the run.  *)
StaysPut(d, j) ==
  /\ \/ job[j].st = "stay"
     \/ job[j].st = "fix" /\ ~(column = "review" /\ run[job[j].by].id = job[j].id)
  /\ run' = Logged(job[j].by, job[j].id)
  /\ UNCHANGED <<task, closer, thread>>

CompleteIntegration(d, j) ==
  /\ thread[d].pc = "idle" /\ Answered(j)
  /\ Integrated(d, j) \/ HandedBack(d, j) \/ StaysPut(d, j)
  /\ job' = [job EXCEPT ![j].st = "reported"]
  /\ UNCHANGED <<merged, rows, proved, moves, turns>>

-----------------------------------------------------------------------------
Next ==
  \/ \E a \in Agents : Work(a) \/ Reject(a) \/ TurnEnds(a)
  \/ \E a \in Agents, v \in Verdicts : SubmitReview(a, v)
  \/ \E d \in Threads : \/ \E a \in Agents : Finish(d, a)
                        \/ \E c \in Columns : HumanMove(d, c)
                        \/ ManualDispatch(d) \/ Drive(d) \/ Log(d) \/ Send(d)
                        \/ Move(d) \/ Assign(d) \/ Dispatch(d)
                        \/ \E j \in Jobs : CompleteIntegration(d, j)
  \/ \E j \in Jobs : \/ ReadPR(j) \/ VerifyPasses(j) \/ VerifyFails(j)
                     \/ MergePR(j) \/ AnswerLost(j)
  \/ Crash

Spec == Init /\ [][Next]_vars

(* A request and a merge in progress go on by themselves, and an answer is *)
(* served as often as threads are free.                                    *)
Serve(d) == ManualDispatch(d) \/ Drive(d) \/ Log(d) \/ Send(d) \/ Move(d)
            \/ Assign(d) \/ Dispatch(d)
Daemon(j) == ReadPR(j) \/ VerifyPasses(j) \/ VerifyFails(j) \/ MergePR(j)

FairSpec == /\ Spec
            /\ \A d \in Threads : WF_vars(Serve(d))
            /\ \A j \in Jobs : /\ WF_vars(Daemon(j))
                               /\ SF_vars(\E d \in Threads : CompleteIntegration(d, j))

-----------------------------------------------------------------------------
(* Properties.                                                             *)

TypeOK ==
  /\ column \in Columns /\ assignee \in Agents /\ dod \in BOOLEAN
  /\ head \in 0..MaxHead /\ proof \in 0..head /\ merged \in 0..head
  /\ rows \in Seq(Agents) /\ \A i, k \in DOMAIN rows : rows[i] = rows[k] => i = k
  /\ \A a \in Agents : a \in Members(rows) <=> run[a].st # "none"
  /\ run \in [Agents -> Row] /\ thread \in [Threads -> Thread] /\ job \in [Jobs -> Job]
  /\ proved \subseteq 1..MaxHead /\ closer \in {"none", "person", "workflow"}
  /\ moves \in 0..MaxMoves /\ turns \in 1..MaxTurns

(* What GitHub merged is the very head whose merge result passed the       *)
(* project's verify command, however agents push while the check runs      *)
(* (_integrate_pr_locked).                                                 *)
MergedIsVerified == merged # 0 => merged \in proved

(* When the workflow itself closes the task the pull request is merged:    *)
(* no crash, lost answer, second request or move by hand in between makes  *)
(* complete_integration or the driver close an unmerged task.              *)
ClosedMeansMerged == closer = "workflow" => merged # 0

(* A merge that reached the daemon ends, and its answer is served, unless  *)
(* the network lost it.                                                    *)
MergesAreReported ==
  \A j \in Jobs : job[j].st = "sent" ~> job[j].st \in {"reported", "gone"}

(* The verdict a turn submitted last decides.  record_review_verdict keeps *)
(* one row for each (run, verdict) for ever, so a turn that approves and   *)
(* then rejects merges when an earlier turn of its row has rejected too.   *)
LastWordDecides == \A j \in Jobs : job[j].st # "none" => job[j].said = "approve"

(* A reviewer's approval is evidence.  For the same reason the second      *)
(* approval by one run row (the merge failed in between) is not recorded,  *)
(* and the merge is refused for want of one.                               *)
ApprovalCounts ==
  \A a \in Agents : Running(a) /\ run[a].said = "approve" => run[a].verdict # "none"

(* A run that failed the advance gate is bounced to its agent: a           *)
(* corrective turn starts.  finish_run is called in the turn it finishes,  *)
(* so prepare_task_run finds the row RUNNING and the dispatch is refused.  *)
BounceDispatches ==
  [][\A d \in Threads : (thread[d].pc = "dispatch" /\ thread[d].to = thread[d].by
                          /\ thread'[d].pc = "log") => turns' # turns]_vars

=============================================================================
