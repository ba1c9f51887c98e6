------------------------------ MODULE Conductor ------------------------------
(***************************************************************************)
(* The Conductor's queue (forge/conductor.py): the pickers that hand the   *)
(* todo tasks of a board to the agents they are assigned to.  run_tick is  *)
(* one job with one instance; tick_agent runs on the thread of whichever   *)
(* completion just freed an agent.  Both read, dispatch and claim in       *)
(* sessions of their own, while people assign, move, draft and start,      *)
(* turns end and runtimes rest.                                            *)
(*                                                                         *)
(* A task is its rank in the queue: priority first, then age.  The rows of *)
(* a task are kept in order of creation, one for each agent, since         *)
(* prepare_task_run reuses an agent's row.  All agents are managed, bound  *)
(* to one project and have a runtime.                                      *)
(***************************************************************************)
EXTENDS Integers, Sequences, FiniteSets

CONSTANTS
  Agents, Nobody,
  MaxTask,       \* the tasks are 1..MaxTask, the first is picked first
  Ticker,        \* the picker that is run_tick
  Wakers,        \* threads a completion can run tick_agent on
  Cap,           \* max_concurrent_runs
  MaxAttempts,   \* redispatch_max_attempts
  MaxActs,       \* bound: acts of people and of the planner
  MaxEnds,       \* bound: turns that end, limits that begin, crashes
  Acts,          \* which acts this instance has
  Faults         \* what it suffers

ASSUME PickerAssumption == Ticker \notin Wakers /\ Nobody \notin Agents
ASSUME CapAssumption == /\ Cap \in Nat \ {0} /\ MaxAttempts \in Nat \ {0}
                        /\ MaxTask \in Nat /\ MaxActs \in Nat /\ MaxEnds \in Nat

AllActs   == {"plan",    \* the planning turn or an MCP client assigns
              "assign",  \* a person assigns: PATCH /tasks also prepares a draft
              "start",   \* a person starts a draft
              "move",    \* a person or an agent moves the task
              "pause"}   \* a person pauses a run
AllFaults == {"crash",   \* the backend restarts
              "fail",    \* a turn fails or is cancelled
              "limit"}   \* a runtime hits its usage limit

Tasks   == 1..MaxTask
Pickers == {Ticker} \cup Wakers
Columns == {"todo", "in_progress", "other"}
Status  == {"none", "ready", "running", "paused", "completed", "failed"}

VARIABLES
  column,    \* column[t]
  assignee,  \* assignee[t]
  rows,      \* rows[t]: the agents with a run row on t, oldest row first
  run,       \* run[t][a]: the status of that row
  rested,    \* the failed rows whose cooldown has passed
  limited,   \* the agents whose runtime rests
  pick,      \* pick[p]: how far a picker is
  finished,  \* history: tasks whose newest run completed, until a person drafts one
  acts, ends

vars == <<column, assignee, rows, run, rested, limited, pick, finished, acts, ends>>
board == <<column, assignee>>
runs  == <<rows, run, rested>>

Pick == [pc    : {"idle", "visit", "prepare", "check", "start", "discard", "claim"},
         queue : SUBSET Agents,              \* agents still to visit
         agent : Agents \cup {Nobody},
         task  : Tasks \cup {0}]
Idle == [pc |-> "idle", queue |-> {}, agent |-> Nobody, task |-> 0]

Members(s) == {s[i] : i \in DOMAIN s}
At(p, pc)  == pick[p].pc = pc
Goes(p, r) == pick' = [pick EXCEPT ![p] = r]
Step(p, pc) == Goes(p, [pick[p] EXCEPT !.pc = pc])

(* On to the next agent of the tick.                                       *)
Next1(p) == Goes(p, IF pick[p].queue = {} THEN Idle
                    ELSE [Idle EXCEPT !.pc = "visit", !.queue = pick[p].queue])

-----------------------------------------------------------------------------
(* What a picker reads.                                                    *)

(* _agent_in_flight_count, and the count dispatch_pending_run caps.        *)
InFlight(a)     == Cardinality({t \in Tasks : run[t][a] \in {"running", "paused"}})
RunningOf(a, t) == Cardinality({u \in Tasks \ {t} : run[u][a] = "running"})

(* latest_runs_by_task: the newest row, whosever it is.                    *)
Latest(t) == IF rows[t] = <<>> THEN Nobody ELSE rows[t][Len(rows[t])]

(* Mutant of Recoverable: whatever is over may be picked again.            *)
RecoverableOrDone(t, b) ==
  /\ run[t][b] \in {"failed", "completed"}
  /\ Len(rows[t]) < MaxAttempts /\ (<<t, b>> \in rested \/ run[t][b] = "completed")

(* Failed or cancelled, past its cooldown, budget left.                    *)
Recoverable(t, b) ==
  /\ run[t][b] = "failed"
  /\ Len(rows[t]) < MaxAttempts /\ <<t, b>> \in rested

(* _task_run_eligible.                                                     *)
Eligible(t, a) ==
  LET b == Latest(t)
  IN  \/ b = Nobody
      \/ b = a /\ run[t][a] = "ready"
      \/ b # Nobody /\ Recoverable(t, b)

Candidates(a) == {t \in Tasks : column[t] = "todo" /\ assignee[t] = a}

(* Mutant of Choices: the head of the queue first, then its eligibility.   *)
HeadOnly(a) ==
  {t \in Candidates(a) : Eligible(t, a) /\ \A u \in Candidates(a) : t <= u}

(* pick_next_unblocked: of the eligible candidates the first by rank.      *)
Choices(a) ==
  LET fit == {t \in Candidates(a) : Eligible(t, a)}
  IN  {t \in fit : \A u \in fit : t <= u}

-----------------------------------------------------------------------------
Init ==
  /\ column = [t \in Tasks |-> "todo"]
  /\ assignee \in [Tasks -> Agents \cup {Nobody}]
  /\ rows = [t \in Tasks |-> <<>>]
  /\ run = [t \in Tasks |-> [a \in Agents |-> "none"]]
  /\ rested = {} /\ limited = {} /\ finished = {}
  /\ pick = [p \in Pickers |-> Idle]
  /\ acts = 0 /\ ends = 0

(* run_tick reads once which runtimes rest.                                *)
TickBegins ==
  /\ At(Ticker, "idle") /\ Agents \ limited # {}
  /\ Goes(Ticker, [Idle EXCEPT !.pc = "visit", !.queue = Agents \ limited])
  /\ UNCHANGED <<board, runs, limited, finished, acts, ends>>

(* Capacity and pick, one session.                                         *)
Visit(p) ==
  /\ At(p, "visit")
  /\ \E a \in pick[p].queue :
       LET rest == [pick[p] EXCEPT !.queue = @ \ {a}] IN
       IF InFlight(a) < Cap /\ Choices(a) # {}
       THEN \E t \in Choices(a) :
              Goes(p, [rest EXCEPT !.pc = "prepare", !.agent = a, !.task = t])
       ELSE Goes(p, IF rest.queue = {} THEN Idle ELSE rest)
  /\ UNCHANGED <<board, runs, limited, finished, acts, ends>>

(* prepare_task_run: the agent's row becomes a draft unless it is live.    *)
Drafted(t, a) ==
  IF run[t][a] \in {"running", "paused"} THEN UNCHANGED runs
  ELSE /\ run' = [run EXCEPT ![t][a] = "ready"]
       /\ rows' = IF a \in Members(rows[t]) THEN rows
                  ELSE [rows EXCEPT ![t] = Append(@, a)]
       /\ rested' = rested \ {<<t, a>>}

Prepare(p) ==
  /\ At(p, "prepare")
  /\ Drafted(pick[p].task, pick[p].agent)
  /\ Step(p, "check")
  /\ UNCHANGED <<board, limited, finished, acts, ends>>

(* dispatch_pending_run refuses: not a draft any more, at the cap, resting. *)
Dispatchable(t, a) ==
  run[t][a] = "ready" /\ RunningOf(a, t) < Cap /\ a \notin limited

Check(p) ==
  /\ At(p, "check")
  /\ Step(p, IF Dispatchable(pick[p].task, pick[p].agent) THEN "start" ELSE "discard")
  /\ UNCHANGED <<board, runs, limited, finished, acts, ends>>

(* start_run is unconditional, if the row still exists.                    *)
Start(p) ==
  LET t == pick[p].task a == pick[p].agent IN
  /\ At(p, "start")
  /\ run' = IF a \in Members(rows[t]) THEN [run EXCEPT ![t][a] = "running"] ELSE run
  /\ rested' = rested \ {<<t, a>>}
  /\ Step(p, "claim")
  /\ UNCHANGED <<board, rows, limited, finished, acts, ends>>

Withdrawn(t, a) ==
  LET k == CHOOSE k \in DOMAIN rows[t] : rows[t][k] = a
  IN  [i \in 1..(Len(rows[t]) - 1) |-> rows[t][IF i < k THEN i ELSE i + 1]]

(* discard_pending_run.                                                    *)
Discard(p) ==
  LET t == pick[p].task a == pick[p].agent IN
  /\ At(p, "discard")
  /\ IF run[t][a] = "ready"
     THEN /\ run' = [run EXCEPT ![t][a] = "none"]
          /\ rows' = [rows EXCEPT ![t] = Withdrawn(t, a)]
          /\ UNCHANGED rested
     ELSE UNCHANGED runs
  /\ Next1(p)
  /\ UNCHANGED <<board, limited, finished, acts, ends>>

(* The claim: in_progress, whatever the column is by now.                  *)
Claimed(t) == [column EXCEPT ![t] = "in_progress"]

Claim(p) ==
  /\ At(p, "claim")
  /\ column' = Claimed(pick[p].task)
  /\ Next1(p)
  /\ UNCHANGED <<assignee, runs, limited, finished, acts, ends>>

-----------------------------------------------------------------------------
(* Everybody else.                                                         *)

(* A turn outlasts the moments between a pick of its task and the claim.   *)
InHand(t) == \E p \in Pickers : pick[p].task = t

(* complete_trigger: the agent is free, its next task is pulled.           *)
TurnEnds(t, a, st) ==
  /\ run[t][a] = "running" /\ ~InHand(t)
  /\ st \in {"completed"} \cup (IF "fail" \in Faults THEN {"failed"} ELSE {})
  /\ run' = [run EXCEPT ![t][a] = st]
  /\ finished' = IF st = "completed" /\ Latest(t) = a THEN finished \cup {t} ELSE finished
  /\ \/ \E p \in Wakers : /\ At(p, "idle")
                          /\ Goes(p, [Idle EXCEPT !.pc = "visit", !.queue = {a}])
     \/ /\ \A p \in Wakers : ~At(p, "idle")
        /\ UNCHANGED pick
  /\ UNCHANGED <<board, rows, rested, limited, acts, ends>>

CoolsDown(t, a) ==
  /\ run[t][a] = "failed" /\ <<t, a>> \notin rested
  /\ rested' = rested \cup {<<t, a>>}
  /\ UNCHANGED <<board, rows, run, limited, pick, finished, acts, ends>>

Act(kind) == kind \in Acts /\ acts < MaxActs /\ acts' = acts + 1

(* TaskService.update, without and with fire_task_assigned.                *)
Plan(t, a) ==
  /\ Act("plan") /\ assignee[t] # a
  /\ assignee' = [assignee EXCEPT ![t] = a]
  /\ UNCHANGED <<column, runs, limited, pick, finished, ends>>

Assign(t, a) ==
  /\ Act("assign") /\ assignee[t] # a
  /\ assignee' = [assignee EXCEPT ![t] = a]
  /\ Drafted(t, a)
  /\ finished' = finished \ {t}
  /\ UNCHANGED <<column, limited, pick, ends>>

StartDraft(t, a) ==
  /\ Act("start") /\ Dispatchable(t, a)
  /\ run' = [run EXCEPT ![t][a] = "running"]
  /\ UNCHANGED <<board, rows, rested, limited, pick, finished, ends>>

Move(t, c) ==
  /\ Act("move") /\ column[t] # c
  /\ column' = [column EXCEPT ![t] = c]
  /\ UNCHANGED <<assignee, runs, limited, pick, finished, ends>>

Pause(t, a) ==
  /\ Act("pause") /\ run[t][a] = "running"
  /\ run' = [run EXCEPT ![t][a] = "paused"]
  /\ UNCHANGED <<board, rows, rested, limited, pick, finished, ends>>

Resume(t, a) ==
  /\ run[t][a] = "paused" /\ RunningOf(a, t) < Cap /\ a \notin limited
  /\ run' = [run EXCEPT ![t][a] = "running"]
  /\ UNCHANGED <<board, rows, rested, limited, pick, finished, acts, ends>>

Limit(a) ==
  /\ "limit" \in Faults /\ ends < MaxEnds /\ a \notin limited
  /\ limited' = limited \cup {a} /\ ends' = ends + 1
  /\ UNCHANGED <<board, runs, pick, finished, acts>>

LimitLifts(a) ==
  /\ a \in limited
  /\ limited' = limited \ {a}
  /\ UNCHANGED <<board, runs, pick, finished, acts, ends>>

Crash ==
  /\ "crash" \in Faults /\ ends < MaxEnds
  /\ \E p \in Pickers : ~At(p, "idle")
  /\ pick' = [p \in Pickers |-> Idle] /\ ends' = ends + 1
  /\ UNCHANGED <<board, runs, limited, finished, acts>>

-----------------------------------------------------------------------------
Picks(p) == Visit(p) \/ Prepare(p) \/ Check(p) \/ Start(p) \/ Discard(p) \/ Claim(p)

Next ==
  \/ TickBegins
  \/ \E p \in Pickers : Picks(p)
  \/ \E t \in Tasks, a \in Agents :
       \/ \E st \in Status : TurnEnds(t, a, st)
       \/ CoolsDown(t, a) \/ Plan(t, a) \/ Assign(t, a) \/ StartDraft(t, a)
       \/ Pause(t, a) \/ Resume(t, a)
  \/ \E t \in Tasks, c \in Columns : Move(t, c)
  \/ \E a \in Agents : Limit(a) \/ LimitLifts(a)
  \/ Crash

Spec == Init /\ [][Next]_vars

Ends(a) == \E t \in Tasks : TurnEnds(t, a, "completed") \/ TurnEnds(t, a, "failed")

(* The job fires again and again, threads go on, turns end, pauses are     *)
(* resumed, limits lift.                                                   *)
FairSpec ==
  /\ Spec
  /\ WF_vars(TickBegins) /\ \A p \in Pickers : WF_vars(Picks(p))
  /\ \A a \in Agents : /\ WF_vars(Ends(a)) /\ WF_vars(LimitLifts(a))
                       /\ WF_vars(\E t \in Tasks : Resume(t, a))
                       /\ WF_vars(\E t \in Tasks : CoolsDown(t, a))

-----------------------------------------------------------------------------
(* Properties.                                                             *)

TypeOK ==
  /\ column \in [Tasks -> Columns] /\ assignee \in [Tasks -> Agents \cup {Nobody}]
  /\ run \in [Tasks -> [Agents -> Status]]
  /\ rows \in [Tasks -> Seq(Agents)]
  /\ \A t \in Tasks : /\ \A i, k \in DOMAIN rows[t] : rows[t][i] = rows[t][k] => i = k
                      /\ \A a \in Agents : a \in Members(rows[t]) <=> run[t][a] # "none"
  /\ rested \subseteq {x \in Tasks \X Agents : run[x[1]][x[2]] = "failed"}
  /\ limited \subseteq Agents /\ finished \subseteq Tasks
  /\ pick \in [Pickers -> Pick] /\ acts \in 0..MaxActs /\ ends \in 0..MaxEnds

Starts(p) == At(p, "start") /\ pick'[p].pc = "claim"

(* The runaway guard: a task whose newest run completed is not dispatched  *)
(* by the Conductor again, whoever the planner gives it to, wherever it is *)
(* moved, and wherever a tick dies between dispatch and claim; only a      *)
(* person's fresh draft brings it back.                                    *)
CompletedStaysCompleted ==
  [][\A p \in Pickers : Starts(p) => pick[p].task \notin finished]_vars

(* A task waiting for its assignee, with no run yet or its assignee's own  *)
(* draft, does not wait for ever: nothing ahead of it in the queue, no     *)
(* limit, refusal or crash starves it.                                     *)
Waiting(t, a) ==
  /\ column[t] = "todo" /\ assignee[t] = a
  /\ Latest(t) = Nobody \/ (Latest(t) = a /\ run[t][a] = "ready")

AssignedIsDispatched ==
  \A t \in Tasks, a \in Agents : Waiting(t, a) ~> ~Waiting(t, a)

(* READY must not block the Conductor: a draft awaiting a start is no work *)
(* in flight.  A draft of an earlier assignee that is the newest row does  *)
(* block it, for ever.                                                     *)
OnlyDrafts(t) == \A a \in Agents : run[t][a] \in {"none", "ready"}

DraftsDoNotBlock ==
  \A t \in Tasks, a \in Agents :
    (column[t] = "todo" /\ assignee[t] = a /\ OnlyDrafts(t))
      ~> ~(column[t] = "todo" /\ assignee[t] = a /\ OnlyDrafts(t))

(* A tick moves the task on "so it is claimed exactly once": no picker     *)
(* starts a run that already runs.                                         *)
ClaimedOnce ==
  [][\A p \in Pickers : Starts(p) => run[pick[p].task][pick[p].agent] # "running"]_vars

(* The loop heals itself after a crash or a cancel without a human.  Its   *)
(* own claim takes the task out of todo, where alone it looks.             *)
FailureHeals ==
  \A t \in Tasks, a \in Agents :
    (run[t][a] = "failed" /\ Len(rows[t]) < MaxAttempts) ~> run[t][a] # "failed"
=============================================================================
