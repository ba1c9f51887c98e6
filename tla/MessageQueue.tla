---------------------------- MODULE MessageQueue ----------------------------
(***************************************************************************)
(* The messages of one conversation, an (agent, task) pair                 *)
(* (forge/msg_queue.py, send_runtime_message and complete_trigger of       *)
(* forge/services.py).                                                     *)
(*                                                                         *)
(* A message typed while the task's run is RUNNING is queued; the request  *)
(* that records the end of a turn takes the oldest queued message and      *)
(* sends it as the next turn.  Every database session is a step of its own:*)
(* a request that read the run's status may act on it later.  The run is   *)
(* the one row a task's conversation has; its other fields are RunLifecycle*)
(***************************************************************************)
EXTENDS Naturals, Sequences, FiniteSets

CONSTANTS
  Messages,    \* typed by users
  NoMessage,   \* what an idle request carries
  Enders,      \* requests of complete_trigger that may be served at once
  MaxTurns,    \* bound: turns dispatched
  Faults       \* what this instance suffers

QueueAssumption == MaxTurns \in Nat \ {0} /\ NoMessage \notin Messages

AllFaults == {"crash",    \* a turn dies with the transient signature
              "stop",     \* pause and cancel requests
              "refuse",   \* dispatch refused: a resting runtime, no runtime
              "silent"}   \* a turn that never reports; the reconciler fails it

VARIABLES
  run,     \* status of the run, with its parked verdict
  live,    \* turns in flight
  turns,   \* turns dispatched so far
  queue,   \* forge_queued_messages of this conversation, by created_at
  at,      \* at[m]: where message m is
  ender    \* ender[h]: how far a completion request is, and what it carries

vars == <<run, live, turns, queue, at, ender>>

RunState == {"none", "running", "stopping", "paused", "parked", "over"}

(* "sender": its request has decided to queue or to dispatch it.           *)
Place == {"typed", "toQueue", "toSend", "queued", "taken", "toResend",
          "sent", "refused", "lost", "removed"}

Ender == [pc  : {"idle", "retry", "flush", "send"},
          msg : Messages \cup {NoMessage}]
Resting == [pc |-> "idle", msg |-> NoMessage]

Move(m, place) == at' = [at EXCEPT ![m] = place]
Idle(h)        == ender[h].pc = "idle"

-----------------------------------------------------------------------------
(* send_runtime_message.                                                   *)

(* What the status of the run means for a message: the first session.      *)
Verdict(status) ==
  CASE status = "stopping"                      -> "refused"
    [] status = "running"                       -> "toQueue"
    [] status \in {"none", "paused", "parked", "over"} -> "toSend"

(* A paused or parked run is flipped to RUNNING on the spot.               *)
Woken(status) == IF status \in {"paused", "parked"} THEN "running" ELSE status

Send(m) ==
  /\ at[m] = "typed"
  /\ Move(m, Verdict(run))
  /\ run' = Woken(run)
  /\ UNCHANGED <<live, turns, queue, ender>>

(* enqueue, in a session of its own.                                       *)
Enqueue(m) ==
  /\ at[m] = "toQueue"
  /\ queue' = Append(queue, m)
  /\ Move(m, "queued")
  /\ UNCHANGED <<run, live, turns, ender>>

(* dispatch_trigger flips the run to RUNNING and a turn is in flight.      *)
Started == /\ turns < MaxTurns
           /\ turns' = turns + 1 /\ live' = live + 1 /\ run' = "running"

Dispatch(m) ==
  /\ at[m] \in {"toSend", "toResend"}
  /\ \/ Started /\ Move(m, "sent")
     \/ /\ "refuse" \in Faults
        /\ Move(m, IF at[m] = "toSend" THEN "refused" ELSE "lost")
        /\ UNCHANGED <<run, live, turns>>
  /\ UNCHANGED <<queue, ender>>

(* The cross on a queued pill: remove.                                     *)
Remove(m) ==
  /\ at[m] = "queued"
  /\ queue' = SelectSeq(queue, LAMBDA n : n # m)
  /\ Move(m, "removed")
  /\ UNCHANGED <<run, live, turns, ender>>

-----------------------------------------------------------------------------
(* complete_trigger.                                                       *)

(* Mutant of FlushedAfter: a turn the user discarded does not flush.       *)
FlushedUnlessStopped(outcome) == outcome \in {"over", "parked", "crash"}

(* Which ends of a turn are followed by a flush: all but a pause.          *)
FlushedAfter(outcome) == outcome # "paused"

(* The daemon reports: the run is closed; a transient crash is retried     *)
(* before the queue is looked at.                                          *)
Report(h) ==
  /\ Idle(h) /\ live > 0
  /\ live' = live - 1
  /\ \E outcome \in (IF run = "stopping" THEN {"paused", "discarded"}
                     ELSE {"over", "parked"} \cup (Faults \cap {"crash"})) :
       /\ run' = CASE outcome \in {"over", "crash", "discarded"} -> "over"
                   [] outcome \in {"parked", "paused"} -> outcome
       /\ ender' = [ender EXCEPT ![h].pc =
                      IF ~FlushedAfter(outcome) THEN "idle"
                      ELSE IF outcome = "crash" THEN "retry" ELSE "flush"]
  /\ UNCHANGED <<turns, queue, at>>

(* _maybe_auto_retry: schedule_task_run starts the next turn, or gives up. *)
Retry(h) ==
  /\ ender[h].pc = "retry"
  /\ ender' = [ender EXCEPT ![h].pc = "flush"]
  /\ \/ run # "running" /\ Started
     \/ UNCHANGED <<run, live, turns>>
  /\ UNCHANGED <<queue, at>>

Dequeued(q) == Tail(q)

(* dequeue_oldest: the row is deleted before anything is done with it.     *)
Take(h) ==
  /\ ender[h].pc = "flush"
  /\ IF queue = <<>>
     THEN ender' = [ender EXCEPT ![h] = Resting] /\ UNCHANGED <<queue, at>>
     ELSE /\ ender' = [ender EXCEPT ![h] = [pc |-> "send", msg |-> Head(queue)]]
          /\ Move(Head(queue), "taken")
          /\ queue' = Dequeued(queue)
  /\ UNCHANGED <<run, live, turns>>

(* flush_next sends it like a typed message, but nobody reads the answer:  *)
(* behind a stop it is lost, behind a running turn it is queued anew, at   *)
(* the tail.                                                               *)
TakenGoes(status) == CASE Verdict(status) = "refused" -> "lost"
                       [] Verdict(status) = "toSend"  -> "toResend"
                       [] OTHER                       -> Verdict(status)

Flush(h) ==
  /\ ender[h].pc = "send"
  /\ LET m == ender[h].msg IN
       /\ Move(m, TakenGoes(run))
       /\ run' = Woken(run)
  /\ ender' = [ender EXCEPT ![h] = Resting]
  /\ UNCHANGED <<live, turns, queue>>

-----------------------------------------------------------------------------
(* The rest of the run's life, as far as it concerns the queue.            *)

StopRequest ==
  /\ "stop" \in Faults /\ run = "running"
  /\ run' = "stopping"
  /\ UNCHANGED <<live, turns, queue, at, ender>>

(* resume_run and schedule_task_run.                                       *)
Restart ==
  /\ run \in {"none", "paused", "over"} /\ Started
  /\ UNCHANGED <<queue, at, ender>>

(* The reconciler settles a stop without an ack; it pauses a silent run,   *)
(* to resume it, or fails it.  Neither flushes.                            *)
Reconcile ==
  /\ "silent" \in Faults /\ run \in {"running", "stopping"}
  /\ run' \in {"paused", "over"}
  /\ UNCHANGED <<turns, queue, at, ender, live>>

(* A turn the daemon never reports on.                                     *)
Vanish ==
  /\ "silent" \in Faults /\ live > 0
  /\ live' = live - 1
  /\ UNCHANGED <<run, turns, queue, at, ender>>

Init ==
  /\ run = "none" /\ live = 0 /\ turns = 0 /\ queue = <<>>
  /\ at = [m \in Messages |-> "typed"]
  /\ ender = [h \in Enders |-> Resting]

Request(m) == Enqueue(m) \/ Dispatch(m)
Handler(h) == Retry(h) \/ Take(h) \/ Flush(h)

Next == \/ \E m \in Messages : Send(m) \/ Request(m) \/ Remove(m)
        \/ \E h \in Enders : Report(h) \/ Handler(h)
        \/ StopRequest \/ Restart \/ Reconcile \/ Vanish

Spec == Init /\ [][Next]_vars

(* Requests run to their end, and turns end and are reported.              *)
Fairness == /\ \A m \in Messages : WF_vars(Request(m))
            /\ \A h \in Enders : WF_vars(Handler(h))
            /\ WF_vars(\E h \in Enders : Report(h))

FairSpec == Spec /\ Fairness

-----------------------------------------------------------------------------
TypeOK ==
  /\ run \in RunState
  /\ live \in 0..MaxTurns /\ turns \in 0..MaxTurns
  /\ at \in [Messages -> Place]
  /\ ender \in [Enders -> Ender]
  /\ queue \in Seq(Messages)
  /\ \A m \in Messages : (at[m] = "queued") <=> \E i \in DOMAIN queue : queue[i] = m

(* A message waiting at the head of the queue behind a turn in flight      *)
(* leaves it, one flush at a time; the user may pause the run instead.     *)
AtHead(m) == queue # <<>> /\ Head(queue) = m /\ live > 0
Moved(m)  == at[m] # "queued" \/ run = "paused" \/ Head(queue) # m

HeadLeaves == \A m \in Messages : AtHead(m) ~> Moved(m)

(* "a queued message survives even if the in-flight run is discarded": one *)
(* that was accepted into the queue is not lost.                           *)
QueuedSurvives == \A m \in Messages : at[m] # "lost"

(* "the queued message dispatches FIFO when the turn reaches a terminal    *)
(* state": a message in the table of an idle conversation has a request    *)
(* that will look at it.                                                   *)
NoneStranded ==
  queue # <<>> /\ run \in {"over", "parked"} /\ live = 0 =>
    \E h \in Enders : ~Idle(h)

(* "a queued message waits until the run actually ends": a run paused by   *)
(* the user is not woken by a message taken from the queue.                *)
PauseIsTheUsers ==
  [][run = "paused" /\ run' = "running" =>
       \A h \in Enders : ender[h].pc = "send" => ender'[h].pc = "send"]_vars
=============================================================================
