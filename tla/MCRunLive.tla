------------------------------ MODULE MCRunLive ------------------------------
(***************************************************************************)
(* Liveness of RunLifecycle on two instances, over the same variables: a   *)
(* behaviour picks one and is a behaviour of it.  In the first, two        *)
(* threads race to stop, resume and complete a run; in the second, one     *)
(* thread serves a daemon that goes silent and is limited.                 *)
(***************************************************************************)
EXTENDS Naturals, FiniteSets

VARIABLES part, run, turn, op, resting, linked, asked

Racing == INSTANCE RunLifecycle WITH
  Tasks <- {"t1"}, Workers <- {"w1", "w2"}, ResumeBudget <- 1, LimitPauses <- 1,
  MaxRuns <- 1, MaxTurns <- 2, MaxRequests <- 4, Cap <- 1, AutoRetryMax <- 1,
  Requests <- {"schedule", "pause", "cancel", "resume"}, Faults <- {"lost"}

Silent == INSTANCE RunLifecycle WITH
  Tasks <- {"t1"}, Workers <- {"w1"}, ResumeBudget <- 1, LimitPauses <- 1,
  MaxRuns <- 1, MaxTurns <- 2, MaxRequests <- 3, Cap <- 1, AutoRetryMax <- 1,
  Requests <- {"schedule", "chat", "pause", "resume", "sweep"},
  Faults <- {"silence", "slow", "limit", "lost"}

rows == <<run, turn, op, resting, linked, asked>>
vars == <<run, turn, op, resting, linked, asked, part>>

Init == \/ part = "racing" /\ Racing!Init
        \/ part = "silent" /\ Silent!Init

Next == /\ \/ part = "racing" /\ Racing!Next
           \/ part = "silent" /\ Silent!Next
        /\ UNCHANGED part

RacingFairness ==
  /\ \A w \in {"w1", "w2"} : /\ WF_rows(part = "racing" /\ Racing!Continue(w))
                             /\ WF_rows(part = "racing" /\ Racing!Reconcile(w))
                             /\ WF_rows(part = "racing" /\ Racing!LimitSweep(w))
  /\ WF_rows(part = "racing" /\ Racing!StopFallsDue(1))
  /\ WF_rows(part = "racing" /\ Racing!GoesStale(1))
  /\ WF_rows(part = "racing" /\ Racing!Heartbeat)
  /\ WF_rows(part = "racing" /\ Racing!LimitResets)

SilentFairness ==
  /\ WF_rows(part = "silent" /\ Silent!Continue("w1"))
  /\ WF_rows(part = "silent" /\ Silent!Reconcile("w1"))
  /\ WF_rows(part = "silent" /\ Silent!LimitSweep("w1"))
  /\ WF_rows(part = "silent" /\ Silent!StopFallsDue(1))
  /\ WF_rows(part = "silent" /\ Silent!GoesStale(1))
  /\ WF_rows(part = "silent" /\ Silent!Heartbeat)
  /\ WF_rows(part = "silent" /\ Silent!LimitResets)

FairSpec == Init /\ [][Next]_vars /\ RacingFairness /\ SilentFairness

(* The properties, under names a configuration can use.                    *)
StopLands            == part = "racing" => Racing!StopLands
SilentRunsSettle     == part = "silent" => Silent!SilentRunsSettle
WronglyFailedReturns == part = "silent" => Silent!WronglyFailedReturns
LimitPauseEnds       == part = "silent" => Silent!LimitPauseEnds
=============================================================================
