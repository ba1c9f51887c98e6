----------------------------- MODULE DaemonTurns -----------------------------
(***************************************************************************)
(* The turns one daemon executes (daemon/core.py, daemon/inflight.py,      *)
(* daemon/executor.py).                                                    *)
(*                                                                         *)
(* One loop thread takes frames from the socket's queue in order; a trigger*)
(* gets a thread of its own, which provisions, spawns the agent's          *)
(* subprocess, waits for it and posts the result.  A live turn is known in *)
(* three places: the in-memory _inflight entry (lost when the daemon dies),*)
(* the maps run -> trace and scope -> trace beside it, and a file per scope*)
(* which the next daemon reaps.  The subprocess leads a session of its own *)
(* and survives the daemon.                                                *)
(*                                                                         *)
(* A step of a thread is what runs between two points where another thread *)
(* or a crash can be seen.  Turn t is the t-th trace; a process id is never*)
(* reused; the turn of a runtime without a subprocess (ollama, openclaw)   *)
(* goes from "armed" to "ended".                                           *)
(***************************************************************************)
EXTENDS Naturals, FiniteSets

CONSTANTS
  MaxTurns,    \* bound: trigger frames ever received
  Scopes,      \* conversation scopes
  Runs,        \* run ids
  MaxActive,   \* _MAX_CONCURRENT_RUNS
  MaxStops,    \* bound: cancel and pause frames ever handled
  MaxCrashes,  \* bound: daemon deaths
  Faults       \* what this instance suffers

ASSUME BoundAssumption == /\ MaxTurns \in Nat \ {0} /\ MaxActive \in Nat \ {0}
                          /\ MaxStops \in Nat /\ MaxCrashes \in Nat
                          /\ Scopes # {} /\ Runs # {}

AllFaults == {"lost",      \* a completion post that fails
              "deaf",      \* a process that ignores SIGTERM
              "setup"}     \* provisioning that fails, a provider unknown here

Turns == 1..MaxTurns
None  == 0

VARIABLES
  daemon,   \* "up", "down", or "boot" while the orphans are reaped
  turn,     \* turn[t]: the thread of _execute and the turn's history
  entry,    \* entry[t]: _inflight[t]
  byRun,    \* _run_to_trace
  byScope,  \* _scope_to_trace
  proc,     \* proc[t]: the subprocess last spawned for t
  file,     \* file[s]: the trace in ~/.agentira/inflight/<s>.json
  env,      \* env[r]: the isolated environment of run r
  loop,     \* the record cancel_scope has killed and must still clear
  stops,    \* cancel and pause frames handled
  crashes   \* daemon deaths

vars == <<daemon, turn, entry, byRun, byScope, proc, file, env, loop, stops, crashes>>

Stage == {"new", "dropped", "setup", "armed", "spawned", "recording",
          "running", "ended", "popped", "clearing", "posting", "teardown",
          "done", "dead"}
Fate  == {"none", "setup", "cancelled", "paused", "normal"}

Turn == [st    : Stage,
         scope : Scopes, run : Runs,
         tries : 0..4,      \* which subprocess it is at
         fate  : Fate,      \* which completion the thread posts
         told  : Fate,      \* what the backend has received
         owed  : BOOLEAN,   \* history: it ended normally and its run is terminal
         asked : BOOLEAN,   \* history: a cancel frame for t came before its process was bound
         hit   : BOOLEAN,   \* history: a cancel frame found its entry
         kept  : BOOLEAN]   \* history: its record was on disk when the daemon died

Entry == [held : BOOLEAN, bound : BOOLEAN, cancelled : BOOLEAN, paused : BOOLEAN]

(* "deaf": it ignores SIGTERM, within the grace; "left": after it.         *)
Proc  == {"none", "alive", "term", "deaf", "left", "gone"}

NoEntry  == [held |-> FALSE, bound |-> FALSE, cancelled |-> FALSE, paused |-> FALSE]
NewEntry == [NoEntry EXCEPT !.held = TRUE]

Lives(t)   == proc[t] \in {"alive", "term", "deaf", "left"}
OnThread   == {"setup", "armed", "spawned", "recording", "running", "ended",
               "popped", "clearing", "posting", "teardown"}
Active     == {t \in Turns : turn[t].st \in OnThread}
Fresh      == {t \in Turns : /\ turn[t].st = "new"
                             /\ \A u \in Turns : turn[u].st = "new" => t <= u}
Goes(t, st) == turn' = [turn EXCEPT ![t].st = st]

-----------------------------------------------------------------------------
(* The loop thread: frames.                                                *)

(* _dispatch_task takes a slot of the semaphore without waiting; a frame   *)
(* that gets none is dropped with a warning.                               *)
Dispatch(t, s, r) ==
  /\ daemon = "up" /\ loop = None /\ t \in Fresh
  /\ turn' = [turn EXCEPT
       ![t].st = IF Cardinality(Active) < MaxActive THEN "setup" ELSE "dropped",
       ![t].scope = s, ![t].run = r]
  /\ UNCHANGED <<daemon, entry, byRun, byScope, proc, file, env, loop, stops, crashes>>

(* _signal_group: SIGTERM to the process group, if a process is bound.     *)
Signalled(t, s) ==
  IF entry[t].bound /\ proc[t] = "alive" THEN [proc EXCEPT ![t] = s] ELSE proc

(* What SIGTERM does to a process.                                         *)
Terminated == {"term"} \cup (IF "deaf" \in Faults THEN {"deaf"} ELSE {})

(* A stop frame names its trace, or only its run, or only its scope: the   *)
(* trace it resolves to, None if the map has none.                         *)
Resolved(t, how) == CASE how = "trace" -> t
                      [] how = "run"   -> byRun[turn[t].run]
                      [] how = "scope" -> byScope[turn[t].scope]

(* Mutant of Reaped: a process already told to stop is trusted to.         *)
ReapedPolitely(t) == IF proc[t] = "alive" THEN [proc EXCEPT ![t] = "gone"] ELSE proc

(* _kill_group: SIGTERM, then SIGKILL, to the group of a live process.     *)
Reaped(t) == IF Lives(t) THEN [proc EXCEPT ![t] = "gone"] ELSE proc

Found(x) == IF x = None THEN FALSE ELSE entry[x].held

(* Under the lock, _cancel marks the entry, bound or not.                  *)
Flagged(t) == [entry EXCEPT ![t].cancelled = TRUE]

Asked(t) ==
  [turn EXCEPT ![t].asked = @ \/ turn[t].st \in {"setup", "armed", "spawned"}]

(* _cancel of the turn t, which the frame names in one of three ways.      *)
(* Found in memory: mark it, signal its group.  Not found: kill what the   *)
(* scope's file records (cancel_scope), then clear the file.               *)
Cancel(t, how) ==
  /\ daemon = "up" /\ loop = None /\ stops < MaxStops /\ turn[t].st # "new"
  /\ stops' = stops + 1
  /\ LET x == Resolved(t, how)
         d == file[turn[t].scope] IN
     \/ /\ Found(x)
        /\ entry' = Flagged(x)
        /\ turn' = [Asked(t) EXCEPT ![x].hit = TRUE]
        /\ \E s \in Terminated : proc' = Signalled(x, s)
        /\ UNCHANGED loop
     \/ /\ ~Found(x)
        /\ turn' = Asked(t)
        /\ proc' = IF d = None THEN proc ELSE Reaped(d)
        /\ loop' = d
        /\ UNCHANGED entry
  /\ UNCHANGED <<daemon, byRun, byScope, file, env, crashes>>

(* cancel_scope's clear: only if the file still records what was killed.   *)
RegistryClear ==
  /\ daemon = "up" /\ loop # None
  /\ file' = [s \in Scopes |-> IF file[s] = loop THEN None ELSE file[s]]
  /\ loop' = None
  /\ UNCHANGED <<daemon, turn, entry, byRun, byScope, proc, env, stops, crashes>>

(* _signal_proc("pause"): mark and terminate; no fallback to the file.     *)
Pause(t, how) ==
  /\ daemon = "up" /\ loop = None /\ stops < MaxStops
  /\ turn[t].st # "new"
  /\ stops' = stops + 1
  /\ LET x == Resolved(t, how) IN
     /\ Found(x)
     /\ entry' = [entry EXCEPT ![x].paused = TRUE]
     /\ \E s \in Terminated : proc' = Signalled(x, s)
  /\ UNCHANGED <<daemon, turn, byRun, byScope, file, env, loop, crashes>>

(* The watchdog started with a SIGTERM asks proc.poll(), which an asyncio  *)
(* Process has not: the AttributeError is logged and no SIGKILL is sent.   *)
Watchdog(t) ==
  /\ proc[t] = "deaf" /\ daemon = "up"
  /\ proc' = [proc EXCEPT ![t] = "left"]
  /\ UNCHANGED <<daemon, turn, entry, byRun, byScope, file, env, loop, stops, crashes>>

-----------------------------------------------------------------------------
(* A turn's thread.                                                        *)

(* Clone, worktree, materialise or environment failed: reported, with no   *)
(* retry of the post.  An unknown provider returns without a word.         *)
SetupFails(t) ==
  /\ "setup" \in Faults /\ turn[t].st = "setup"
  /\ \E told \in {"setup", "none"} :
       turn' = [turn EXCEPT ![t].st = "done", ![t].fate = "setup", ![t].told = told]
  /\ UNCHANGED <<daemon, entry, byRun, byScope, proc, file, env, loop, stops, crashes>>

(* Provisioning done, the run's environment up: the entry is registered.   *)
Arm(t) ==
  /\ turn[t].st = "setup"
  /\ turn' = [turn EXCEPT ![t].st = "armed", ![t].tries = 1]
  /\ env'     = [env EXCEPT ![turn[t].run] = "up"]
  /\ entry'   = [entry EXCEPT ![t] = NewEntry]
  /\ byRun'   = [byRun EXCEPT ![turn[t].run] = t]
  /\ byScope' = [byScope EXCEPT ![turn[t].scope] = t]
  /\ UNCHANGED <<daemon, proc, file, loop, stops, crashes>>

(* create_subprocess_exec.                                                 *)
Spawn(t) ==
  /\ turn[t].st = "armed"
  /\ Goes(t, "spawned")
  /\ proc' = [proc EXCEPT ![t] = "alive"]
  /\ UNCHANGED <<daemon, entry, byRun, byScope, file, env, loop, stops, crashes>>

(* The runtime has no subprocess, or it cannot be started.                 *)
SpawnNothing(t) ==
  /\ turn[t].st = "armed" /\ turn[t].tries = 1
  /\ Goes(t, "ended")
  /\ UNCHANGED <<daemon, entry, byRun, byScope, proc, file, env, loop, stops, crashes>>

(* Mutant of KillsOnBind: only a first process is killed on bind.          *)
KillsOnFirstBind(t) == /\ entry[t].cancelled \/ entry[t].paused
                       /\ turn[t].tries = 1

(* on_proc: the user asked to stop before the process was bound.           *)
KillsOnBind(t) == entry[t].cancelled \/ entry[t].paused

(* on_proc(proc): bind under the lock; kill at once, or go on to record.   *)
Bind(t) ==
  /\ turn[t].st = "spawned"
  /\ entry' = [entry EXCEPT ![t].bound = TRUE]
  /\ IF KillsOnBind(t)
     THEN /\ Goes(t, "running")
          /\ \E s \in Terminated :
               proc' = IF proc[t] = "alive" THEN [proc EXCEPT ![t] = s] ELSE proc
     ELSE Goes(t, "recording") /\ UNCHANGED proc
  /\ UNCHANGED <<daemon, byRun, byScope, file, env, loop, stops, crashes>>

(* inflight.record: write and replace; one file per scope.                 *)
Record(t) ==
  /\ turn[t].st = "recording"
  /\ Goes(t, "running")
  /\ file' = [file EXCEPT ![turn[t].scope] = t]
  /\ UNCHANGED <<daemon, entry, byRun, byScope, proc, env, loop, stops, crashes>>

(* The process ends: by itself, or because it was told to.                 *)
Exit(t) ==
  /\ proc[t] \in {"alive", "term"}
  /\ proc' = [proc EXCEPT ![t] = "gone"]
  /\ UNCHANGED <<daemon, turn, entry, byRun, byScope, file, env, loop, stops, crashes>>

(* Mutant of Drained: the stream ends at a result frame, and a stopped     *)
(* process writes none.                                                    *)
DrainedByResult(t) == proc[t] = "gone" /\ ~entry[t].cancelled

Drained(t) == proc[t] = "gone"

(* Runtime.execute_turn: a --resume whose session is unknown is spawned    *)
(* once more without it.                                                   *)
SessionLost(t) == IF turn[t].tries \in {1, 3} THEN {turn[t].tries + 1} ELSE {}

(* ClaudeRuntime.execute_turn: a turn that ended with a background task    *)
(* alive is resumed once, as a third subprocess (or, its session lost, a   *)
(* fourth).                                                                *)
BackgroundLeft(t) == IF turn[t].tries <= 2 THEN {3} ELSE {}

(* Stdout closed and the process waited for: on_proc(None).                *)
StreamEnds(t) ==
  /\ turn[t].st = "running" /\ Drained(t)
  /\ \/ Goes(t, "ended")
     \/ \E n \in SessionLost(t) \cup BackgroundLeft(t) :
          turn' = [turn EXCEPT ![t].st = "armed", ![t].tries = n]
  /\ entry' = [entry EXCEPT ![t].bound = FALSE]
  /\ UNCHANGED <<daemon, byRun, byScope, proc, file, env, loop, stops, crashes>>

(* Mutant of ScopeFreed: the scope is freed without a look at its owner.   *)
ScopeFreedAlways(t) == [byScope EXCEPT ![turn[t].scope] = None]

(* A scope is freed only by the turn that holds it.                        *)
ScopeFreed(t) == [byScope EXCEPT ![turn[t].scope] = IF @ = t THEN None ELSE @]

(* Under the lock: the entry leaves, and with it the last word on whether  *)
(* this turn was cancelled or paused.  The run's mapping goes unasked.     *)
Pop(t) ==
  /\ turn[t].st = "ended"
  /\ turn' = [turn EXCEPT ![t].st = "popped",
                ![t].fate = IF entry[t].cancelled THEN "cancelled"
                            ELSE IF entry[t].paused THEN "paused" ELSE "normal"]
  /\ entry'   = [entry EXCEPT ![t] = NoEntry]
  /\ byRun'   = [byRun EXCEPT ![turn[t].run] = None]
  /\ byScope' = ScopeFreed(t)
  /\ UNCHANGED <<daemon, proc, file, env, loop, stops, crashes>>

(* inflight.clear reads the file and compares ...                          *)
ClearRead(t) ==
  /\ turn[t].st = "popped"
  /\ Goes(t, IF file[turn[t].scope] = t THEN "clearing" ELSE "posting")
  /\ UNCHANGED <<daemon, entry, byRun, byScope, proc, file, env, loop, stops, crashes>>

(* ... and then unlinks whatever is there.                                 *)
ClearUnlink(t) ==
  /\ turn[t].st = "clearing"
  /\ Goes(t, "posting")
  /\ file' = [file EXCEPT ![turn[t].scope] = None]
  /\ UNCHANGED <<daemon, entry, byRun, byScope, proc, env, loop, stops, crashes>>

(* post_trigger_complete, once: an exception is logged and the answer is   *)
(* taken as empty.  A cancelled turn tears its environment down whatever   *)
(* the answer; a normal one only if the answer names a worktree to clean   *)
(* up, and the backend's _worktree_cleanup_hint names none, whether the    *)
(* run is terminal or lives on.                                            *)
Post(t) ==
  /\ turn[t].st = "posting"
  /\ \E arrives \in {TRUE} \cup (IF "lost" \in Faults THEN {FALSE} ELSE {}) :
     \E terminal \in BOOLEAN :
       turn' = [turn EXCEPT
         ![t].told = IF arrives THEN turn[t].fate ELSE @,
         ![t].owed = turn[t].fate = "normal" /\ arrives /\ terminal,
         ![t].st = IF turn[t].fate = "cancelled" THEN "teardown" ELSE "done"]
  /\ UNCHANGED <<daemon, entry, byRun, byScope, proc, file, env, loop, stops, crashes>>

(* _teardown_env.                                                          *)
Teardown(t) ==
  /\ turn[t].st = "teardown"
  /\ Goes(t, "done")
  /\ env' = [env EXCEPT ![turn[t].run] = "down"]
  /\ UNCHANGED <<daemon, entry, byRun, byScope, proc, file, loop, stops, crashes>>

-----------------------------------------------------------------------------
(* Death and restart.                                                      *)

(* The daemon dies: its memory and threads go, processes and files stay.   *)
Crash ==
  /\ daemon # "down" /\ crashes < MaxCrashes
  /\ daemon' = "down" /\ crashes' = crashes + 1 /\ loop' = None
  /\ turn' = [t \in Turns |->
                [turn[t] EXCEPT !.st = IF @ \in OnThread THEN "dead" ELSE @,
                                !.kept = @ \/ file[turn[t].scope] = t]]
  /\ entry'   = [t \in Turns |-> NoEntry]
  /\ byRun'   = [r \in Runs |-> None]
  /\ byScope' = [s \in Scopes |-> None]
  /\ UNCHANGED <<proc, file, env, stops>>

Boot ==
  /\ daemon = "down" /\ daemon' = "boot"
  /\ UNCHANGED <<turn, entry, byRun, byScope, proc, file, env, loop, stops, crashes>>

(* reap_orphans, one record: kill, tear its environment down, clear.       *)
Reap(s) ==
  /\ daemon = "boot" /\ file[s] # None
  /\ proc' = Reaped(file[s])
  /\ env'  = [env EXCEPT ![turn[file[s]].run] = "down"]
  /\ file' = [file EXCEPT ![s] = None]
  /\ UNCHANGED <<daemon, turn, entry, byRun, byScope, loop, stops, crashes>>

(* run: the socket is opened only when every record has been reaped.       *)
Serve ==
  /\ daemon = "boot" /\ \A s \in Scopes : file[s] = None
  /\ daemon' = "up"
  /\ UNCHANGED <<turn, entry, byRun, byScope, proc, file, env, loop, stops, crashes>>

-----------------------------------------------------------------------------
Init ==
  /\ daemon = "boot"
  /\ turn = [t \in Turns |->
       [st |-> "new", scope |-> CHOOSE s \in Scopes : TRUE,
        run |-> CHOOSE r \in Runs : TRUE, tries |-> 0, fate |-> "none",
        told |-> "none", owed |-> FALSE, asked |-> FALSE, hit |-> FALSE,
        kept |-> FALSE]]
  /\ entry = [t \in Turns |-> NoEntry]
  /\ byRun = [r \in Runs |-> None] /\ byScope = [s \in Scopes |-> None]
  /\ proc = [t \in Turns |-> "none"] /\ file = [s \in Scopes |-> None]
  /\ env = [r \in Runs |-> "down"]
  /\ loop = None /\ stops = 0 /\ crashes = 0

Frame == \E t \in Turns :
  \/ \E s \in Scopes, r \in Runs : Dispatch(t, s, r)
  \/ \E how \in {"trace", "run", "scope"} : Cancel(t, how) \/ Pause(t, how)

Thread(t) == \/ SetupFails(t) \/ Arm(t) \/ Spawn(t) \/ SpawnNothing(t)
             \/ Bind(t) \/ Record(t) \/ StreamEnds(t) \/ Pop(t)
             \/ ClearRead(t) \/ ClearUnlink(t) \/ Post(t) \/ Teardown(t)

Startup == Boot \/ (\E s \in Scopes : Reap(s)) \/ Serve

Next == \/ Frame \/ RegistryClear \/ Startup \/ Crash
        \/ \E t \in Turns : Thread(t) \/ Exit(t) \/ Watchdog(t)

Spec == Init /\ [][Next]_vars

(* Threads are scheduled, a supervisor restarts the daemon, and a process  *)
(* that does not ignore SIGTERM ends: its own work is finite (max_turns).  *)
Fairness == /\ \A t \in Turns : /\ WF_vars(Thread(t)) /\ WF_vars(Exit(t))
                              /\ WF_vars(Watchdog(t))
            /\ WF_vars(RegistryClear) /\ WF_vars(Startup)

FairSpec == Spec /\ Fairness

-----------------------------------------------------------------------------
TypeOK ==
  /\ daemon \in {"up", "down", "boot"}
  /\ turn \in [Turns -> Turn]
  /\ entry \in [Turns -> Entry]
  /\ byRun \in [Runs -> Turns \cup {None}]
  /\ byScope \in [Scopes -> Turns \cup {None}]
  /\ proc \in [Turns -> Proc]
  /\ file \in [Scopes -> Turns \cup {None}]
  /\ env \in [Runs -> {"up", "down"}]
  /\ loop \in Turns \cup {None}
  /\ stops \in 0..MaxStops /\ crashes \in 0..MaxCrashes

(* A cancel that found the turn's entry decides what the backend is told:  *)
(* the turn is reported cancelled or not at all, whatever its process did  *)
(* meanwhile, and a process bound after the cancel has been told to stop.  *)
CancelDecides ==
  \A t \in Turns : turn[t].hit =>
    /\ turn[t].told \in {"none", "cancelled"}
    /\ turn[t].st = "running" => proc[t] # "alive"

(* A stop that names only its scope finds a turn that still has an entry,  *)
(* and keeps finding it until that turn leaves or a newer one is armed: an *)
(* older turn that finishes late takes nothing away (the guarded pop).     *)
ScopeFindsNewest ==
  [][\A s \in Scopes : byScope[s] # None =>
       /\ entry[byScope[s]].held
       /\ entry'[byScope[s]].held =>
            \/ byScope'[s] = byScope[s]
            \/ byScope'[s] \in {t \in Turns : turn[t].st = "setup"}]_vars

(* Once the daemon serves, no process survives whose record was on disk    *)
(* when a daemon died: those left running are the ones never recorded, or  *)
(* whose record another turn of the scope took.                            *)
RecordedOrphansReaped ==
  daemon = "up" => \A t \in Turns : turn[t].kept => ~Lives(t)

(* A turn that got a slot gives it back, whatever happens to the turns     *)
(* beside it - unless its process ignores SIGTERM for good.                *)
SlotsReturn ==
  \A t \in Turns :
    turn[t].st = "setup" ~> turn[t].st \in {"done", "dead"} \/ proc[t] = "left"

(* _cancel's doc string: if the process is not bound yet, "the cancelled   *)
(* flag is still set - on_proc kills it as soon as it's bound".            *)
EarlyCancelHonoured ==
  \A t \in Turns : turn[t].asked => turn[t].told # "normal"

(* "SIGTERM is followed by a SIGKILL watchdog so the cancel is actually    *)
(* reliable": a process told to stop is gone in the end.                   *)
StopIsReliable == \A t \in Turns : proc[t] = "deaf" ~> proc[t] = "gone"

(* "tear the run's env down here too ... the startup reaper backstops      *)
(* those from the persisted teardown ctx": the environment of a terminal   *)
(* run is down, or on disk for the reaper.                                 *)
OwedEnvIsRecorded ==
  \A t \in Turns : turn[t].owed /\ env[turn[t].run] = "up" =>
                     file[turn[t].scope] = t
=============================================================================
