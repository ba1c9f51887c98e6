--------------------------- MODULE DaemonTurnsProofs ---------------------------
(***************************************************************************)
(* Theorems about DaemonTurns, for any number of turns, scopes and runs,   *)
(* every cap on the turns at once, and every set of faults.                *)
(***************************************************************************)
EXTENDS DaemonTurns, TLAPS

LEMMA Numbers ==
  /\ Turns \subseteq Nat
  /\ None \notin Turns
BY BoundAssumption DEF Turns, None

-----------------------------------------------------------------------------
(* Type correctness.                                                       *)

(* A turn with some of its fields changed is a turn.                       *)
LEMMA TurnEdits ==
  ASSUME NEW k \in Turn
  PROVE  /\ \A st \in Stage : [k EXCEPT !.st = st] \in Turn
         /\ \A st \in Stage, s \in Scopes, r \in Runs :
              [k EXCEPT !.st = st, !.scope = s, !.run = r] \in Turn
         /\ \A st \in Stage, fate \in Fate :
              [k EXCEPT !.st = st, !.fate = fate] \in Turn
         /\ \A st \in Stage, fate \in Fate, told \in Fate :
              [k EXCEPT !.st = st, !.fate = fate, !.told = told] \in Turn
         /\ \A st \in Stage, n \in 0..4 :
              [k EXCEPT !.st = st, !.tries = n] \in Turn
         /\ \A st \in Stage, told \in Fate, owed \in BOOLEAN :
              [k EXCEPT !.told = told, !.owed = owed, !.st = st] \in Turn
         /\ \A b \in BOOLEAN : /\ [k EXCEPT !.asked = b] \in Turn
                                /\ [k EXCEPT !.hit = b] \in Turn
         /\ \A st \in Stage, b \in BOOLEAN :
              [k EXCEPT !.st = st, !.kept = b] \in Turn
BY DEF Turn

(* The edits of the steps that touch one turn.                             *)
LEMMA TurnSteps ==
  ASSUME NEW f \in [Turns -> Turn], NEW t \in Turns
  PROVE  /\ \A st \in Stage : [f EXCEPT ![t].st = st] \in [Turns -> Turn]
         /\ \A st \in Stage, s \in Scopes, r \in Runs :
              [f EXCEPT ![t].st = st, ![t].scope = s, ![t].run = r] \in [Turns -> Turn]
         /\ \A st \in Stage, fate \in Fate :
              [f EXCEPT ![t].st = st, ![t].fate = fate] \in [Turns -> Turn]
         /\ \A st \in Stage, fate \in Fate, told \in Fate :
              [f EXCEPT ![t].st = st, ![t].fate = fate, ![t].told = told]
                \in [Turns -> Turn]
         /\ \A st \in Stage, n \in 0..4 :
              [f EXCEPT ![t].st = st, ![t].tries = n] \in [Turns -> Turn]
         /\ \A st \in Stage, told \in Fate, owed \in BOOLEAN :
              [f EXCEPT ![t].told = told, ![t].owed = owed, ![t].st = st]
                \in [Turns -> Turn]
         /\ \A b \in BOOLEAN : /\ [f EXCEPT ![t].asked = b] \in [Turns -> Turn]
                                /\ [f EXCEPT ![t].hit = b] \in [Turns -> Turn]
<1>1. f[t] \in Turn /\ \A k \in Turn : [f EXCEPT ![t] = k] \in [Turns -> Turn]
  OBVIOUS
<1> QED
  BY <1>1, TurnEdits

(* An entry that is bound, freed, cancelled or paused is an entry.         *)
LEMMA EntrySteps ==
  ASSUME NEW f \in [Turns -> Entry], NEW t \in Turns
  PROVE  /\ [f EXCEPT ![t] = NewEntry] \in [Turns -> Entry]
         /\ [f EXCEPT ![t] = NoEntry] \in [Turns -> Entry]
         /\ \A b \in BOOLEAN : /\ [f EXCEPT ![t].bound = b] \in [Turns -> Entry]
                                /\ [f EXCEPT ![t].cancelled = b] \in [Turns -> Entry]
                                /\ [f EXCEPT ![t].paused = b] \in [Turns -> Entry]
<1>1. f[t] \in Entry /\ \A k \in Entry : [f EXCEPT ![t] = k] \in [Turns -> Entry]
  OBVIOUS
<1>2. NoEntry \in Entry /\ NewEntry \in Entry
  BY DEF NoEntry, NewEntry, Entry
<1>3. \A b \in BOOLEAN : /\ [f[t] EXCEPT !.bound = b] \in Entry
                         /\ [f[t] EXCEPT !.cancelled = b] \in Entry
                         /\ [f[t] EXCEPT !.paused = b] \in Entry
  BY <1>1 DEF Entry
<1> QED
  BY <1>1, <1>2, <1>3

(* The trace a stop frame resolves to is a turn, or none.                  *)
LEMMA ResolvedType ==
  ASSUME TypeOK, NEW t \in Turns, NEW how \in {"trace", "run", "scope"}
  PROVE  Resolved(t, how) \in Turns \cup {None}
BY DEF TypeOK, Turn, Resolved

(* Signals and kills leave a process.                                      *)
LEMMA ProcType ==
  ASSUME TypeOK, NEW t \in Turns
  PROVE  /\ \A s \in Terminated : Signalled(t, s) \in [Turns -> Proc]
         /\ Reaped(t) \in [Turns -> Proc]
         /\ Terminated \subseteq Proc
BY DEF TypeOK, Signalled, Terminated, Reaped, Proc

(* The frames that reach a daemon.                                         *)
LEMMA FrameType ==
  ASSUME TypeOK, Frame
  PROVE  TypeOK'
<1>1. ASSUME NEW t \in Turns, NEW s \in Scopes, NEW r \in Runs, Dispatch(t, s, r)
      PROVE  TypeOK'
  <2>1. turn' \in [Turns -> Turn]
    <3> DEFINE st == IF Cardinality(Active) < MaxActive THEN "setup" ELSE "dropped"
               k  == [turn[t] EXCEPT !.st = st, !.scope = s, !.run = r]
    <3>1. turn[t] \in Turn /\ st \in Stage
      BY DEF TypeOK, Stage
    <3>2. turn' = [turn EXCEPT ![t] = k]
      BY <1>1 DEF Dispatch
    <3>3. k \in Turn
      <4> HIDE DEF st
      <4> QED
        BY <3>1, TurnEdits
    <3> HIDE DEF k
    <3> QED
      BY <3>2, <3>3 DEF TypeOK
  <2> QED
    BY <1>1, <2>1 DEF Dispatch, TypeOK
<1>2. ASSUME NEW t \in Turns, NEW how \in {"trace", "run", "scope"}, Cancel(t, how)
      PROVE  TypeOK'
  <2> DEFINE x == Resolved(t, how)
             d == file[turn[t].scope]
  <2>1. Asked(t) \in [Turns -> Turn]
    <3>1. (turn[t].asked \/ turn[t].st \in {"setup", "armed", "spawned"}) \in BOOLEAN
      BY DEF TypeOK, Turn
    <3> QED
      BY <3>1, TurnSteps DEF TypeOK, Asked
  <2>2. stops' \in 0..MaxStops
    BY <1>2, BoundAssumption DEF TypeOK, Cancel
  <2>3. CASE Found(x)
    <3>1. x \in Turns /\ TRUE \in BOOLEAN /\ entry \in [Turns -> Entry]
      BY <2>3, ResolvedType DEF Found, TypeOK
    <3> HIDE DEF x
    <3>2. turn' \in [Turns -> Turn]
      <4>1. turn' = [Asked(t) EXCEPT ![x].hit = TRUE]
        BY <1>2, <2>3 DEF Cancel, x
      <4> QED
        BY <2>1, <3>1, <4>1, TurnSteps, Zenon
    <3>3. entry' \in [Turns -> Entry]
      <4>1. entry' = [entry EXCEPT ![x].cancelled = TRUE]
        BY <1>2, <2>3 DEF Cancel, Flagged, x
      <4> QED
        BY <3>1, <4>1, EntrySteps, Zenon
    <3>4. proc' \in [Turns -> Proc]
      BY <1>2, <2>3, <3>1, ProcType DEF Cancel, x
    <3> QED
      BY <1>2, <2>2, <2>3, <3>2, <3>3, <3>4 DEF TypeOK, Cancel, x
  <2>4. CASE ~Found(x)
    <3>1. d \in Turns \cup {None}
      BY DEF TypeOK, Turn
    <3>2. proc' \in [Turns -> Proc]
      BY <1>2, <2>4, <3>1, ProcType DEF TypeOK, Cancel
    <3> QED
      BY <1>2, <2>1, <2>2, <2>4, <3>1, <3>2 DEF TypeOK, Cancel
  <2> QED
    BY <2>3, <2>4
<1>3. ASSUME NEW t \in Turns, NEW how \in {"trace", "run", "scope"}, Pause(t, how)
      PROVE  TypeOK'
  <2> DEFINE x == Resolved(t, how)
  <2>1. x \in Turns
    BY <1>3, ResolvedType DEF Pause, Found
  <2>2. stops' \in 0..MaxStops
    BY <1>3, BoundAssumption DEF TypeOK, Pause
  <2>3. entry' \in [Turns -> Entry]
    BY <1>3, <2>1, EntrySteps DEF TypeOK, Pause
  <2>4. proc' \in [Turns -> Proc]
    BY <1>3, <2>1, ProcType DEF Pause
  <2> QED
    BY <1>3, <2>2, <2>3, <2>4 DEF TypeOK, Pause
<1> QED
  BY <1>1, <1>2, <1>3 DEF Frame

(* The steps of a turn's thread.                                           *)
LEMMA ThreadType ==
  ASSUME TypeOK, NEW t \in Turns, Thread(t)
  PROVE  TypeOK'
<1> USE DEF TypeOK
<1>1. turn[t] \in Turn /\ turn \in [Turns -> Turn]
  OBVIOUS
<1>0. ASSUME NEW st \in Stage, Goes(t, st) PROVE turn' \in [Turns -> Turn]
  <2>1. turn' = [turn EXCEPT ![t].st = st]
    BY <1>0 DEF Goes
  <2> QED
    BY <1>1, <2>1, TurnSteps, Zenon
<1>2. CASE SetupFails(t)
  <2>1. "done" \in Stage /\ {"setup", "none"} \subseteq Fate
    BY DEF Stage, Fate
  <2>2. turn' \in [Turns -> Turn]
    <3>1. PICK told \in {"setup", "none"} :
            turn' = [turn EXCEPT ![t].st = "done", ![t].fate = "setup", ![t].told = told]
      BY <1>2 DEF SetupFails
    <3>2. "setup" \in Fate /\ told \in Fate
      BY <2>1
    <3> QED
      BY <1>1, <2>1, <3>1, <3>2, TurnSteps, ZenonT(40)
  <2> QED
    BY <1>2, <2>2 DEF SetupFails
<1>3. CASE Arm(t)
  <2>1. turn' \in [Turns -> Turn]
    <3>1. "armed" \in Stage /\ 1 \in 0..4
      BY DEF Stage
    <3> QED
      BY <1>1, <1>3, <3>1, TurnSteps, Zenon DEF Arm
  <2>2. turn[t].run \in Runs /\ turn[t].scope \in Scopes
    BY <1>1 DEF Turn
  <2> QED
    BY <1>3, <2>1, <2>2, EntrySteps DEF Arm
<1>4. CASE Spawn(t)
  BY <1>4, <1>0 DEF Spawn, Stage, Proc
<1>5. CASE SpawnNothing(t)
  BY <1>5, <1>0 DEF SpawnNothing, Stage
<1>6. CASE Bind(t)
  <2>1. proc' \in [Turns -> Proc]
    BY <1>6, ProcType DEF Bind
  <2>2. turn' \in [Turns -> Turn]
    BY <1>6, <1>0 DEF Bind, Stage
  <2>3. entry' \in [Turns -> Entry]
    BY <1>6, EntrySteps DEF Bind
  <2> QED
    BY <1>6, <2>1, <2>2, <2>3 DEF Bind
<1>7. CASE Record(t)
  BY <1>7, <1>0 DEF Record, Stage
<1>8. CASE StreamEnds(t)
  <2>1. SessionLost(t) \cup BackgroundLeft(t) \subseteq 0..4
    BY DEF SessionLost, BackgroundLeft, Turn
  <2>2. turn' \in [Turns -> Turn]
    <3>1. "armed" \in Stage /\ "ended" \in Stage
      BY DEF Stage
    <3>2. CASE Goes(t, "ended")
      BY <1>0, <3>1, <3>2
    <3>3. ASSUME NEW n \in 0..4, turn' = [turn EXCEPT ![t].st = "armed", ![t].tries = n]
          PROVE  turn' \in [Turns -> Turn]
      BY <1>1, <3>1, <3>3, TurnSteps, Zenon
    <3> QED
      BY <1>8, <2>1, <3>2, <3>3 DEF StreamEnds
  <2>3. entry' \in [Turns -> Entry]
    BY <1>8, EntrySteps DEF StreamEnds
  <2> QED
    BY <1>8, <2>2, <2>3 DEF StreamEnds
<1>9. CASE Pop(t)
  <2>1. turn' \in [Turns -> Turn]
    <3>1. /\ "popped" \in Stage
          /\ (IF entry[t].cancelled THEN "cancelled"
              ELSE IF entry[t].paused THEN "paused" ELSE "normal") \in Fate
      BY DEF Stage, Fate
    <3> QED
      BY <1>1, <1>9, <3>1, TurnSteps, Zenon DEF Pop
  <2>2. byScope' \in [Scopes -> Turns \cup {None}]
    BY <1>9 DEF Pop, ScopeFreed
  <2> QED
    BY <1>9, <2>1, <2>2, EntrySteps DEF Pop
<1>10. CASE ClearRead(t)
  BY <1>10, <1>0 DEF ClearRead, Stage
<1>11. CASE ClearUnlink(t)
  BY <1>11, <1>0 DEF ClearUnlink, Stage
<1>12. CASE Post(t)
  <2>1. turn' \in [Turns -> Turn]
    <3>1. PICK arrives \in BOOLEAN, terminal \in BOOLEAN :
            turn' = [turn EXCEPT
              ![t].told = IF arrives THEN turn[t].fate ELSE @,
              ![t].owed = turn[t].fate = "normal" /\ arrives /\ terminal,
              ![t].st = IF turn[t].fate = "cancelled" THEN "teardown" ELSE "done"]
      BY <1>12 DEF Post
    <3> DEFINE told == IF arrives THEN turn[t].fate ELSE turn[t].told
               owed == turn[t].fate = "normal" /\ arrives /\ terminal
               st   == IF turn[t].fate = "cancelled" THEN "teardown" ELSE "done"
    <3>2. told \in Fate /\ owed \in BOOLEAN /\ st \in Stage
      BY <1>1 DEF Turn, Stage
    <3>3. turn' = [turn EXCEPT ![t].told = told, ![t].owed = owed, ![t].st = st]
      BY <3>1
    <3> HIDE DEF told, owed, st
    <3> QED
      BY <1>1, <3>2, <3>3, TurnSteps, Zenon
  <2> QED
    BY <1>12, <2>1 DEF Post
<1>13. CASE Teardown(t)
  BY <1>13, <1>0 DEF Teardown, Stage
<1> QED
  BY <1>2, <1>3, <1>4, <1>5, <1>6, <1>7, <1>8, <1>9, <1>10, <1>11, <1>12,
     <1>13 DEF Thread

(* Type correctness, of every reachable state.                             *)
THEOREM TypeCorrect == Spec => []TypeOK
<1>1. Init => TypeOK
  BY BoundAssumption DEF Init, TypeOK, Turn, Stage, Fate, Entry, NoEntry, Proc
<1>2. TypeOK /\ [Next]_vars => TypeOK'
  <2> SUFFICES ASSUME TypeOK, [Next]_vars PROVE TypeOK'
    OBVIOUS
  <2>1. CASE Frame
    BY <2>1, FrameType
  <2>2. CASE RegistryClear
    BY <2>2 DEF RegistryClear, TypeOK
  <2>3. CASE Startup
    <3>1. CASE Boot
      BY <3>1 DEF Boot, TypeOK
    <3>2. ASSUME NEW s \in Scopes, Reap(s) PROVE TypeOK'
      <4>1. proc' \in [Turns -> Proc]
        BY <3>2, ProcType DEF Reap, TypeOK
      <4> QED
        BY <3>2, <4>1 DEF Reap, TypeOK
    <3>3. CASE Serve
      BY <3>3 DEF Serve, TypeOK
    <3> QED
      BY <2>3, <3>1, <3>2, <3>3 DEF Startup
  <2>4. CASE Crash
    <3>1. crashes' \in 0..MaxCrashes
      <4>1. crashes \in 0..MaxCrashes /\ crashes < MaxCrashes /\ crashes' = crashes + 1
        BY <2>4 DEF Crash, TypeOK
      <4> QED
        BY <4>1, BoundAssumption
    <3>2. turn' \in [Turns -> Turn]
      <4>1. ASSUME NEW t \in Turns PROVE turn'[t] \in Turn
        <5> DEFINE st == IF turn[t].st \in OnThread THEN "dead" ELSE turn[t].st
                   b  == turn[t].kept \/ file[turn[t].scope] = t
                   k  == [turn[t] EXCEPT !.st = st, !.kept = b]
        <5>1. st \in Stage /\ b \in BOOLEAN
          BY DEF TypeOK, Turn, Stage
        <5>2. k \in Turn
          BY <5>1, TurnEdits DEF TypeOK
        <5>3. turn'[t] = k
          BY <2>4 DEF Crash, TypeOK
        <5> QED
          BY <5>2, <5>3
      <4> QED
        BY <2>4, <4>1 DEF Crash
    <3> QED
      BY <2>4, <3>1, <3>2 DEF Crash, TypeOK, NoEntry, Entry
  <2>5. ASSUME NEW t \in Turns, Thread(t) PROVE TypeOK'
    BY <2>5, ThreadType
  <2>6. ASSUME NEW t \in Turns, Exit(t) PROVE TypeOK'
    BY <2>6 DEF Exit, TypeOK, Proc
  <2>7. ASSUME NEW t \in Turns, Watchdog(t) PROVE TypeOK'
    BY <2>7 DEF Watchdog, TypeOK, Proc
  <2>8. CASE UNCHANGED vars
    BY <2>8 DEF vars, TypeOK
  <2> QED
    BY <2>1, <2>2, <2>3, <2>4, <2>5, <2>6, <2>7, <2>8 DEF Next
<1> QED
  BY <1>1, <1>2, PTL DEF Spec

-----------------------------------------------------------------------------
(* A cancel that found the entry decides.                                  *)

Entered == {"armed", "spawned", "recording", "running", "ended"}
Early   == {"new", "dropped", "setup"}
Popped  == {"popped", "clearing", "posting"}

(* What a turn's entry, process and history say of each other: the entry   *)
(* is held from "armed" to "ended" and bound from Bind to the end of the   *)
(* stream, a cancel that hit is still in the entry while there is one and  *)
(* in the fate from then on, nothing is told before the post, and a bound  *)
(* process of a turn that was hit has been signalled.                      *)
CancelHeld(t) ==
  /\ entry[t].held <=> turn[t].st \in Entered
  /\ entry[t].bound <=> turn[t].st \in {"recording", "running"}
  /\ turn[t].st \in Early => ~turn[t].hit
  /\ turn[t].st \in Early \cup Entered \cup Popped => turn[t].told = "none"
  /\ turn[t].hit /\ turn[t].st \in Entered => entry[t].cancelled
  /\ turn[t].hit /\ turn[t].st \in Popped => turn[t].fate = "cancelled"
  /\ turn[t].hit => turn[t].told \in {"none", "cancelled"}
  /\ turn[t].hit /\ turn[t].st \in {"recording", "running"} => proc[t] # "alive"

CancelInv == \A t \in Turns : CancelHeld(t)

(* A step of one turn's thread keeps it: the other turns are not touched,  *)
(* and the turn itself moves by one stage.                                 *)
LEMMA ThreadCancel ==
  ASSUME TypeOK, CancelInv, NEW t \in Turns, Thread(t)
  PROVE  CancelInv'
<1> SUFFICES ASSUME NEW u \in Turns PROVE CancelHeld(u)'
  BY DEF CancelInv
<1>1. CancelHeld(u) /\ CancelHeld(t)
  BY DEF CancelInv
<1>2. /\ turn \in [Turns -> Turn] /\ entry \in [Turns -> Entry]
      /\ proc \in [Turns -> Proc]
  BY DEF TypeOK
<1> USE <1>1, <1>2 DEF CancelHeld, Entered, Early, Popped
<1>3. CASE SetupFails(t)
  BY <1>3 DEF SetupFails, Turn
<1>4. CASE Arm(t)
  BY <1>4 DEF Arm, NewEntry, NoEntry, Turn
<1>5. CASE Spawn(t)
  BY <1>5 DEF Spawn, Goes, Turn
<1>6. CASE SpawnNothing(t)
  BY <1>6 DEF SpawnNothing, Goes, Turn
<1>7. CASE Bind(t)
  BY <1>7 DEF Bind, Goes, Turn, Entry, KillsOnBind, Terminated
<1>8. CASE Record(t)
  BY <1>8 DEF Record, Goes, Turn
<1>9. CASE StreamEnds(t)
  BY <1>9 DEF StreamEnds, Goes, Turn, Entry, Drained
<1>10. CASE Pop(t)
  BY <1>10 DEF Pop, NoEntry, Turn, Entry
<1>11. CASE ClearRead(t)
  BY <1>11 DEF ClearRead, Goes, Turn
<1>12. CASE ClearUnlink(t)
  BY <1>12 DEF ClearUnlink, Goes, Turn
<1>13. CASE Post(t)
  BY <1>13 DEF Post, Turn
<1>14. CASE Teardown(t)
  BY <1>14 DEF Teardown, Goes, Turn
<1> QED
  BY <1>3, <1>4, <1>5, <1>6, <1>7, <1>8, <1>9, <1>10, <1>11, <1>12, <1>13,
     <1>14 DEF Thread

(* So does every other step of the system.                                 *)
LEMMA StepCancel ==
  ASSUME TypeOK, CancelInv, [Next]_vars
  PROVE  CancelInv'
<1> SUFFICES ASSUME NEW u \in Turns PROVE CancelHeld(u)'
  BY DEF CancelInv
<1>1. /\ turn \in [Turns -> Turn] /\ entry \in [Turns -> Entry]
      /\ proc \in [Turns -> Proc] /\ file \in [Scopes -> Turns \cup {None}]
  BY DEF TypeOK
<1>2. CancelHeld(u)
  BY DEF CancelInv
<1> USE DEF CancelHeld, Entered, Early, Popped
<1>3. ASSUME NEW t \in Turns, NEW s \in Scopes, NEW r \in Runs, Dispatch(t, s, r)
      PROVE  CancelHeld(u)'
  BY <1>1, <1>2, <1>3 DEF Dispatch, Turn, Fresh
<1>4. ASSUME NEW t \in Turns, NEW how \in {"trace", "run", "scope"}, Cancel(t, how)
      PROVE  CancelHeld(u)'
  <2> DEFINE x == Resolved(t, how)
             d == file[turn[t].scope]
  <2>1. CASE Found(x)
    <3>1. x \in Turns
      BY <2>1, ResolvedType DEF Found
    <3>2. CancelHeld(x)
      BY <3>1 DEF CancelInv
    <3> HIDE DEF x
    <3>3. /\ turn' = [Asked(t) EXCEPT ![x].hit = TRUE]
          /\ entry' = [entry EXCEPT ![x].cancelled = TRUE]
          /\ \E z \in Terminated : proc' = Signalled(x, z)
          /\ entry[x].held
      BY <1>4, <2>1 DEF Cancel, Flagged, Found, x
    <3>4. /\ turn'[u].st = turn[u].st /\ turn'[u].told = turn[u].told
          /\ turn'[u].fate = turn[u].fate
          /\ turn'[u].hit = IF u = x THEN TRUE ELSE turn[u].hit
      BY <1>1, <3>1, <3>3, ZenonT(40) DEF Asked, Turn
    <3>5. /\ entry'[u].held = entry[u].held /\ entry'[u].bound = entry[u].bound
          /\ entry'[u].cancelled = IF u = x THEN TRUE ELSE entry[u].cancelled
      BY <1>1, <3>1, <3>3 DEF Entry
    <3>6. /\ proc'[u] = "alive" => proc[u] = "alive"
          /\ u = x /\ entry[u].bound => proc'[u] # "alive"
      BY <1>1, <3>1, <3>3 DEF Signalled, Terminated
    <3> QED
      BY <1>2, <3>2, <3>3, <3>4, <3>5, <3>6
  <2>2. CASE ~Found(x)
    <3>1. d \in Turns \cup {None}
      BY <1>1 DEF Turn
    <3>2. turn' = Asked(t) /\ UNCHANGED entry /\ proc' = IF d = None THEN proc ELSE Reaped(d)
      BY <1>4, <2>2 DEF Cancel
    <3>3. proc'[u] = proc[u] \/ proc'[u] = "gone"
      BY <1>1, <3>1, <3>2 DEF Reaped
    <3> QED
      BY <1>1, <1>2, <3>2, <3>3 DEF Asked, Turn
  <2> QED
    BY <2>1, <2>2
<1>5. ASSUME NEW t \in Turns, NEW how \in {"trace", "run", "scope"}, Pause(t, how)
      PROVE  CancelHeld(u)'
  <2>1. Resolved(t, how) \in Turns
    BY <1>5, ResolvedType DEF Pause, Found
  <2> QED
    BY <1>1, <1>2, <1>5, <2>1 DEF Pause, Signalled, Terminated, Entry
<1>6. CASE RegistryClear
  BY <1>2, <1>6 DEF RegistryClear
<1>7. CASE Boot
  BY <1>2, <1>7 DEF Boot
<1>8. ASSUME NEW s \in Scopes, Reap(s) PROVE CancelHeld(u)'
  <2>1. proc'[u] = proc[u] \/ proc'[u] = "gone"
    BY <1>1, <1>8 DEF Reap, Reaped
  <2> QED
    BY <1>2, <1>8, <2>1 DEF Reap
<1>9. CASE Serve
  BY <1>2, <1>9 DEF Serve
<1>10. CASE Crash
  BY <1>1, <1>2, <1>10 DEF Crash, OnThread, NoEntry, Turn, Stage
<1>11. ASSUME NEW t \in Turns, Thread(t) PROVE CancelHeld(u)'
  BY <1>11, ThreadCancel DEF CancelInv
<1>12. ASSUME NEW t \in Turns, Exit(t) PROVE CancelHeld(u)'
  BY <1>1, <1>2, <1>12 DEF Exit
<1>13. ASSUME NEW t \in Turns, Watchdog(t) PROVE CancelHeld(u)'
  BY <1>1, <1>2, <1>13 DEF Watchdog
<1>14. CASE UNCHANGED vars
  BY <1>2, <1>14 DEF vars
<1> QED
  BY <1>3, <1>4, <1>5, <1>6, <1>7, <1>8, <1>9, <1>10, <1>11, <1>12, <1>13,
     <1>14 DEF Next, Frame, Startup

(* A cancel that found the turn's entry decides what the backend is told,  *)
(* and no process bound to such a turn is left running: _cancel in         *)
(* daemon/core.py against on_proc and the pop, on every interleaving.      *)
THEOREM CancelsDecide == Spec => []CancelDecides
<1>1. Init => CancelInv
  BY DEF Init, CancelInv, CancelHeld, Entered, Early, Popped, NoEntry
<1>2. TypeOK /\ CancelInv /\ [Next]_vars => CancelInv'
  BY StepCancel
<1>3. CancelInv => CancelDecides
  BY DEF CancelInv, CancelHeld, CancelDecides
<1> QED
  BY <1>1, <1>2, <1>3, TypeCorrect, PTL DEF Spec

-----------------------------------------------------------------------------
(* The next daemon reaps what was recorded.                                *)

Recordable == {"armed", "spawned", "recording", "running", "ended", "popped",
               "clearing", "dead"}

(* Threads run only in a daemon that is up; a record names a turn of its   *)
(* scope that has not cleared it; and a turn whose record was on disk when *)
(* a daemon died lies dead, its process either gone or still recorded      *)
(* until the next daemon is up.                                            *)
OrphanInv ==
  /\ daemon # "up" => \A t \in Turns : turn[t].st \notin OnThread
  /\ \A s \in Scopes : file[s] # None =>
       turn[file[s]].scope = s /\ turn[file[s]].st \in Recordable
  /\ \A t \in Turns : turn[t].kept =>
       /\ turn[t].st = "dead"
       /\ Lives(t) => daemon # "up" /\ file[turn[t].scope] = t

(* A step of a turn's thread keeps it.                                     *)
LEMMA ThreadOrphan ==
  ASSUME TypeOK, OrphanInv, NEW t \in Turns, Thread(t)
  PROVE  OrphanInv'
<1>1. /\ turn \in [Turns -> Turn] /\ turn[t] \in Turn
      /\ proc \in [Turns -> Proc] /\ file \in [Scopes -> Turns \cup {None}]
      /\ turn[t].scope \in Scopes
  BY DEF TypeOK, Turn
<1>2. turn[t].st \in OnThread /\ UNCHANGED daemon
  BY DEF Thread, SetupFails, Arm, Spawn, SpawnNothing, Bind, Record, StreamEnds,
         Pop, ClearRead, ClearUnlink, Post, Teardown, OnThread
<1>3. daemon = "up" /\ daemon' = "up" /\ ~turn[t].kept
  BY <1>2 DEF OrphanInv, OnThread, TypeOK
<1>4. ASSUME NEW u \in Turns, u # t
      PROVE  turn'[u] = turn[u] /\ proc'[u] = proc[u]
  BY <1>1, <1>4 DEF Thread, SetupFails, Arm, Spawn, SpawnNothing, Bind, Record,
     StreamEnds, Pop, ClearRead, ClearUnlink, Post, Teardown, Goes
<1>5. turn'[t].kept = turn[t].kept /\ turn'[t].scope = turn[t].scope
  <2>1. CASE SetupFails(t)
    BY <1>1, <2>1 DEF SetupFails, Goes, Turn
  <2>2. CASE Arm(t)
    BY <1>1, <2>2 DEF Arm, Goes, Turn
  <2>3. CASE Spawn(t)
    BY <1>1, <2>3 DEF Spawn, Goes, Turn
  <2>4. CASE SpawnNothing(t)
    BY <1>1, <2>4 DEF SpawnNothing, Goes, Turn
  <2>5. CASE Bind(t)
    BY <1>1, <2>5 DEF Bind, Goes, Turn
  <2>6. CASE Record(t)
    BY <1>1, <2>6 DEF Record, Goes, Turn
  <2>7. CASE StreamEnds(t)
    BY <1>1, <2>7 DEF StreamEnds, Goes, Turn
  <2>8. CASE Pop(t)
    BY <1>1, <2>8 DEF Pop, Goes, Turn
  <2>9. CASE ClearRead(t)
    BY <1>1, <2>9 DEF ClearRead, Goes, Turn
  <2>10. CASE ClearUnlink(t)
    BY <1>1, <2>10 DEF ClearUnlink, Goes, Turn
  <2>11. CASE Post(t)
    BY <1>1, <2>11 DEF Post, Goes, Turn
  <2>12. CASE Teardown(t)
    BY <1>1, <2>12 DEF Teardown, Goes, Turn
  <2> QED
    BY <2>1, <2>2, <2>3, <2>4, <2>5, <2>6, <2>7, <2>8, <2>9, <2>10, <2>11, <2>12 DEF Thread
<1>6. ASSUME NEW u \in Turns, turn'[u].kept
      PROVE  turn'[u].st = "dead" /\ (Lives(u) => FALSE)'
  BY <1>3, <1>4, <1>5, <1>6 DEF OrphanInv, Lives
<1>7. ASSUME NEW s \in Scopes, file'[s] # None
      PROVE  turn'[file'[s]].scope = s /\ turn'[file'[s]].st \in Recordable
  <2>1. CASE file'[s] # t
    <3>1. file'[s] = file[s]
      BY <1>1, <1>7, <2>1 DEF Thread, SetupFails, Arm, Spawn, SpawnNothing, Bind,
         Record, StreamEnds, Pop, ClearRead, ClearUnlink, Post, Teardown
    <3> QED
      BY <1>1, <1>4, <1>7, <2>1, <3>1 DEF OrphanInv
  <2>2. CASE file'[s] = t
    <3>1. turn[t].scope = s
      BY <1>1, <1>7, <2>2 DEF OrphanInv, Thread, SetupFails, Arm, Spawn,
         SpawnNothing, Bind, Record, StreamEnds, Pop, ClearRead, ClearUnlink,
         Post, Teardown
    <3>2. turn'[t].st \in Recordable
      <4>1. file[s] = t => turn[t].st \in Recordable
        BY <1>1, <3>1, Numbers DEF OrphanInv
      <4> USE DEF Recordable
      <4>2. CASE SetupFails(t)
        BY <1>1, <1>7, <2>2, <3>1, <4>1, <4>2 DEF SetupFails, Goes, Turn
      <4>3. CASE Arm(t)
        BY <1>1, <1>7, <2>2, <3>1, <4>1, <4>3 DEF Arm, Goes, Turn
      <4>4. CASE Spawn(t)
        BY <1>1, <1>7, <2>2, <3>1, <4>1, <4>4 DEF Spawn, Goes, Turn
      <4>5. CASE SpawnNothing(t)
        BY <1>1, <1>7, <2>2, <3>1, <4>1, <4>5 DEF SpawnNothing, Goes, Turn
      <4>6. CASE Bind(t)
        BY <1>1, <1>7, <2>2, <3>1, <4>1, <4>6 DEF Bind, Goes, Turn
      <4>7. CASE Record(t)
        BY <1>1, <1>7, <2>2, <3>1, <4>1, <4>7 DEF Record, Goes, Turn
      <4>8. CASE StreamEnds(t)
        BY <1>1, <1>7, <2>2, <3>1, <4>1, <4>8 DEF StreamEnds, Goes, Turn
      <4>9. CASE Pop(t)
        BY <1>1, <1>7, <2>2, <3>1, <4>1, <4>9 DEF Pop, Goes, Turn
      <4>10. CASE ClearRead(t)
        BY <1>1, <1>7, <2>2, <3>1, <4>1, <4>10 DEF ClearRead, Goes, Turn
      <4>11. CASE ClearUnlink(t)
        BY <1>1, <1>7, <2>2, <3>1, <4>1, <4>11 DEF ClearUnlink, Goes, Turn
      <4>12. CASE Post(t)
        BY <1>1, <1>7, <2>2, <3>1, <4>1, <4>12 DEF Post, Goes, Turn
      <4>13. CASE Teardown(t)
        BY <1>1, <1>7, <2>2, <3>1, <4>1, <4>13 DEF Teardown, Goes, Turn
      <4> QED
        BY <4>2, <4>3, <4>4, <4>5, <4>6, <4>7, <4>8, <4>9, <4>10, <4>11, <4>12, <4>13 DEF Thread
    <3> QED
      BY <1>5, <2>2, <3>1, <3>2
  <2> QED
    BY <2>1, <2>2
<1> QED
  BY <1>3, <1>6, <1>7 DEF OrphanInv

(* A record that is killed has its process gone, and no other changes.     *)
LEMMA KillsOnly ==
  ASSUME proc \in [Turns -> Proc], NEW t \in Turns, NEW u \in Turns,
         proc' = Reaped(t)
  PROVE  /\ Lives(u)' => Lives(u)
         /\ ~Lives(t)'
BY DEF Reaped, Lives, Proc

(* So does every other step of the system.                                 *)
LEMMA StepOrphan ==
  ASSUME TypeOK, OrphanInv, [Next]_vars
  PROVE  OrphanInv'
<1>1. /\ turn \in [Turns -> Turn] /\ proc \in [Turns -> Proc]
      /\ file \in [Scopes -> Turns \cup {None}]
      /\ loop \in Turns \cup {None} /\ daemon \in {"up", "down", "boot"}
  BY DEF TypeOK
<1>2. ASSUME NEW t \in Turns, NEW s \in Scopes, NEW r \in Runs, Dispatch(t, s, r)
      PROVE  OrphanInv'
  <2>1. daemon = "up" /\ turn[t].st = "new" /\ UNCHANGED <<daemon, proc, file>>
    BY <1>2 DEF Dispatch, Fresh
  <2>2. ASSUME NEW u \in Turns, u # t PROVE turn'[u] = turn[u]
    BY <1>1, <1>2, <2>2 DEF Dispatch
  <2>3. turn'[t].kept = turn[t].kept
    BY <1>1, <1>2 DEF Dispatch, Turn
  <2> QED
    BY <1>1, <2>1, <2>2, <2>3 DEF OrphanInv, Recordable, Lives
<1>3. ASSUME NEW t \in Turns, NEW how \in {"trace", "run", "scope"}, Cancel(t, how)
      PROVE  OrphanInv'
  <2>1. daemon = "up" /\ UNCHANGED <<daemon, file>>
    BY <1>3 DEF Cancel
  <2>2. ASSUME NEW u \in Turns
        PROVE  /\ turn'[u].st = turn[u].st /\ turn'[u].kept = turn[u].kept
               /\ turn'[u].scope = turn[u].scope /\ (Lives(u)' => Lives(u))
    <3> DEFINE x == Resolved(t, how)
               d == file[turn[t].scope]
    <3>1. CASE Found(x)
      <4>1. x \in Turns
        BY <3>1, ResolvedType DEF Found
      <4> HIDE DEF x
      <4>2. turn' = [Asked(t) EXCEPT ![x].hit = TRUE] /\ \E z \in Terminated : proc' = Signalled(x, z)
        BY <1>3, <3>1 DEF Cancel, x
      <4>3. Lives(u)' => Lives(u)
        BY <1>1, <4>1, <4>2 DEF Lives, Signalled
      <4> QED
        BY <1>1, <4>1, <4>2, <4>3 DEF Asked, Turn
    <3>2. CASE ~Found(x)
      <4>1. turn' = Asked(t) /\ proc' = IF d = None THEN proc ELSE Reaped(d)
        BY <1>3, <3>2 DEF Cancel
      <4>2. Lives(u)' => Lives(u)
        BY <1>1, <4>1, KillsOnly DEF Turn, Lives
      <4> QED
        BY <1>1, <4>1, <4>2 DEF Asked, Turn
    <3> QED
      BY <3>1, <3>2
  <2>3. ASSUME NEW s \in Scopes, file'[s] # None
        PROVE  turn'[file'[s]].scope = s /\ turn'[file'[s]].st \in Recordable
    <3>1. file'[s] = file[s] /\ file[s] \in Turns
      BY <1>1, <2>1, <2>3
    <3> QED
      BY <2>2, <2>3, <3>1 DEF OrphanInv, Lives
  <2>4. ASSUME NEW u \in Turns, turn'[u].kept
        PROVE  turn'[u].st = "dead" /\ ~Lives(u)'
    BY <2>1, <2>2, <2>4 DEF OrphanInv, Lives
  <2> QED
    BY <2>1, <2>3, <2>4 DEF OrphanInv, Lives
<1>4. ASSUME NEW t \in Turns, NEW how \in {"trace", "run", "scope"}, Pause(t, how)
      PROVE  OrphanInv'
  <2>1. Resolved(t, how) \in Turns /\ UNCHANGED <<daemon, turn, file>>
    BY <1>4, ResolvedType DEF Pause, Found
  <2>2. ASSUME NEW u \in Turns PROVE Lives(u)' => Lives(u)
    BY <1>1, <1>4, <2>1 DEF Pause, Lives, Signalled
  <2> QED
    BY <2>1, <2>2 DEF OrphanInv
<1>5. CASE RegistryClear
  BY <1>1, <1>5 DEF RegistryClear, OrphanInv, Lives
<1>6. CASE Boot
  BY <1>6 DEF Boot, OrphanInv, Lives
<1>7. ASSUME NEW s \in Scopes, Reap(s) PROVE OrphanInv'
  <2>1. PICK f \in Turns : f = file[s]
    BY <1>1, <1>7 DEF Reap
  <2>2. /\ daemon = "boot" /\ UNCHANGED <<daemon, turn>>
        /\ proc' = Reaped(f) /\ file' = [file EXCEPT ![s] = None]
    BY <1>7, <2>1 DEF Reap
  <2>3. ASSUME NEW u \in Turns PROVE (Lives(u)' => Lives(u)) /\ ~Lives(f)'
    BY <1>1, <2>2, KillsOnly
  <2> QED
    BY <1>1, <2>1, <2>2, <2>3 DEF OrphanInv
<1>8. CASE Serve
  <2>1. UNCHANGED <<turn, proc, file>> /\ daemon' = "up" /\ daemon # "up"
        /\ \A s \in Scopes : file[s] = None
    BY <1>8 DEF Serve
  <2>2. ASSUME NEW t \in Turns, turn[t].kept PROVE ~Lives(t)
    <3>1. turn[t].scope \in Scopes
      BY <1>1 DEF Turn
    <3> QED
      BY <2>1, <2>2, <3>1, Numbers DEF OrphanInv
  <2> QED
    BY <2>1, <2>2 DEF OrphanInv, Lives
<1>9. CASE Crash
  <2>1. UNCHANGED <<proc, file>> /\ daemon' = "down"
    BY <1>9 DEF Crash
  <2>2. ASSUME NEW u \in Turns
        PROVE  /\ turn'[u].st = IF turn[u].st \in OnThread THEN "dead" ELSE turn[u].st
               /\ turn'[u].kept = (turn[u].kept \/ file[turn[u].scope] = u)
               /\ turn'[u].scope = turn[u].scope
    BY <1>1, <1>9 DEF Crash, Turn
  <2>3. ASSUME NEW u \in Turns PROVE turn'[u].st \notin OnThread
    BY <2>2 DEF OnThread
  <2>4. ASSUME NEW s \in Scopes, file[s] # None
        PROVE  turn'[file[s]].scope = s /\ turn'[file[s]].st = "dead"
    <3>1. file[s] \in Turns
      BY <1>1, <2>4
    <3>2. turn[file[s]].scope = s /\ turn[file[s]].st \in Recordable
      BY <2>4 DEF OrphanInv
    <3> QED
      BY <2>2, <3>1, <3>2 DEF Recordable, OnThread
  <2>5. ASSUME NEW u \in Turns, turn'[u].kept
        PROVE  turn'[u].st = "dead" /\ (Lives(u) => file[turn[u].scope] = u)
    <3>1. turn[u].scope \in Scopes
      BY <1>1 DEF Turn
    <3>2. CASE turn[u].kept
      BY <2>2, <3>2 DEF OrphanInv, OnThread
    <3>3. CASE file[turn[u].scope] = u
      BY <2>4, <3>1, <3>3, Numbers
    <3> QED
      BY <2>2, <2>5, <3>2, <3>3
  <2> QED
    BY <2>1, <2>2, <2>3, <2>4, <2>5 DEF OrphanInv, Lives, Recordable
<1>10. ASSUME NEW t \in Turns, Thread(t) PROVE OrphanInv'
  BY <1>10, ThreadOrphan
<1>11. ASSUME NEW t \in Turns, Exit(t) PROVE OrphanInv'
  BY <1>1, <1>11 DEF Exit, OrphanInv, Lives
<1>12. ASSUME NEW t \in Turns, Watchdog(t) PROVE OrphanInv'
  BY <1>1, <1>12 DEF Watchdog, OrphanInv, Lives
<1>13. CASE UNCHANGED vars
  BY <1>13 DEF vars, OrphanInv, Lives
<1> QED
  BY <1>2, <1>3, <1>4, <1>5, <1>6, <1>7, <1>8, <1>9, <1>10, <1>11, <1>12,
     <1>13 DEF Next, Frame, Startup

(* Once the daemon serves, no process survives whose record was on disk    *)
(* when a daemon died: reap_orphans of daemon/inflight.py, before run opens*)
(* the socket, however often the daemon dies and wherever it dies.         *)
THEOREM RecordedOrphansAreReaped == Spec => []RecordedOrphansReaped
<1>1. Init => OrphanInv
  BY DEF Init, OrphanInv, OnThread
<1>2. TypeOK /\ OrphanInv /\ [Next]_vars => OrphanInv'
  BY StepOrphan
<1>3. OrphanInv => RecordedOrphansReaped
  BY DEF OrphanInv, RecordedOrphansReaped
<1> QED
  BY <1>1, <1>2, <1>3, TypeCorrect, PTL DEF Spec

=============================================================================
