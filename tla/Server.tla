-------------------------------- MODULE Server --------------------------------
(***************************************************************************)
(* The server process, side by side: how it comes up on a database that    *)
(* has to be migrated, and how it delivers frames to a daemon.  The two    *)
(* share no state; a behaviour picks one of them and is a behaviour of it, *)
(* with the other at rest in an initial state.                             *)
(***************************************************************************)
EXTENDS DispatchOutbox

CONSTANTS Boots, Dialects, MaxCrashes, MaxEdits     \* Migrations

VARIABLES
  part,                                             \* the component that moves
  dialect, db, boot, demoted, crashes, edits        \* Migrations

Migrations == INSTANCE Migrations

ASSUME ServerAssumption == Migrations!MigrationAssumption

outboxVars    == vars
migrationVars == <<dialect, db, boot, demoted, crashes, edits>>

ServerInit ==
  /\ part \in {"outbox", "migrations"}
  /\ Init /\ Migrations!Init
  /\ part = "outbox" => dialect = "sqlite" /\ db = Migrations!Fresh

ServerNext ==
  /\ \/ part = "outbox" /\ Next /\ UNCHANGED migrationVars
     \/ part = "migrations" /\ Migrations!Next /\ UNCHANGED outboxVars
  /\ UNCHANGED part

(* The fairness of the component that moves.                               *)
ServerSpec ==
  /\ ServerInit /\ [][ServerNext]_<<outboxVars, migrationVars, part>>
  /\ WF_outboxVars(part = "outbox" /\ Hub)
  /\ WF_outboxVars(part = "outbox" /\ Daemon)
  /\ \A f \in Frames : WF_outboxVars(part = "outbox" /\ GoesOld(f))
  /\ \A b \in Boots :
       /\ WF_migrationVars(part = "migrations" /\ Migrations!Start(b))
       /\ WF_migrationVars(part = "migrations" /\ Migrations!Progress(b))

(* The properties of the components, under names a configuration can use.  *)
ServedIsMigrated == Migrations!ServedIsMigrated
ComesUp          == part = "migrations" => Migrations!ComesUp
===============================================================================
