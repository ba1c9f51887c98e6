------------------------------- MODULE Gateway -------------------------------
(***************************************************************************)
(* How the daemon sets OpenClaw up for a turn (runtimes/openclaw.py,       *)
(* openclaw_engine.py, openclaw_device.py): every agent has an engine      *)
(* agent, whose one workspace is bound to the desk of the turn; the tool   *)
(* servers, with the agent's token in them, are registered for all of      *)
(* OpenClaw; and the daemon is a paired device.  Each turn prepares in a   *)
(* thread of its own, through a command line that may fail, or be given up *)
(* when its write is still to come; what was last written is remembered,   *)
(* so that it need not be written again.                                   *)
(*                                                                         *)
(* OpenClaw itself is external: its configuration, the devices it knows.   *)
(* The servers of an agent are the same in all of its turns.               *)
(***************************************************************************)
EXTENDS Naturals, FiniteSets

CONSTANTS
  Agents, Desks,
  Turns,         \* threads of the daemon
  Cli,           \* the command `agentira daemon pair`
  Nobody,
  Servers,       \* names of the servers that are registered
  MaxIds,        \* bound: device identities
  MaxFaults      \* bound: calls that fail, restarts, pair commands

GatewayAssumption ==
  /\ Nobody \notin Agents \cup Desks /\ Cli \notin Turns
  /\ MaxIds \in Nat \ {0} /\ MaxFaults \in Nat

VARIABLES
  workspace,   \* workspace[a]: of the engine agent, Nobody if there is none
  servers,     \* servers[n]: whose entry is registered under this name
  paired,      \* the devices that the gateway accepts
  file,        \* openclaw-device.json
  bound,       \* _bound_workspace
  applied,     \* _last_mcp_fingerprint
  turn,        \* turn[t]: a turn that prepares or runs, or the command
  muddled,     \* history: what overlapping or late calls may have mixed up
  ids, faults

vars == <<workspace, servers, paired, file, bound, applied, turn, muddled, ids, faults>>

Actors == Turns \cup {Cli}
Ids    == 1..MaxIds

Turn == [pc    : {"idle", "engine", "bind", "cache", "mcp", "write", "stamp", "load", "create",
                  "register", "save", "list", "remove", "connect"},
         agent : Agents \cup {Nobody}, desk : Desks \cup {Nobody},
         seen  : Desks \cup {Nobody},    \* the workspace in the listing
         left  : SUBSET Servers,         \* entries still to write
         done  : SUBSET Servers,         \* registered or skipped
         id    : {0} \cup Ids, stale : SUBSET Ids,
         failed : BOOLEAN]               \* history: a call of its own failed
Idle == [pc |-> "idle", agent |-> Nobody, desk |-> Nobody, seen |-> Nobody, left |-> {},
         done |-> {}, id |-> 0, stale |-> {}, failed |-> FALSE]

NoFile == [id |-> 0, token |-> FALSE]

-----------------------------------------------------------------------------
Preparing(t) == turn[t].pc # "idle"
At(t, pc)    == turn[t].pc = pc
Goes(t, pc)  == turn' = [turn EXCEPT ![t].pc = pc, ![t].seen = Nobody]
Fails(t, pc) == turn' = [turn EXCEPT ![t].pc = pc, ![t].seen = Nobody, ![t].failed = TRUE]
Fault        == faults < MaxFaults /\ faults' = faults + 1

config == <<workspace, servers>>
caches == <<bound, applied>>
device == <<paired, file, ids>>

Init ==
  /\ workspace = [a \in Agents |-> Nobody] /\ servers = [n \in Servers |-> Nobody]
  /\ paired = {} /\ file = NoFile
  /\ bound = [a \in Agents |-> Nobody] /\ applied = Nobody
  /\ turn = [t \in Actors |-> Idle] /\ muddled = {} /\ ids = 0 /\ faults = 0

Begin(t, a, d) ==
  /\ At(t, "idle")
  /\ turn' = [turn EXCEPT ![t] = [Idle EXCEPT !.pc = "engine", !.agent = a, !.desk = d]]
  /\ muddled' = IF \E s \in Turns : Preparing(s) THEN muddled \cup {"config"} ELSE muddled
  /\ UNCHANGED <<config, caches, device, faults>>

-----------------------------------------------------------------------------
(* ensure_engine_agent: lists the agents; adds the engine agent at this    *)
(* desk when it is not there.  Without a listing the engine seems missing, *)
(* and adding it is refused.                                               *)
Engine(t) ==
  LET a == turn[t].agent IN
  /\ At(t, "engine")
  /\ \/ /\ workspace[a] # Nobody
        /\ turn' = [turn EXCEPT ![t].pc = "bind", ![t].seen = workspace[a]]
        /\ UNCHANGED <<workspace, faults>>
     \/ /\ workspace[a] = Nobody
        /\ workspace' = [workspace EXCEPT ![a] = turn[t].desk]
        /\ Goes(t, "cache") /\ UNCHANGED faults
     \/ Fault /\ Fails(t, "mcp") /\ UNCHANGED workspace
  /\ UNCHANGED <<servers, caches, device, muddled>>

(* bind_workspace_if_changed: nothing to do for the desk that was bound    *)
(* last, or that the listing shows.                                        *)
BoundAlready(t) == /\ bound[turn[t].agent] = turn[t].desk
                   /\ Goes(t, "mcp") /\ UNCHANGED bound
BoundAsListed(t) == /\ bound[turn[t].agent] # turn[t].desk /\ turn[t].seen = turn[t].desk
                    /\ bound' = [bound EXCEPT ![turn[t].agent] = turn[t].desk]
                    /\ Goes(t, "mcp")
BindSkips(t) ==
  /\ At(t, "bind") /\ (BoundAlready(t) \/ BoundAsListed(t))
  /\ UNCHANGED <<config, applied, device, muddled, faults>>

(* `openclaw config set`: a call that is given up may still take effect.   *)
BindWrites(t) ==
  /\ At(t, "bind") /\ turn[t].desk \notin {bound[turn[t].agent], turn[t].seen}
  /\ \/ /\ workspace' = [workspace EXCEPT ![turn[t].agent] = turn[t].desk]
        /\ Goes(t, "cache") /\ UNCHANGED <<muddled, faults>>
     \/ Fault /\ Fails(t, "mcp") /\ UNCHANGED <<workspace, muddled>>
     \/ /\ Fault /\ Fails(t, "mcp")
        /\ workspace' = [workspace EXCEPT ![turn[t].agent] = turn[t].desk]
        /\ muddled' = muddled \cup {"config"}
  /\ UNCHANGED <<servers, caches, device>>
Cache(t) ==
  /\ At(t, "cache")
  /\ bound' = [bound EXCEPT ![turn[t].agent] = turn[t].desk]
  /\ Goes(t, "mcp")
  /\ UNCHANGED <<config, applied, device, muddled, faults>>

-----------------------------------------------------------------------------
(* register_agentira_mcps: not again what was applied last; otherwise the  *)
(* entries that differ from those in the file, one after the other.        *)
Mcp(t) ==
  /\ At(t, "mcp")
  /\ IF applied = turn[t].agent THEN Goes(t, "load")
     ELSE LET other == {n \in Servers : servers[n] # turn[t].agent} IN
          turn' = [turn EXCEPT ![t].pc = "write", ![t].left = other, ![t].done = Servers \ other]
  /\ UNCHANGED <<config, caches, device, muddled, faults>>
Write(t, n) ==
  LET left(done) == turn' = [turn EXCEPT ![t].left = @ \ {n}, ![t].done = @ \cup done] IN
  /\ At(t, "write") /\ n \in turn[t].left
  /\ \/ servers' = [servers EXCEPT ![n] = turn[t].agent] /\ left({n}) /\ UNCHANGED <<muddled, faults>>
     \/ Fault /\ left({}) /\ UNCHANGED <<servers, muddled>>
     \/ /\ Fault /\ left({}) /\ servers' = [servers EXCEPT ![n] = turn[t].agent]
        /\ muddled' = muddled \cup {"config"}
  /\ UNCHANGED <<workspace, caches, device>>

(* Mutant of Stamped: a partial write counts as applied.                   *)
StampedAnyway(t) == IF turn[t].done # {} THEN turn[t].agent ELSE applied

(* The fingerprint after the writes.                                       *)
Stamped(t) == IF turn[t].done = Servers THEN turn[t].agent
              ELSE IF turn[t].done # {} THEN Nobody ELSE applied
Stamp(t) ==
  /\ At(t, "write") /\ turn[t].left = {}
  /\ applied' = Stamped(t)
  /\ turn' = [turn EXCEPT ![t].pc = "load", ![t].done = {}, ![t].failed = @ \/ turn[t].done # Servers]
  /\ UNCHANGED <<config, bound, device, muddled, faults>>

-----------------------------------------------------------------------------
(* ensure_registered, in a turn and in the command, which registers anew.  *)
Pair ==
  /\ Fault /\ At(Cli, "idle") /\ Goes(Cli, "load")
  /\ UNCHANGED <<config, caches, device, muddled>>

Load(t) ==
  /\ At(t, "load")
  /\ \/ /\ file = NoFile /\ ids < MaxIds                    \* generate_identity
        /\ ids' = ids + 1
        /\ turn' = [turn EXCEPT ![t].pc = "create", ![t].id = ids + 1]
        /\ muddled' = IF \E s \in Actors : At(s, "create") THEN muddled \cup {"device"} ELSE muddled
     \/ /\ file # NoFile
        /\ turn' = [turn EXCEPT ![t].id = file.id,
                      ![t].pc = IF file.token /\ t # Cli THEN "connect" ELSE "register"]
        /\ UNCHANGED <<ids, muddled>>
  /\ UNCHANGED <<config, caches, paired, file, faults>>

(* save_identity.                                                          *)
Saved(t, token) == file' = [id |-> turn[t].id, token |-> token]
Create(t) ==
  /\ At(t, "create") /\ Saved(t, FALSE) /\ Goes(t, "register")
  /\ UNCHANGED <<config, caches, paired, ids, muddled, faults>>

(* The handshake, approved by the daemon itself where the gateway asks for *)
(* it; a refusal fails the turn, paired or not.                            *)
Register(t) ==
  /\ At(t, "register")
  /\ \/ paired' = paired \cup {turn[t].id} /\ Goes(t, "save") /\ UNCHANGED faults
     \/ Fault /\ turn' = [turn EXCEPT ![t] = Idle] /\ paired' \in {paired, paired \cup {turn[t].id}}
  /\ UNCHANGED <<config, caches, file, ids, muddled>>
Save(t) ==
  /\ At(t, "save") /\ Saved(t, TRUE) /\ Goes(t, "list")
  /\ UNCHANGED <<config, caches, paired, ids, muddled, faults>>

(* _cleanup_stale_agentira_devices: lists, then removes the others.        *)
Stale(t) == paired \ {turn[t].id}
List(t) ==
  /\ At(t, "list")
  /\ \E failed \in BOOLEAN :
       /\ IF failed THEN Fault ELSE UNCHANGED faults
       /\ turn' = [turn EXCEPT ![t].pc = "remove", ![t].stale = IF failed THEN {} ELSE Stale(t)]
  /\ UNCHANGED <<config, caches, device, muddled>>
Remove(t) ==
  /\ At(t, "remove")
  /\ paired' = paired \ turn[t].stale
  /\ turn' = IF t = Cli THEN [turn EXCEPT ![t] = Idle]
             ELSE [turn EXCEPT ![t].pc = "connect", ![t].stale = {}]
  /\ UNCHANGED <<config, caches, file, ids, muddled, faults>>

-----------------------------------------------------------------------------
(* run_openclaw_ws: the turn connects with the device, or fails; what it   *)
(* does from then on is Transcript's.                                      *)
Connect(t) ==
  /\ At(t, "connect") /\ turn' = [turn EXCEPT ![t] = Idle]
  /\ UNCHANGED <<config, caches, device, muddled, faults>>

(* The daemon restarts: turns and caches are gone.                         *)
Restart ==
  /\ Fault
  /\ turn' = [t \in Actors |-> IF t = Cli THEN turn[t] ELSE Idle]
  /\ bound' = [a \in Agents |-> Nobody] /\ applied' = Nobody
  /\ muddled' = muddled \ {"config"}
  /\ UNCHANGED <<config, device>>

Next ==
  \/ Pair \/ Restart
  \/ \E t \in Actors : \/ Load(t) \/ Create(t) \/ Register(t) \/ Save(t) \/ List(t) \/ Remove(t)
  \/ \E t \in Turns :
       \/ \E a \in Agents, d \in Desks : Begin(t, a, d)
       \/ Engine(t) \/ BindSkips(t) \/ BindWrites(t) \/ Cache(t)
       \/ Mcp(t) \/ Stamp(t) \/ \E n \in Servers : Write(t, n)
       \/ Connect(t)

Spec == Init /\ [][Next]_vars

-----------------------------------------------------------------------------
TypeOK ==
  /\ workspace \in [Agents -> Desks \cup {Nobody}] /\ servers \in [Servers -> Agents \cup {Nobody}]
  /\ paired \subseteq Ids /\ file \in [id : {0} \cup Ids, token : BOOLEAN]
  /\ bound \in [Agents -> Desks \cup {Nobody}] /\ applied \in Agents \cup {Nobody}
  /\ turn \in [Actors -> Turn] /\ muddled \subseteq {"config", "device"}
  /\ ids \in 0..MaxIds /\ faults \in 0..MaxFaults

(* A turn that connects finds OpenClaw set up for it: a device that the    *)
(* gateway accepts, its own desk, and servers with its own token ("so THIS *)
(* agent's token + memory are visible"), whichever turns came before,      *)
(* failed half-way or were cut off by a restart.  Not so once preparations *)
(* overlapped or a call took effect after it was given up: neither the     *)
(* shared configuration nor the memory of it is guarded against that, and  *)
(* two identities created at once may remove each other.                   *)
SetUpForTheTurn ==
  \A t \in Turns : At(t, "connect") =>
    /\ turn[t].id \in paired \/ "device" \in muddled
    /\ \/ workspace[turn[t].agent] = turn[t].desk /\ \A n \in Servers : servers[n] = turn[t].agent
       \/ turn[t].failed \/ "config" \in muddled
=============================================================================
