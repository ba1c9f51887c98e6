------------------------------- MODULE AgentRows -------------------------------
(***************************************************************************)
(* Agents and the runtimes they are bound to: a managed agent is a Profile *)
(* and an Agent row of the same id, and both name its runtime              *)
(* (forge/services.create_agent, update_agent, delete_agent, _sync_bots,   *)
(* conductor.get_or_create_conductor); daemons register runtimes and serve *)
(* them over a connection (register_runtimes, is_runtime_live); the checks *)
(* that a READY run shows are cached on it (ready_checks).                 *)
(*                                                                         *)
(* A request that writes what one read told it is one step.  Three are     *)
(* more: a listing reads the profiles and then the rows; the seeding of a  *)
(* system agent commits twice; the checks ask the hub twice.  An agent has *)
(* one READY run, and all of them one project.                             *)
(***************************************************************************)
EXTENDS Naturals, FiniteSets

CONSTANTS
  Agents,
  System,       \* agents that Agentira seeds (the Conductor)
  Runtimes,     \* rows of forge_runtimes: one for each daemon
  NoRuntime,    \* NULL
  Threads,      \* server threads
  MaxEdits      \* bound: requests of administrators, starts and lost connections

AgentRowsAssumption ==
  /\ System \subseteq Agents /\ NoRuntime \notin Runtimes /\ MaxEdits \in Nat

VARIABLES
  profile,   \* profile[a]: its Profile
  row,       \* row[a]: its Agent
  daemon,    \* daemon[r]: the daemon that registers runtime r
  repo,      \* Project.repo_path is set
  cache,     \* cache[a]: ready_checks_json and ready_checks_sig of its run
  thread,    \* thread[t]: what a request has read
  chosen,    \* history: chosen[a]: the runtime it was last bound to
  edits

vars == <<profile, row, daemon, repo, cache, thread, chosen, edits>>

Bound   == Runtimes \cup {NoRuntime}
Profile == [made : BOOLEAN, archived : BOOLEAN, system : BOOLEAN, key : BOOLEAN, runtime : Bound]
Row     == [made : BOOLEAN, runtime : Bound]
Daemon  == [known : BOOLEAN, state : {"off", "idle", "registered", "connected"}]
Facts   == [runtime : Bound, online : BOOLEAN, key : BOOLEAN, repo : BOOLEAN]
Cache   == [kept : BOOLEAN, sig : Facts, checks : Facts]
Thread  == [op : {"idle", "list", "seed", "check", "compute"}, agent : Agents,
            bots : SUBSET [agent : Agents, runtime : Bound],  \* what a listing has read
            sig  : Facts,                                     \* what the checks have read
            late : BOOLEAN]        \* history: others wrote since a listing began

NoFacts == [runtime |-> NoRuntime, online |-> FALSE, key |-> FALSE, repo |-> FALSE]
Idle    == [op |-> "idle", agent |-> CHOOSE a \in Agents : TRUE, bots |-> {},
            sig |-> NoFacts, late |-> FALSE]

Init ==
  /\ profile = [a \in Agents |-> [made |-> FALSE, archived |-> FALSE, system |-> FALSE,
                                  key |-> FALSE, runtime |-> NoRuntime]]
  /\ row = [a \in Agents |-> [made |-> FALSE, runtime |-> NoRuntime]]
  /\ daemon = [r \in Runtimes |-> [known |-> FALSE, state |-> "off"]]
  /\ repo = FALSE
  /\ cache = [a \in Agents |-> [kept |-> FALSE, sig |-> NoFacts, checks |-> NoFacts]]
  /\ thread = [t \in Threads |-> Idle]
  /\ chosen = [a \in Agents |-> NoRuntime]
  /\ edits = 0

Known == {r \in Runtimes : daemon[r].known}

(* A runtime is online when a connection that serves it is open.           *)
Live == {r \in Runtimes : daemon[r].state = "connected"}

Edit == edits < MaxEdits /\ edits' = edits + 1

(* Listings that are open while the rows of an agent change.               *)
Overlapped == [t \in Threads |-> [thread[t] EXCEPT !.late = @ \/ thread[t].op = "list"]]

------------------------------------------------------------------------------
(* A daemon starts and registers its runtime, which makes or refreshes the *)
(* row; a daemon whose request fails stays, and never connects.            *)
Registers(r) ==
  /\ Edit /\ daemon[r].state = "off"
  /\ \/ daemon' = [daemon EXCEPT ![r] = [known |-> TRUE, state |-> "registered"]]
     \/ daemon' = [daemon EXCEPT ![r].state = "idle"]
  /\ UNCHANGED <<profile, row, repo, cache, thread, chosen>>

(* The hub takes the runtimes of a connection that its organisation owns.  *)
Connects(r) ==
  /\ daemon[r].state = "registered" /\ daemon[r].known
  /\ daemon' = [daemon EXCEPT ![r].state = "connected"]
  /\ UNCHANGED <<profile, row, repo, cache, thread, chosen, edits>>

(* The connection closes; the daemon connects again, or has ended.         *)
Disconnects(r) ==
  /\ Edit /\ daemon[r].state = "connected"
  /\ \E s \in {"registered", "off"} : daemon' = [daemon EXCEPT ![r].state = s]
  /\ UNCHANGED <<profile, row, repo, cache, thread, chosen>>

------------------------------------------------------------------------------
(* A new agent is made with its profile; an identity that has a profile    *)
(* and no row is bound; one that has a row is refused by the primary key.  *)
Create(a, r) ==
  /\ Edit /\ r \in Known /\ ~row[a].made
  /\ profile[a].made \/ a \notin System
  /\ profile' = [profile EXCEPT ![a] =
       [profile[a] EXCEPT !.made = TRUE, !.runtime = r, !.key = profile[a].made => @]]
  /\ row' = [row EXCEPT ![a] = [made |-> TRUE, runtime |-> r]]
  /\ chosen' = [chosen EXCEPT ![a] = r]
  /\ thread' = Overlapped
  /\ UNCHANGED <<daemon, repo, cache>>

(* Mutant of ProfileBound: the runtime is not among the mirrored fields.   *)
ProfileLeft(a, r) == profile

(* An agent is bound to another runtime, in both tables; nothing asks      *)
(* whether it is archived.                                                 *)
ProfileBound(a, r) == [profile EXCEPT ![a].runtime = r]

Rebind(a, r) ==
  /\ Edit /\ r \in Known /\ row[a].made
  /\ row' = [row EXCEPT ![a].runtime = r]
  /\ profile' = ProfileBound(a, r)
  /\ chosen' = [chosen EXCEPT ![a] = r]
  /\ thread' = Overlapped
  /\ UNCHANGED <<daemon, repo, cache>>

(* Deletion archives: the agent loses its runtime and its key.             *)
Archive(a) ==
  /\ Edit /\ row[a].made /\ ~profile[a].system /\ ~profile[a].archived
  /\ row' = [row EXCEPT ![a].runtime = NoRuntime]
  /\ profile' = [profile EXCEPT ![a] =
       [@ EXCEPT !.archived = TRUE, !.key = FALSE, !.runtime = NoRuntime]]
  /\ chosen' = [chosen EXCEPT ![a] = NoRuntime]
  /\ thread' = Overlapped
  /\ UNCHANGED <<daemon, repo, cache>>

EditProject ==
  /\ Edit /\ repo' = ~repo
  /\ UNCHANGED <<profile, row, daemon, cache, thread, chosen>>

------------------------------------------------------------------------------
(* A listing reads the profiles of agents that are not archived ...        *)
Bots == {[agent |-> a, runtime |-> profile[a].runtime] :
           a \in {b \in Agents : profile[b].made /\ ~profile[b].archived}}

ListBegins(t) ==
  /\ thread[t].op = "idle"
  /\ thread' = [thread EXCEPT ![t] = [Idle EXCEPT !.op = "list", !.bots = Bots]]
  /\ UNCHANGED <<profile, row, daemon, repo, cache, chosen, edits>>

(* ... and then the rows: it adds those that are missing and gives each    *)
(* the runtime of its profile, when that has one.                          *)
Mirrored(bots, a) ==
  IF \E b \in bots : b.agent = a
    THEN LET bot == CHOOSE b \in bots : b.agent = a
         IN  [made |-> TRUE,
              runtime |-> IF bot.runtime = NoRuntime THEN row[a].runtime ELSE bot.runtime]
    ELSE row[a]

ListEnds(t) ==
  /\ thread[t].op = "list"
  /\ row' = [a \in Agents |-> Mirrored(thread[t].bots, a)]
  /\ thread' = [thread EXCEPT ![t] = Idle]
  /\ UNCHANGED <<profile, daemon, repo, cache, chosen, edits>>

------------------------------------------------------------------------------
(* A system agent that has no profile gets one, without a runtime ...      *)
SeedBegins(t, a) ==
  /\ thread[t].op = "idle" /\ a \in System /\ ~profile[a].archived
  /\ profile' = [profile EXCEPT ![a] =
       [profile[a] EXCEPT !.made = TRUE, !.key = profile[a].made => @]]
  /\ thread' = [(IF profile[a].made THEN thread ELSE Overlapped)
                  EXCEPT ![t] = [Idle EXCEPT !.op = "seed", !.agent = a]]
  /\ UNCHANGED <<row, daemon, repo, cache, chosen, edits>>

(* ... and then the profile and the row each get one that is live, if they *)
(* have none.                                                              *)
OrBound(runtime, live) == IF runtime = NoRuntime THEN live ELSE runtime

SeedEnds(t) ==
  /\ thread[t].op = "seed"
  /\ LET a == thread[t].agent IN
     \E r \in IF Live = {} THEN {NoRuntime} ELSE Live :
       /\ profile' = [profile EXCEPT ![a] =
            [@ EXCEPT !.system = TRUE, !.runtime = OrBound(profile[a].runtime, r)]]
       /\ row' = [row EXCEPT ![a] = [made |-> TRUE, runtime |-> OrBound(row[a].runtime, r)]]
       /\ chosen' = [chosen EXCEPT ![a] = OrBound(chosen[a], r)]
       /\ thread' = [(IF profile' = profile /\ row' = row THEN thread ELSE Overlapped)
                       EXCEPT ![t] = Idle]
  /\ UNCHANGED <<daemon, repo, cache, edits>>

------------------------------------------------------------------------------
(* What the checks of a run depend on, as it is now.                       *)
Current(a) == [runtime |-> row[a].runtime, online |-> row[a].runtime \in Live,
               key |-> profile[a].key, repo |-> repo]

(* Mutant of Signature: the connection is left out.                        *)
SignatureOfTheRows(a) == [Current(a) EXCEPT !.online = FALSE]

(* _ready_checks_signature: all of it.                                     *)
Signature(a) == Current(a)

CheckAsked(t, a) ==
  /\ thread[t].op = "idle" /\ row[a].made
  /\ thread' = [thread EXCEPT ![t] = [Idle EXCEPT !.op = "check", !.agent = a]]
  /\ UNCHANGED <<profile, row, daemon, repo, cache, chosen, edits>>

(* The cached checks are served while the signature is the one they were   *)
(* stored under; else, or once they are old, or when forced, they are made *)
(* again.                                                                  *)
CheckServed(t) ==
  /\ thread[t].op = "check"
  /\ LET c == cache[thread[t].agent] IN c.kept /\ c.sig = Signature(thread[t].agent)
  /\ thread' = [thread EXCEPT ![t] = Idle]
  /\ UNCHANGED <<profile, row, daemon, repo, cache, chosen, edits>>

CheckBegins(t) ==
  /\ thread[t].op = "check"
  /\ thread' = [thread EXCEPT ![t].op = "compute", ![t].sig = Signature(thread[t].agent)]
  /\ UNCHANGED <<profile, row, daemon, repo, cache, chosen, edits>>

(* The rows are those that were read; the hub is asked a second time.      *)
CheckEnds(t) ==
  /\ thread[t].op = "compute"
  /\ LET s == thread[t].sig
     IN  cache' = [cache EXCEPT ![thread[t].agent] =
           [kept |-> TRUE, sig |-> s, checks |-> [s EXCEPT !.online = s.runtime \in Live]]]
  /\ thread' = [thread EXCEPT ![t] = Idle]
  /\ UNCHANGED <<profile, row, daemon, repo, chosen, edits>>

Next ==
  \/ EditProject
  \/ \E r \in Runtimes : Registers(r) \/ Connects(r) \/ Disconnects(r)
  \/ \E a \in Agents : Archive(a) \/ \E r \in Runtimes : Create(a, r) \/ Rebind(a, r)
  \/ \E t \in Threads :
       \/ ListBegins(t) \/ ListEnds(t) \/ SeedEnds(t)
       \/ CheckServed(t) \/ CheckBegins(t) \/ CheckEnds(t)
       \/ \E a \in Agents : SeedBegins(t, a) \/ CheckAsked(t, a)

Spec == Init /\ [][Next]_vars

------------------------------------------------------------------------------
TypeOK ==
  /\ profile \in [Agents -> Profile] /\ row \in [Agents -> Row]
  /\ daemon \in [Runtimes -> Daemon] /\ repo \in BOOLEAN
  /\ cache \in [Agents -> Cache] /\ thread \in [Threads -> Thread]
  /\ chosen \in [Agents -> Bound] /\ edits \in 0..MaxEdits

(* Checks that are served from the cache tell what is true now             *)
(* (ready_checks: "A change here means the cached result is no longer      *)
(* trustworthy and the checks are re-run").  Excused: checks during whose  *)
(* making the connection of the daemon changed, so that they were stored   *)
(* under a signature that contradicts them (services.py:3342 and :3369).   *)
ServedStep ==
  \A t \in Threads :
    LET a == thread[t].agent IN
    thread[t].op = "check" /\ thread'[t].op = "idle"
      => cache[a].checks = Current(a) \/ cache[a].sig # cache[a].checks

ServedChecksAreCurrent == [][ServedStep]_vars

(* A listing that no write overlapped leaves each agent that is not        *)
(* archived bound to the runtime it was last given, in both tables: what   *)
(* an administrator chose is not undone by those who look, and requests    *)
(* that find the agent by its row or by its profile address one daemon     *)
(* (_AGENT_TO_PROFILE_MIRROR: "the profile holds the canonical runtime     *)
(* config").                                                               *)
ListingStep ==
  \A t \in Threads :
    thread[t].op = "list" /\ thread'[t].op = "idle" /\ ~thread[t].late
      => \A a \in Agents : profile[a].made /\ ~profile[a].archived
           => /\ row'[a] = [made |-> TRUE, runtime |-> chosen[a]]
              /\ profile'[a].runtime = chosen[a]

ListingKeepsBinding == [][ListingStep]_vars

(* An archived agent is inert (models.py:236, test_system_agents.py:118):  *)
(* refuted, by a listing that read its profile before and its row after,   *)
(* and by an administrator who binds it again.                             *)
ArchivedIsInert == \A a \in Agents : profile[a].archived => row[a].runtime = NoRuntime
=============================================================================
