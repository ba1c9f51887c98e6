--------------------------------- MODULE Host ---------------------------------
(***************************************************************************)
(* Three parts of the daemon's host that share no state, side by side: the *)
(* working trees of the agents, the OpenClaw that their turns share, and   *)
(* the transcript of a turn on it.  A behaviour picks one of them and is a *)
(* behaviour of it, with the others at rest in an initial state.           *)
(***************************************************************************)
EXTENDS Workspaces

CONSTANTS Agents, Turns, Cli, Nobody, Servers, MaxIds, MaxHits   \* Gateway
CONSTANTS Commands, MaxWords, MaxTools, MaxLost                  \* Transcript

VARIABLES
  part,                                                          \* the part that moves
  workspace, servers, paired, file, bound, applied, setup,       \* Gateway
  muddled, ids, hits,
  said, spoken, called, gateway, daemon, verdict, rows,          \* Transcript
  reported, excused, lost

Gateway == INSTANCE Gateway WITH turn <- setup, faults <- hits, MaxFaults <- MaxHits
Transcript == INSTANCE Transcript

ASSUME HostAssumption == Gateway!GatewayAssumption /\ Transcript!TranscriptAssumption

deskVars    == vars
gatewayVars == <<workspace, servers, paired, file, bound, applied, setup, muddled, ids, hits>>
transcriptVars == <<said, spoken, called, gateway, daemon, verdict, rows, reported, excused, lost>>
hostVars    == <<part, deskVars, gatewayVars, transcriptVars>>

HostInit ==
  /\ part \in {"desks", "gateway", "transcript"}
  /\ Init /\ Gateway!Init /\ Transcript!Init
  /\ part # "desks" => /\ clone = [r \in Repos |-> NoClone]
                         /\ pin = [d \in Desks |-> All]

HostNext ==
  /\ \/ part = "desks" /\ Next /\ UNCHANGED <<gatewayVars, transcriptVars>>
     \/ part = "gateway" /\ Gateway!Next /\ UNCHANGED <<deskVars, transcriptVars>>
     \/ part = "transcript" /\ Transcript!Next /\ UNCHANGED <<deskVars, gatewayVars>>
  /\ UNCHANGED part

HostSpec == HostInit /\ [][HostNext]_hostVars

(* Properties of the parts, under names a configuration can use.           *)
SetUpForTheTurn         == Gateway!SetUpForTheTurn
TranscriptIsWhatWasSaid == Transcript!TranscriptIsWhatWasSaid
===============================================================================
