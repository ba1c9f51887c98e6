------------------------------- MODULE MCHost -------------------------------
(***************************************************************************)
(* The parts of Host in the shapes that make them hard.  Of the working    *)
(* trees: one desk with two repositories, and two desks that share a       *)
(* clone.  Of the gateway: agents and desks that share one device, and one *)
(* agent that has many devices.  Of the transcript: all that the bounds    *)
(* allow.                                                                  *)
(***************************************************************************)
EXTENDS Host, TLC

CONSTANTS agent1, desk1, desk2, repoA, repoB

VARIABLE shape

MCFreshness == [r \in Repos |-> IF r = repoA THEN "always_latest" ELSE "pinned"]

(* Turns are interchangeable.                                              *)
Symmetry == Permutations(Turns)

(* The bounds of the shapes.                                               *)
OneDesk  == pin[desk2] = All /\ turn[desk2] = NoTurn
TwoDesks == /\ pin[desk1] # repoB /\ pin[desk2] = repoA /\ moves + faults <= 1
            /\ base[repoB] = 0 /\ clone[repoB].state # "legacy"
            /\ \A d \in Desks : ~desk[d][repoB].dirty
Setup    == ids <= 1 /\ hits <= 1
Device   == \A t \in Turns : setup[t].agent \in {agent1, Nobody} /\ setup[t].desk \in {desk1, Nobody}

Fits == /\ shape = "one-desk" => OneDesk
        /\ shape = "two-desks" => TwoDesks
        /\ shape = "setup" => Setup
        /\ shape = "device" => Device

SuiteInit ==
  /\ HostInit
  /\ \/ shape \in {"one-desk", "two-desks"} /\ part = "desks"
     \/ shape \in {"setup", "device"} /\ part = "gateway"
     \/ shape = "talk" /\ part = "transcript"
  /\ Fits

SuiteNext == UNCHANGED shape /\ HostNext /\ Fits'

SuiteSpec == SuiteInit /\ [][SuiteNext]_<<shape, hostVars>>
=============================================================================
