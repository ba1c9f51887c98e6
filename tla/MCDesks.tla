------------------------------- MODULE MCDesks -------------------------------
(* One desk whose task moves between two repositories, without faults.     *)
EXTENDS Naturals, FiniteSets

VARIABLES base, clone, desk, pin, turn, moves, faults

INSTANCE Workspaces WITH
  Desks <- {"d"}, Repos <- {"a", "b"}, All <- "all",
  Freshness <- [r \in {"a", "b"} |-> "always_latest"],
  MaxBase <- 0, MaxCommits <- 1, MaxMoves <- 2, MaxFaults <- 0
=============================================================================
