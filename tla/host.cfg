CONSTANTS
  cmd1 = cmd1
  cmd2 = cmd2
  agent1 = agent1
  agent2 = agent2
  desk1 = desk1
  desk2 = desk2
  repoA = repoA
  repoB = repoB
  turn1 = turn1
  turn2 = turn2
  server1 = server1
  server2 = server2
  Commands   = {cmd1, cmd2}
  Agents     = {agent1, agent2}
  Desks      = {desk1, desk2}
  Repos      = {repoA, repoB}
  All        = all
  Turns      = {turn1, turn2}
  Servers    = {server1, server2}
  Cli        = cli
  Nobody     = nobody
  Freshness  <- MCFreshness
  MaxBase    = 1
  MaxCommits = 1
  MaxMoves   = 2
  MaxFaults  = 1
  MaxIds     = 3
  MaxHits    = 2
  MaxWords   = 4
  MaxTools   = 2
  MaxLost    = 1
SYMMETRY Symmetry
SPECIFICATION SuiteSpec
INVARIANTS    FreshOrSaid
CHECK_DEADLOCK FALSE
