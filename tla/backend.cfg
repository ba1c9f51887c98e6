CONSTANTS
  t1 = t1
  t2 = t2
  t3 = t3
  d1 = d1
  d2 = d2
  name0 = name0
  name1 = name1
  name2 = name2
  req1 = req1
  Tasks    = {t1, t2, t3}
  NoTask   = none
  Requests = {req1}
  MaxDepth = 3
  MaxCalls = 5
  Nobody   = "nobody"
  Daemons  = {d1, d2}
  NoDaemon = nobody
  MaxPairs = 3
  MaxHits  = 1
  Faults   = {"answer", "backend", "account"}
  Threads  = {d1, d2}
  People   = {"p", "q"}
  Verified = {"p"}
  Names    = {name0, name1, name2}
  Founder  = name0
  Codes    = {"c1", "c2"}
  Home     = "home"
  MaxMembers  = 1
  MaxProfiles = 3
  MaxEdits    = 1
  Tokens    = {"workspace", "project"}
  NoToken   = "none"
  Kind      <- MCKind
  MaxFaults = 2
  MaxAsked  = 4
  Flows  = {1, 2}
  Apps   <- MCApps
  Pinned <- MCPinned
  Signed = {}
  Users  = {"ann"}
  Agents = {"agent"}
  MaxChanges = 2
SYMMETRY Symmetry
SPECIFICATION SuiteSpec
INVARIANTS
  DependenciesAcyclic StaysSignedIn
  OneAccountPerPerson InvitesAreSpent
  KeysAreJudgedByRailway ActsAsChosen
CHECK_DEADLOCK FALSE
