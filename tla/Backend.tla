------------------------------- MODULE Backend -------------------------------
(***************************************************************************)
(* Four parts of the backend and its clients that share no state, side by  *)
(* side: the sign-in of a computer, the accounts of people, Railway tokens *)
(* and apps over MCP.  A behaviour picks one of them and is a behaviour of *)
(* it, while the variables of the others are not used.  What two of them   *)
(* call by the same name is declared once.                                 *)
(***************************************************************************)
EXTENDS Naturals, FiniteSets

CONSTANTS
  Nobody,
  Daemons, NoDaemon, MaxPairs, MaxHits, Faults,            \* SignIn
  People, Verified, Names, Founder, Codes, Home,           \* Accounts
  MaxMembers, MaxProfiles, MaxEdits,
  Tokens, NoToken, Kind, MaxFaults, MaxAsked,              \* Keys
  Threads,                                                 \* Accounts, Keys
  Flows, Apps, Pinned, Signed, Users, Agents, MaxChanges   \* Flow

VARIABLES
  part,                                                    \* the part that moves
  rows, admin, session, login, logout, file, pidfile,      \* SignIn
  proc, due, harmed, overlap, hits,
  links, invite, signup, crowded,                          \* Accounts
  scope, stored, thread, erred, faults, asked,             \* Keys
  published, cache, webLogin, pages, codes, access,        \* Flow
  refresh, chosen,
  profile, edits                                           \* Accounts, Flow

SignIn   == INSTANCE SignIn WITH MaxFaults <- MaxHits, faults <- hits
Accounts == INSTANCE Accounts WITH Requests <- Threads, request <- signup
Keys     == INSTANCE RailwayKeys
Flow     == INSTANCE McpOAuth WITH People <- Users, MaxEdits <- MaxChanges

ASSUME BackendAssumption ==
  /\ SignIn!SignInAssumption /\ Accounts!AccountsAssumption
  /\ Keys!RailwayKeysAssumption /\ Flow!McpOAuthAssumption

signInVars   == <<rows, admin, session, login, logout, file, pidfile, proc, due, harmed, overlap, hits>>
accountsVars == <<links, invite, signup, crowded>>
keysVars     == <<scope, stored, thread, erred, faults, asked>>
flowVars     == <<published, cache, webLogin, pages, codes, access, refresh, chosen>>
peopleVars   == <<profile, edits>>
backendVars  == <<part, signInVars, accountsVars, keysVars, flowVars, peopleVars>>

NoSignIn ==
  /\ rows = 0 /\ admin = 0 /\ session = 0 /\ login = 0 /\ logout = 0 /\ file = 0
  /\ pidfile = 0 /\ proc = 0 /\ due = 0 /\ harmed = 0 /\ overlap = 0 /\ hits = 0
NoAccounts == links = 0 /\ invite = 0 /\ signup = 0 /\ crowded = 0
NoKeys     == scope = 0 /\ stored = 0 /\ thread = 0 /\ erred = 0 /\ faults = 0 /\ asked = 0
NoFlow     == /\ published = 0 /\ cache = 0 /\ webLogin = 0 /\ pages = 0
              /\ codes = 0 /\ access = 0 /\ refresh = 0 /\ chosen = 0
NoPeople   == profile = 0 /\ edits = 0

BackendInit ==
  \/ part = "sign-in"  /\ SignIn!Init   /\ NoAccounts /\ NoKeys /\ NoFlow /\ NoPeople
  \/ part = "accounts" /\ Accounts!Init /\ NoSignIn /\ NoKeys /\ NoFlow
  \/ part = "keys"     /\ Keys!Init     /\ NoSignIn /\ NoAccounts /\ NoFlow /\ NoPeople
  \/ part = "flows"    /\ Flow!Init     /\ NoSignIn /\ NoAccounts /\ NoKeys

BackendNext ==
  /\ \/ /\ part = "sign-in" /\ SignIn!Next
        /\ UNCHANGED <<accountsVars, keysVars, flowVars, peopleVars>>
     \/ /\ part = "accounts" /\ Accounts!Next
        /\ UNCHANGED <<signInVars, keysVars, flowVars>>
     \/ /\ part = "keys" /\ Keys!Next
        /\ UNCHANGED <<signInVars, accountsVars, flowVars, peopleVars>>
     \/ /\ part = "flows" /\ Flow!Next
        /\ UNCHANGED <<signInVars, accountsVars, keysVars>>
  /\ UNCHANGED part

BackendSpec == BackendInit /\ [][BackendNext]_backendVars

(* The properties of the parts.                                            *)
StaysSignedIn          == part = "sign-in" => SignIn!StaysSignedIn
OneAccountPerPerson    == part = "accounts" => Accounts!OneAccountPerPerson
InvitesAreSpent        == part = "accounts" => Accounts!InvitesAreSpent
KeysAreJudgedByRailway == part = "keys" => Keys!KeysAreJudgedByRailway
ActsAsChosen           == part = "flows" => Flow!ActsAsChosen
==============================================================================
