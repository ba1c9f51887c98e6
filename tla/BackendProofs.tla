---------------------------- MODULE BackendProofs ----------------------------
(***************************************************************************)
(* Theorems about the four parts of Backend: the Railway tokens of an      *)
(* organisation, the apps that act over MCP, the accounts of people, and   *)
(* the sign-in of a computer; and about the task graph beside them.        *)
(* Each of the four is proved of the part by itself and holds of Backend,  *)
(* whose behaviours are those of its parts.                                *)
(***************************************************************************)
EXTENDS TaskGraph, Backend, FiniteSetTheorems, TLAPS

-----------------------------------------------------------------------------
(* A part that moves does so by its own specification, and goes on.        *)
LEMMA KeysMove ==
  /\ BackendInit /\ part = "keys" => Keys!Init
  /\ [BackendNext]_backendVars /\ part = "keys" => [Keys!Next]_Keys!vars /\ (part = "keys")'
  /\ [BackendNext]_backendVars /\ ~(part = "keys") => ~(part = "keys")'
BY DEF BackendInit, BackendNext, backendVars, keysVars, Keys!vars

LEMMA FlowsMove ==
  /\ BackendInit /\ part = "flows" => Flow!Init
  /\ [BackendNext]_backendVars /\ part = "flows" => [Flow!Next]_Flow!vars /\ (part = "flows")'
  /\ [BackendNext]_backendVars /\ ~(part = "flows") => ~(part = "flows")'
BY DEF BackendInit, BackendNext, backendVars, flowVars, peopleVars, Flow!vars

LEMMA AccountsMove ==
  /\ BackendInit /\ part = "accounts" => Accounts!Init
  /\ [BackendNext]_backendVars /\ part = "accounts"
       => [Accounts!Next]_Accounts!vars /\ (part = "accounts")'
  /\ [BackendNext]_backendVars /\ ~(part = "accounts") => ~(part = "accounts")'
BY DEF BackendInit, BackendNext, backendVars, accountsVars, peopleVars, Accounts!vars

-----------------------------------------------------------------------------
(* Railway tokens.                                                         *)

(* What a request has been told of its token on the way to the query it is *)
(* at: each refusal leaves fewer kinds that it can be of.                  *)
KeyThread(t) ==
  LET k == thread[t].token IN
  /\ thread[t].query # "none" => k \in Tokens
  /\ thread[t].query = "projects" => Kind[k] # "personal"
  /\ thread[t].query = "token" => Kind[k] \notin {"personal", "workspace"}

KeysInv ==
  /\ scope \in [Tokens -> {"unasked", "account", "project"}]
  /\ thread \in [Threads -> Keys!Thread]
  /\ \A t \in Threads : KeyThread(t)
  /\ Keys!KeysAreJudgedByRailway

LEMMA KeysInit == Keys!Init => KeysInv
BY DEF Keys!Init, Keys!Idle, Keys!Thread, Keys!Ops, KeysInv, KeyThread, Keys!KeysAreJudgedByRailway

(* A verdict is stored with the token that it is about, or leads on to the *)
(* services, or back.                                                      *)
LEMMA KeyJudged ==
  ASSUME Keys!RailwayKeysAssumption, KeysInv, NEW t \in Threads, NEW verdict,
         thread[t].query # "none", Keys!Judged(t, verdict),
         erred \subseteq erred',
         verdict = "invalid" => thread[t].token \in erred' \/ Kind[thread[t].token] = "bad",
         verdict = "valid" => Kind[thread[t].token] # "bad"
  PROVE  /\ thread' \in [Threads -> Keys!Thread]
         /\ \A u \in Threads : KeyThread(u)'
         /\ stored'.valid = "invalid" => stored'.token \in erred' \/ Kind[stored'.token] = "bad"
         /\ stored'.valid = "valid" => Kind[stored'.token] # "bad"
BY DEF Keys!RailwayKeysAssumption, KeysInv, KeyThread, Keys!Judged, Keys!Idle, Keys!Thread, Keys!Ops,
   Keys!KeysAreJudgedByRailway

LEMMA KeysStep ==
  ASSUME Keys!RailwayKeysAssumption, KeysInv, [Keys!Next]_Keys!vars
  PROVE  KeysInv'
<1> USE DEF Keys!RailwayKeysAssumption, KeysInv
<1>1. CASE UNCHANGED Keys!vars
  BY <1>1 DEF Keys!vars, KeyThread, Keys!KeysAreJudgedByRailway
<1>2. CASE Keys!Disconnect
  BY <1>2 DEF Keys!Disconnect, KeyThread, Keys!KeysAreJudgedByRailway
<1>3. CASE Keys!Restart
  BY <1>3 DEF Keys!Restart, Keys!Idle, Keys!Thread, Keys!Ops, KeyThread, Keys!KeysAreJudgedByRailway
<1>4. ASSUME NEW t \in Threads, Keys!Ask(t) PROVE KeysInv'
  BY <1>4 DEF Keys!Ask, Keys!Thread, Keys!Ops, KeyThread, Keys!KeysAreJudgedByRailway
<1>5. ASSUME NEW t \in Threads, Keys!AsksMe(t) PROVE KeysInv'
  <2> DEFINE k == thread[t].token
  <2>1. PICK answer \in Keys!Answers(k, "me") :
          /\ \/ answer = "ok" /\ Keys!Judged(t, "valid")
             \/ answer \in {"lost", "error"} /\ Keys!Judged(t, "unknown")
             \/ answer = "refused" /\ Keys!Goes(t, "projects")
          /\ scope' = IF answer = "ok" THEN [scope EXCEPT ![k] = "account"] ELSE scope
          /\ Keys!Counted(k, answer)
    BY <1>5 DEF Keys!AsksMe
  <2>2. /\ thread[t].query = "me" /\ k \in Tokens
        /\ answer = "ok" => Kind[k] = "personal"
        /\ answer = "refused" => Kind[k] # "personal"
        /\ erred \subseteq erred'
    BY <1>5, <2>1 DEF Keys!AsksMe, KeyThread, Keys!Answers, Keys!Answered, Keys!Counted
  <2> QED
    BY <2>1, <2>2, KeyJudged DEF KeyThread, Keys!Goes, Keys!Thread, Keys!KeysAreJudgedByRailway
<1>6. ASSUME NEW t \in Threads, Keys!AsksProjects(t) PROVE KeysInv'
  <2> DEFINE k == thread[t].token
  <2>1. PICK answer \in Keys!Answers(k, "projects") :
          /\ \/ answer # "refused" /\ Keys!Judged(t, Keys!TeamVerdict(answer))
             \/ answer = "refused" /\ Keys!Goes(t, "token")
          /\ scope' = IF answer = "ok" THEN [scope EXCEPT ![k] = "account"] ELSE scope
          /\ Keys!Counted(k, answer)
    BY <1>6 DEF Keys!AsksProjects
  <2>2. /\ thread[t].query = "projects" /\ k \in Tokens /\ Kind[k] # "personal"
        /\ answer \in {"ok", "refused", "lost", "error"}
        /\ answer = "ok" => Kind[k] = "workspace"
        /\ answer = "refused" => Kind[k] # "workspace"
        /\ answer = "error" => k \in erred'
        /\ erred \subseteq erred'
    BY <1>6, <2>1 DEF Keys!AsksProjects, KeyThread, Keys!Answers, Keys!Answered, Keys!Counted
  <2>3. CASE answer # "refused"
    <3>1. PICK verdict : verdict = Keys!TeamVerdict(answer)
      OBVIOUS
    <3>2. /\ verdict = "invalid" => answer = "error"
          /\ verdict = "valid" => answer = "ok"
      BY <2>2, <2>3, <3>1 DEF Keys!TeamVerdict
    <3>3. Keys!Judged(t, verdict)
      BY <2>1, <2>3, <3>1
    <3> QED
      BY <2>1, <2>2, <2>3, <3>2, <3>3, KeyJudged DEF Keys!KeysAreJudgedByRailway
  <2>4. CASE answer = "refused"
    BY <2>1, <2>2, <2>4 DEF KeyThread, Keys!Goes, Keys!Thread, Keys!KeysAreJudgedByRailway
  <2> QED
    BY <2>3, <2>4
<1>7. ASSUME NEW t \in Threads, Keys!AsksToken(t) PROVE KeysInv'
  <2> DEFINE k == thread[t].token
  <2>1. PICK answer \in Keys!Answers(k, "token") :
          /\ \/ answer = "ok" /\ Keys!Judged(t, "valid")
             \/ answer = "lost" /\ Keys!Judged(t, "unknown")
             \/ answer \in {"refused", "error"} /\ Keys!Judged(t, "invalid")
          /\ scope' = IF answer = "ok" THEN [scope EXCEPT ![k] = "project"] ELSE scope
          /\ Keys!Counted(k, answer)
    BY <1>7 DEF Keys!AsksToken
  <2>2. /\ thread[t].query = "token" /\ k \in Tokens
        /\ Kind[k] \in {"project", "bad"}
        /\ answer = "ok" => Kind[k] = "project"
        /\ answer = "refused" => Kind[k] = "bad"
        /\ answer = "error" => k \in erred'
        /\ erred \subseteq erred'
    BY <1>7, <2>1 DEF Keys!AsksToken, KeyThread, Keys!Answers, Keys!Answered, Keys!Counted
  <2> QED
    BY <2>1, <2>2, KeyJudged DEF Keys!KeysAreJudgedByRailway
<1>8. ASSUME NEW t \in Threads, Keys!AsksScope(t) PROVE KeysInv'
  <2> DEFINE k == thread[t].token
  <2>1. PICK answer \in Keys!Answers(k, "scope") :
          scope' = Keys!Kept(k, answer) /\ Keys!Counted(k, answer)
    BY <1>8 DEF Keys!AsksScope
  <2>2. /\ thread[t].query = "scope" /\ k \in Tokens
        /\ answer = "ok" => Kind[k] = "project"
        /\ answer = "refused" => Kind[k] # "project"
        /\ answer \in {"ok", "refused", "lost", "error"}
        /\ answer = "error" => k \in erred'
        /\ erred \subseteq erred'
    BY <1>8, <2>1 DEF Keys!AsksScope, KeyThread, Keys!Answers, Keys!Answered, Keys!Counted
  <2>3. thread' \in [Threads -> Keys!Thread] /\ \A u \in Threads : KeyThread(u)'
    BY <1>8 DEF Keys!AsksScope, Keys!Idle, Keys!Thread, Keys!Ops, KeyThread
  <2>4. scope' \in [Tokens -> {"unasked", "account", "project"}] /\ Keys!KeysAreJudgedByRailway'
    BY <1>8, <2>1, <2>2 DEF Keys!AsksScope, Keys!Kept, Keys!ScopeOf, Keys!KeysAreJudgedByRailway
  <2> QED
    BY <2>3, <2>4
<1>9. ASSUME NEW t \in Threads, Keys!AsksServices(t) PROVE KeysInv'
  <2> DEFINE k == thread[t].token
  <2>1. PICK answer \in Keys!Answers(k, "services") :
          /\ stored' = IF thread[t].op = "connect" THEN Keys!Connected(k, answer) ELSE stored
          /\ Keys!Counted(k, answer)
    BY <1>9 DEF Keys!AsksServices
  <2>2. /\ answer = "ok" => Kind[k] # "bad"
        /\ erred \subseteq erred'
    BY <1>9, <2>1 DEF Keys!AsksServices, KeyThread, Keys!Answers, Keys!Answered, Keys!Counted
  <2>3. thread' \in [Threads -> Keys!Thread] /\ \A u \in Threads : KeyThread(u)'
    BY <1>9 DEF Keys!AsksServices, Keys!Idle, Keys!Thread, Keys!Ops, KeyThread
  <2>4. Keys!KeysAreJudgedByRailway'
    BY <1>9, <2>1, <2>2 DEF Keys!AsksServices, Keys!Connected, Keys!KeysAreJudgedByRailway
  <2> QED
    BY <1>9, <2>3, <2>4 DEF Keys!AsksServices
<1> QED
  BY <1>1, <1>2, <1>3, <1>4, <1>5, <1>6, <1>7, <1>8, <1>9 DEF Keys!Next

(* Whatever queries are lost, refused or limited, and whichever requests   *)
(* and restarts come in between: a token is remembered and marked as what  *)
(* Railway says it is, and as bad only if Railway refused it - or answered *)
(* with an error that the adapter takes for a refusal.                     *)
LEMMA KeysJudged ==
  ASSUME Keys!RailwayKeysAssumption
  PROVE  Keys!Spec => []Keys!KeysAreJudgedByRailway
<1>1. KeysInv => Keys!KeysAreJudgedByRailway
  BY DEF KeysInv
<1> QED
  BY <1>1, KeysInit, KeysStep, PTL DEF Keys!Spec

(* So tokens are judged beside the other parts.                            *)
THEOREM RailwayJudgesTheKeys == BackendSpec => []KeysAreJudgedByRailway
<1>1. Keys!Spec => []Keys!KeysAreJudgedByRailway
  BY KeysJudged, BackendAssumption
<1>2. (part = "keys" => Keys!KeysAreJudgedByRailway) => KeysAreJudgedByRailway
  BY DEF KeysAreJudgedByRailway
<1> QED
  BY <1>1, <1>2, KeysMove, PTL DEF BackendSpec, Keys!Spec

-----------------------------------------------------------------------------
(* Apps over MCP.                                                          *)

(* The browser of a flow was sent back with a code for what was chosen.    *)
Chosen(g)    == [flow |-> g.flow, sub |-> g.sub, allowed |-> TRUE] \in chosen
GrantsChosen == \A g \in codes \cup access \cup refresh : Chosen(g)

(* A code is made only for an identity that the person on the page may     *)
(* choose at that moment.                                                  *)
LEMMA CodeIsChosen ==
  ASSUME GrantsChosen, NEW f, NEW p, NEW i \in {p} \cup Flow!AgentIdentities(p),
         Flow!RedirectWithCode(f, p, i), UNCHANGED <<access, refresh>>
  PROVE  GrantsChosen'
<1> DEFINE g == [flow |-> f, sub |-> i]
           h == [flow |-> f, sub |-> i, allowed |-> TRUE]
<1>1. codes' = codes \cup {g} /\ g.flow = f /\ g.sub = i
  BY DEF Flow!RedirectWithCode
<1>2. PICK b : b = (i \in {p} \cup Flow!AgentIdentities(p))
  OBVIOUS
<1>3. b = TRUE
  BY <1>2
<1>4. chosen' = chosen \cup {[flow |-> f, sub |-> i, allowed |-> b]}
  BY <1>2 DEF Flow!RedirectWithCode
<1>5. chosen' = chosen \cup {h}
  BY <1>3, <1>4
<1>6. Chosen(g)'
  BY <1>1, <1>5 DEF Chosen
<1>7. \A k \in codes \cup access \cup refresh : Chosen(k)'
  BY <1>5 DEF GrantsChosen, Chosen
<1> HIDE DEF g, h
<1> QED
  BY <1>1, <1>6, <1>7 DEF GrantsChosen

LEMMA FlowStep ==
  ASSUME GrantsChosen, [Flow!Next]_Flow!vars
  PROVE  GrantsChosen'
<1>1. CASE UNCHANGED <<codes, access, refresh, chosen>>
  BY <1>1 DEF GrantsChosen, Chosen
<1>2. CASE Flow!Expires
  BY <1>2 DEF Flow!Expires, GrantsChosen, Chosen
<1>3. ASSUME NEW f, NEW p, Flow!AfterSignIn(f, p), UNCHANGED <<access, refresh>>
      PROVE  GrantsChosen'
  BY <1>1, <1>3, CodeIsChosen DEF Flow!AfterSignIn, Flow!NoCode
<1>4. ASSUME NEW q, Flow!AuthorizeSso(q) PROVE GrantsChosen'
  BY <1>1, <1>3, <1>4 DEF Flow!AuthorizeSso, Flow!NoCode
<1>5. ASSUME NEW q, NEW p, Flow!SignIn(q, p) PROVE GrantsChosen'
  BY <1>1, <1>3, <1>5 DEF Flow!SignIn, Flow!NoCode
<1>6. ASSUME NEW q, NEW i, Flow!Pick(q, i) PROVE GrantsChosen'
  BY <1>1, <1>6, CodeIsChosen DEF Flow!Pick, Flow!NoCode
<1>7. ASSUME NEW f, NEW k \in codes, Flow!Exchange(f, k) PROVE GrantsChosen'
  <2> DEFINE g == [flow |-> f, sub |-> k.sub]
  <2>1. /\ access' = access \cup {g} /\ refresh' = refresh \cup {g}
        /\ UNCHANGED <<codes, chosen>> /\ f = k.flow
    BY <1>7 DEF Flow!Exchange, Flow!PkceOk, Flow!Granted
  <2>2. g.flow = f /\ g.sub = k.sub
    OBVIOUS
  <2> HIDE DEF g
  <2>3. Chosen(g)
    BY <2>1, <2>2 DEF GrantsChosen, Chosen
  <2> QED
    BY <2>1, <2>3 DEF GrantsChosen, Chosen
<1>8. ASSUME NEW r \in refresh, Flow!Refresh(r) PROVE GrantsChosen'
  BY <1>8 DEF Flow!Refresh, GrantsChosen, Chosen
<1> QED
  BY <1>1, <1>2, <1>4, <1>5, <1>6, <1>7, <1>8
     DEF Flow!Next, Flow!vars, Flow!Edits, Flow!Authorize, Flow!NoCode

(* However pages, codes and tokens come back late, twice or to another     *)
(* flow, and however roles change while a page is open, a token acts as    *)
(* what was chosen on its own flow's page by one who might choose it.      *)
LEMMA FlowsChosen == Flow!Spec => []Flow!ActsAsChosen
<1>1. Flow!Init => GrantsChosen
  BY DEF Flow!Init, GrantsChosen
<1>2. GrantsChosen => Flow!ActsAsChosen
  BY DEF GrantsChosen, Chosen, Flow!ActsAsChosen
<1> QED
  BY <1>1, <1>2, FlowStep, PTL DEF Flow!Spec

(* So apps act as chosen beside the other parts.                           *)
THEOREM FlowsActAsChosen == BackendSpec => []ActsAsChosen
<1>1. Flow!Spec => []Flow!ActsAsChosen
  BY FlowsChosen
<1>2. (part = "flows" => Flow!ActsAsChosen) => ActsAsChosen
  BY DEF ActsAsChosen
<1> QED
  BY <1>1, <1>2, FlowsMove, PTL DEF BackendSpec, Flow!Spec

-----------------------------------------------------------------------------
(* Accounts of people.                                                     *)

RequestFits(r) ==
  LET q == signup[r] IN
  /\ q.kind \in {"accept", "register", "cancel"} => q.code \in Codes
  /\ q.kind \in {"accept", "register", "link"} => q.person \in People
  /\ q.kind = "link" => q.id \in Accounts!Ids

AccountsTyped == Accounts!TypeOK /\ \A r \in Threads : RequestFits(r)

LEMMA AccountsConstants ==
  ASSUME Accounts!AccountsAssumption
  PROVE  /\ 1 \in Accounts!Ids /\ Accounts!Free \in Accounts!Profile
         /\ Accounts!Unissued \in Accounts!Invite /\ Accounts!Idle \in Accounts!Request
         /\ Codes \subseteq Accounts!Orgs
BY DEF Accounts!AccountsAssumption, Accounts!Ids, Accounts!Free, Accounts!Profile, Accounts!Unissued,
   Accounts!Invite, Accounts!Idle, Accounts!Request, Accounts!Orgs

LEMMA AccountType ==
  ASSUME Accounts!AccountsAssumption, AccountsTyped, NEW r \in Threads,
         signup[r].kind \in {"accept", "register"}
  PROVE  Accounts!Account(signup[r]) \in Accounts!Profile
BY DEF AccountsTyped, Accounts!TypeOK, RequestFits, Accounts!Account, Accounts!Profile,
   Accounts!Reported, Accounts!Request, Accounts!Invite, Accounts!ForAdmin

LEMMA SpentInvite ==
  ASSUME NEW x \in Accounts!Invite, NEW a \in SUBSET Accounts!Ids, NEW b \in BOOLEAN
  PROVE  [x EXCEPT !.accounts = a, !.late = b] \in Accounts!Invite
BY Zenon DEF Accounts!Invite

LEMMA AccountsTypeInit ==
  ASSUME Accounts!AccountsAssumption, Accounts!Init
  PROVE  AccountsTyped
<1> DEFINE F == [Accounts!Free EXCEPT !.state = "live", !.human = TRUE,
                                      !.admin = TRUE, !.via = "founder"]
<1>1. F \in Accounts!Profile
  BY AccountsConstants DEF Accounts!Profile
<1> HIDE DEF F
<1>2. profile \in [Accounts!Ids -> Accounts!Profile]
  BY <1>1, AccountsConstants DEF Accounts!Init, F
<1>3. edits \in 0..MaxEdits
  BY DEF Accounts!Init, Accounts!AccountsAssumption
<1>4. \A r \in Threads : RequestFits(r)
  BY DEF Accounts!Init, RequestFits, Accounts!Idle
<1> QED
  BY <1>2, <1>3, <1>4, AccountsConstants DEF Accounts!Init, AccountsTyped, Accounts!TypeOK

LEMMA AccountsTypeStep ==
  ASSUME Accounts!AccountsAssumption, AccountsTyped, [Accounts!Next]_Accounts!vars
  PROVE  AccountsTyped'
<1> USE DEF AccountsTyped, Accounts!TypeOK
<1>1. CASE UNCHANGED Accounts!vars
  BY <1>1 DEF Accounts!vars, RequestFits
<1>2. ASSUME NEW c \in Codes, Accounts!Expire(c) PROVE AccountsTyped'
  <2>1. edits' \in 0..MaxEdits
    BY <1>2 DEF Accounts!Expire, Accounts!Edits, Accounts!AccountsAssumption
  <2>2. invite' \in [Codes -> Accounts!Invite]
    BY <1>2 DEF Accounts!Expire, Accounts!Invite
  <2> QED
    BY <1>2, <2>1, <2>2 DEF Accounts!Expire, RequestFits
<1>3. ASSUME NEW c \in Codes, NEW o \in Accounts!Orgs, Accounts!CreateInvite(c, o)
      PROVE  AccountsTyped'
  <2> DEFINE v == [invite[c] EXCEPT !.state = "open", !.org = o]
  <2>1. v \in Accounts!Invite
    BY DEF Accounts!Invite
  <2>2. invite' = [invite EXCEPT ![c] = v]
    BY <1>3 DEF Accounts!CreateInvite
  <2> HIDE DEF v
  <2>3. invite' \in [Codes -> Accounts!Invite]
    BY <2>1, <2>2
  <2> QED
    BY <1>3, <2>3 DEF Accounts!CreateInvite, RequestFits
<1>4. ASSUME NEW r \in Threads, Accounts!Keep(r)
      PROVE  signup' \in [Threads -> Accounts!Request] /\ \A u \in Threads : RequestFits(u)'
  BY <1>4, AccountsConstants DEF Accounts!Keep, RequestFits, Accounts!Idle
<1>5. ASSUME NEW r \in Threads, Accounts!SignupFails(r) PROVE AccountsTyped'
  BY <1>4, <1>5 DEF Accounts!SignupFails
<1>6. ASSUME NEW r \in Threads, Accounts!LinkWrites(r) PROVE AccountsTyped'
  <2>1. links' \subseteq People \X Accounts!Ids
    BY <1>6 DEF Accounts!LinkWrites, RequestFits
  <2> QED
    BY <1>4, <1>6, <2>1 DEF Accounts!LinkWrites
<1>7. ASSUME NEW r \in Threads, Accounts!CancelWrites(r) PROVE AccountsTyped'
  <2>1. invite' \in [Codes -> Accounts!Invite]
    BY <1>7 DEF Accounts!CancelWrites, RequestFits, Accounts!Invite
  <2> QED
    BY <1>4, <1>7, <2>1 DEF Accounts!CancelWrites
<1>8. ASSUME NEW r \in Threads, Accounts!SignupWrites(r) PROVE AccountsTyped'
  <2> DEFINE q == signup[r]
  <2>1. PICK i \in Accounts!NextId :
          /\ profile' = [profile EXCEPT ![i] = Accounts!Account(q)]
          /\ invite' = [invite EXCEPT ![q.code].accounts = @ \cup {i},
                                      ![q.code].late = @ \/ invite[q.code].state = "cancelled"]
          /\ links' = IF q.kind = "register" /\ Accounts!Linked(q.person) = {}
                      THEN links \cup {<<q.person, i>>} ELSE links
    BY <1>8 DEF Accounts!SignupWrites
  <2>2. i \in Accounts!Ids /\ q.person \in People /\ q.code \in Codes
    BY <1>8, <2>1 DEF Accounts!NextId, Accounts!SignupWrites, RequestFits
  <2>3. profile' \in [Accounts!Ids -> Accounts!Profile]
    BY <1>8, <2>1, AccountType DEF Accounts!SignupWrites
  <2>4. links' \subseteq People \X Accounts!Ids
    BY <2>1, <2>2
  <2>5. invite' \in [Codes -> Accounts!Invite]
    <3> DEFINE x == invite[q.code]
               v == [x EXCEPT !.accounts = @ \cup {i}, !.late = @ \/ x.state = "cancelled"]
    <3>1. x \in Accounts!Invite /\ x.accounts \cup {i} \in SUBSET Accounts!Ids
      BY <2>2 DEF Accounts!Invite
    <3>2. v \in Accounts!Invite
      BY <3>1, SpentInvite
    <3>3. invite' = [invite EXCEPT ![q.code] = v]
      BY <2>1
    <3> HIDE DEF v
    <3> QED
      BY <3>2, <3>3
  <2>6. crowded' \subseteq Accounts!Orgs
    <3>1. \A t \in Accounts!Signups(r) : invite[signup[t].code].org \in Accounts!Orgs
      BY DEF Accounts!Signups, RequestFits, Accounts!Invite
    <3> QED
      BY <1>8, <2>2, <3>1, AccountsConstants DEF Accounts!SignupWrites, Accounts!Overlaps
  <2> QED
    BY <1>4, <1>8, <2>3, <2>4, <2>5, <2>6 DEF Accounts!SignupWrites
<1>9. ASSUME NEW r \in Threads, NEW kind, NEW p, NEW c, NEW n, NEW i,
             Accounts!Asks(r, kind, p, c, n, i),
             UNCHANGED <<profile, links, invite, crowded, edits>>,
             [kind |-> kind, person |-> p, code |-> c, name |-> n, id |-> i] \in Accounts!Request,
             kind \in {"accept", "register", "cancel"} => c \in Codes,
             kind \in {"accept", "register", "link"} => p \in People,
             kind = "link" => i \in Accounts!Ids
      PROVE  AccountsTyped'
  BY <1>9 DEF Accounts!Asks, RequestFits
<1>10. ASSUME NEW r \in Threads, NEW c \in Codes, Accounts!CancelReads(r, c) PROVE AccountsTyped'
  <2>1. [kind |-> "cancel", person |-> Nobody, code |-> c, name |-> Accounts!Free.name, id |-> 0]
          \in Accounts!Request
    BY AccountsConstants DEF Accounts!Request, Accounts!Profile
  <2> QED
    BY <1>9, <1>10, <2>1 DEF Accounts!CancelReads
<1>11. ASSUME NEW r \in Threads, NEW p \in People, Accounts!OAuthLinks(r, p) PROVE AccountsTyped'
  <2>1. PICK i \in Accounts!Owner(p) : Accounts!Asks(r, "link", p, Home, profile[i].name, i)
    BY <1>11 DEF Accounts!OAuthLinks
  <2>2. i \in Accounts!Ids
    BY DEF Accounts!Owner, Accounts!Live
  <2>3. [kind |-> "link", person |-> p, code |-> Home, name |-> profile[i].name, id |-> i]
          \in Accounts!Request
    BY <2>2 DEF Accounts!Request, Accounts!Profile, Accounts!Orgs
  <2> QED
    BY <1>9, <1>11, <2>1, <2>2, <2>3 DEF Accounts!OAuthLinks
<1>12. ASSUME NEW r \in Threads, NEW p \in People, NEW c \in Codes, NEW n \in Names,
              Accounts!AcceptReads(r, p, c, n) \/ Accounts!OAuthReads(r, p, c, n)
       PROVE  AccountsTyped'
  <2>1. \A kind \in {"accept", "register"} :
          [kind |-> kind, person |-> p, code |-> c, name |-> n, id |-> 0] \in Accounts!Request
    BY DEF Accounts!Request, Accounts!Orgs
  <2> QED
    BY <1>9, <1>12, <2>1 DEF Accounts!AcceptReads, Accounts!OAuthReads
<1>13. ASSUME NEW o \in Accounts!Orgs, NEW n \in Names,
              Accounts!CreatePerson(o, n) \/ Accounts!CreateServiceAccount(o, n)
       PROVE  AccountsTyped'
  <2> DEFINE made == \E human \in BOOLEAN : Accounts!CreateProfile(o, n, human)
  <2>3. Accounts!Edits /\ made
    BY <1>13 DEF Accounts!CreatePerson, Accounts!CreateServiceAccount
  <2>1. edits' \in 0..MaxEdits
    <3> HIDE DEF made
    <3> QED
      BY <2>3 DEF Accounts!Edits, Accounts!AccountsAssumption
  <2>2. ASSUME NEW human \in BOOLEAN, Accounts!CreateProfile(o, n, human) PROVE AccountsTyped'
    <3> DEFINE x == [Accounts!Free EXCEPT !.state = "live", !.org = o, !.name = n, !.human = human]
    <3>1. x \in Accounts!Profile
      BY AccountsConstants DEF Accounts!Profile
    <3>2. \E i \in Accounts!NextId : profile' = [profile EXCEPT ![i] = x]
      BY <2>2 DEF Accounts!CreateProfile
    <3> HIDE DEF x
    <3>3. profile' \in [Accounts!Ids -> Accounts!Profile]
      BY <3>1, <3>2
    <3> QED
      BY <2>1, <2>2, <3>3 DEF Accounts!CreateProfile, RequestFits
  <2> QED
    BY <2>2, <2>3
<1>14. ASSUME NEW i \in Accounts!Ids, NEW x \in Accounts!Profile,
              profile' = [profile EXCEPT ![i] = x], Accounts!Edits,
              links' \subseteq links, UNCHANGED <<invite, signup, crowded>>
       PROVE  AccountsTyped'
  <2>1. edits' \in 0..MaxEdits
    BY <1>14 DEF Accounts!Edits, Accounts!AccountsAssumption
  <2> QED
    BY <1>14, <2>1 DEF RequestFits
<1>15. ASSUME NEW i \in Accounts!Ids, Accounts!DeleteProfile(i) PROVE AccountsTyped'
  <2> DEFINE x == [Accounts!Free EXCEPT !.state = "deleted", !.org = profile[i].org]
  <2>1. x \in Accounts!Profile
    BY AccountsConstants DEF Accounts!Profile
  <2>2. profile' = [profile EXCEPT ![i] = x]
    BY <1>15 DEF Accounts!DeleteProfile
  <2> HIDE DEF x
  <2> QED
    BY <1>14, <1>15, <2>1, <2>2 DEF Accounts!DeleteProfile, Accounts!Unlinked
<1>16. ASSUME NEW i \in Accounts!Ids, Accounts!UpdateRoles(i) PROVE AccountsTyped'
  <2> DEFINE x == [profile[i] EXCEPT !.admin = ~@]
  <2>1. x \in Accounts!Profile
    BY DEF Accounts!Profile
  <2>2. profile' = [profile EXCEPT ![i] = x]
    BY <1>16 DEF Accounts!UpdateRoles
  <2> HIDE DEF x
  <2> QED
    BY <1>14, <1>16, <2>1, <2>2 DEF Accounts!UpdateRoles
<1>17. ASSUME NEW i \in Accounts!Ids, NEW p \in People, Accounts!UpdateEmail(i, p) PROVE AccountsTyped'
  <2> DEFINE x == [profile[i] EXCEPT !.email = p]
  <2>1. x \in Accounts!Profile
    BY DEF Accounts!Profile
  <2>2. profile' = [profile EXCEPT ![i] = x]
    BY <1>17 DEF Accounts!UpdateEmail
  <2> HIDE DEF x
  <2> QED
    BY <1>14, <1>17, <2>1, <2>2 DEF Accounts!UpdateEmail
<1> QED
  BY <1>1, <1>2, <1>3, <1>5, <1>6, <1>7, <1>8, <1>10, <1>11, <1>12, <1>13, <1>15, <1>16, <1>17
     DEF Accounts!Next

(* The accounts count with the same library.                               *)
LEMMA SameCardinality == \A S : Accounts!Cardinality(S) = Cardinality(S)
BY DEF Accounts!Cardinality, Cardinality

(* One account per address; a provider's account is linked to one profile  *)
(* at most, which lives; and a profile that a provider's sign-up has made  *)
(* keeps the link that was made with it.                                   *)
EmailInv == \A i, j \in Accounts!Live : i # j => \/ profile[i].email = Nobody
                                                \/ profile[i].email # profile[j].email

LinkInv ==
  /\ \A p \in People, i \in Accounts!Ids : <<p, i>> \in links => i \in Accounts!Live
  /\ \A p \in People, i, j \in Accounts!Ids : <<p, i>> \in links /\ <<p, j>> \in links => i = j
  /\ \A i \in Accounts!Live : profile[i].via = "provider" =>
       profile[i].who \in People /\ <<profile[i].who, i>> \in links

(* A new profile.                                                          *)
LEMMA NewProfile ==
  ASSUME AccountsTyped, NEW i \in Accounts!NextId, NEW x, x.state = "live",
         profile' = [profile EXCEPT ![i] = x]
  PROVE  /\ i \in Accounts!Ids /\ i \notin Accounts!Live /\ profile'[i] = x
         /\ Accounts!Live' = Accounts!Live \cup {i}
         /\ \A j \in Accounts!Live : profile'[j] = profile[j]
BY DEF AccountsTyped, Accounts!TypeOK, Accounts!NextId, Accounts!Live

(* A profile that is edited, and stays.                                    *)
LEMMA EditedProfile ==
  ASSUME AccountsTyped, NEW i \in Accounts!Live, NEW x, x.state = "live",
         profile' = [profile EXCEPT ![i] = x]
  PROVE  /\ Accounts!Live' = Accounts!Live /\ profile'[i] = x
         /\ \A j \in Accounts!Live \ {i} : profile'[j] = profile[j]
BY DEF AccountsTyped, Accounts!TypeOK, Accounts!Live

LEMMA SignupEffect ==
  ASSUME Accounts!AccountsAssumption, AccountsTyped, NEW r \in Threads, Accounts!SignupWrites(r)
  PROVE  \E i \in Accounts!NextId :
           LET q == signup[r] IN
           /\ profile' = [profile EXCEPT ![i] = Accounts!Account(q)]
           /\ invite' = [invite EXCEPT ![q.code].accounts = @ \cup {i},
                                       ![q.code].late = @ \/ invite[q.code].state = "cancelled"]
           /\ links' = IF q.kind = "register" THEN links \cup {<<q.person, i>>} ELSE links
           /\ q.kind = "register" => Accounts!Linked(q.person) = {}
           /\ q.kind \in {"accept", "register"} /\ q.person \in People /\ q.code \in Codes
           /\ ~Accounts!Refused(q)
BY DEF AccountsTyped, RequestFits, Accounts!SignupWrites, Accounts!Refused

LEMMA OneAccountSignup ==
  ASSUME Accounts!AccountsAssumption, AccountsTyped, EmailInv, LinkInv,
         NEW r \in Threads, Accounts!SignupWrites(r)
  PROVE  EmailInv' /\ LinkInv'
<1> DEFINE q == signup[r]
           x == Accounts!Account(q)
<1>1. PICK i \in Accounts!NextId :
        /\ profile' = [profile EXCEPT ![i] = x]
        /\ links' = IF q.kind = "register" THEN links \cup {<<q.person, i>>} ELSE links
        /\ q.kind = "register" => Accounts!Linked(q.person) = {}
        /\ q.kind \in {"accept", "register"} /\ q.person \in People
        /\ ~Accounts!Refused(q)
  BY SignupEffect
<1>2. /\ x.state = "live" /\ x.who = q.person
      /\ x.via = "provider" => q.kind = "register"
      /\ x.email # Nobody => Accounts!Owner(x.email) = {}
  BY <1>1 DEF Accounts!Account, Accounts!Refused
<1> HIDE DEF x
<1>3. /\ i \in Accounts!Ids /\ i \notin Accounts!Live /\ profile'[i] = x
      /\ Accounts!Live' = Accounts!Live \cup {i}
      /\ \A j \in Accounts!Live : profile'[j] = profile[j]
  BY <1>1, <1>2, NewProfile
<1>4. EmailInv'
  BY <1>2, <1>3 DEF EmailInv, Accounts!Owner
<1>5. LinkInv'
  BY <1>1, <1>2, <1>3 DEF LinkInv, Accounts!Linked
<1> QED
  BY <1>4, <1>5

LEMMA OneAccountStep ==
  ASSUME Accounts!AccountsAssumption, AccountsTyped, EmailInv, LinkInv, [Accounts!Next]_Accounts!vars
  PROVE  EmailInv' /\ LinkInv'
<1>1. CASE UNCHANGED <<profile, links>>
  BY <1>1 DEF EmailInv, LinkInv, Accounts!Live
<1>2. ASSUME NEW r \in Threads, Accounts!LinkWrites(r) PROVE EmailInv' /\ LinkInv'
  <2>1. /\ UNCHANGED profile
        /\ \/ UNCHANGED links
           \/ /\ Accounts!Linked(signup[r].person) = {} /\ signup[r].id \in Accounts!Live
              /\ links' = links \cup {<<signup[r].person, signup[r].id>>}
    BY <1>2 DEF Accounts!LinkWrites
  <2> QED
    BY <2>1 DEF EmailInv, LinkInv, Accounts!Linked, Accounts!Live
<1>3. ASSUME NEW o, NEW n, NEW human, Accounts!CreateProfile(o, n, human)
      PROVE  EmailInv' /\ LinkInv'
  <2> DEFINE x == [Accounts!Free EXCEPT !.state = "live", !.org = o, !.name = n, !.human = human]
  <2>1. PICK i \in Accounts!NextId : profile' = [profile EXCEPT ![i] = x]
    BY <1>3 DEF Accounts!CreateProfile
  <2>2. x.state = "live" /\ x.email = Nobody /\ x.via = "admin"
    BY DEF Accounts!Free
  <2> HIDE DEF x
  <2>3. /\ i \in Accounts!Ids /\ i \notin Accounts!Live /\ profile'[i] = x
        /\ Accounts!Live' = Accounts!Live \cup {i} /\ links' = links
        /\ \A j \in Accounts!Live : profile'[j] = profile[j]
    BY <1>3, <2>1, <2>2, NewProfile DEF Accounts!CreateProfile
  <2>4. EmailInv'
    BY <2>2, <2>3 DEF EmailInv
  <2>5. LinkInv'
    BY <2>2, <2>3 DEF LinkInv
  <2> QED
    BY <2>4, <2>5
<1>4. ASSUME NEW i \in Accounts!Ids, Accounts!UpdateRoles(i) PROVE EmailInv' /\ LinkInv'
  <2> DEFINE x == [profile[i] EXCEPT !.admin = ~@]
  <2>1. i \in Accounts!Live /\ profile' = [profile EXCEPT ![i] = x] /\ UNCHANGED links
    BY <1>4 DEF Accounts!UpdateRoles
  <2>2. /\ x.state = "live" /\ x.email = profile[i].email
        /\ x.via = profile[i].via /\ x.who = profile[i].who
    BY <2>1 DEF AccountsTyped, Accounts!TypeOK, Accounts!Profile, Accounts!Live
  <2> HIDE DEF x
  <2>3. /\ Accounts!Live' = Accounts!Live /\ profile'[i] = x
        /\ \A j \in Accounts!Live \ {i} : profile'[j] = profile[j]
    BY <2>1, <2>2, EditedProfile
  <2>4. EmailInv'
    BY <2>1, <2>2, <2>3 DEF EmailInv
  <2>5. LinkInv'
    BY <2>1, <2>2, <2>3 DEF LinkInv
  <2> QED
    BY <2>4, <2>5
<1>5. ASSUME NEW i \in Accounts!Ids, NEW p \in People, Accounts!UpdateEmail(i, p)
      PROVE  EmailInv' /\ LinkInv'
  <2> DEFINE x == [profile[i] EXCEPT !.email = p]
  <2>1. /\ i \in Accounts!Live /\ profile' = [profile EXCEPT ![i] = x] /\ UNCHANGED links
        /\ Accounts!Owner(p) = {}
    BY <1>5 DEF Accounts!UpdateEmail
  <2>2. /\ x.state = "live" /\ x.email = p
        /\ x.via = profile[i].via /\ x.who = profile[i].who
    BY <2>1 DEF AccountsTyped, Accounts!TypeOK, Accounts!Profile, Accounts!Live
  <2> HIDE DEF x
  <2>3. /\ Accounts!Live' = Accounts!Live /\ profile'[i] = x
        /\ \A j \in Accounts!Live \ {i} : profile'[j] = profile[j]
    BY <2>1, <2>2, EditedProfile
  <2>4. EmailInv'
    BY <2>1, <2>2, <2>3 DEF EmailInv, Accounts!Owner
  <2>5. LinkInv'
    BY <2>1, <2>2, <2>3 DEF LinkInv
  <2> QED
    BY <2>4, <2>5
<1>6. ASSUME NEW i \in Accounts!Ids, Accounts!DeleteProfile(i) PROVE EmailInv' /\ LinkInv'
  <2> DEFINE x == [Accounts!Free EXCEPT !.state = "deleted", !.org = profile[i].org]
  <2>1. profile' = [profile EXCEPT ![i] = x] /\ links' = {l \in links : l[2] # i}
    BY <1>6 DEF Accounts!DeleteProfile, Accounts!Unlinked
  <2>2. x.state = "deleted"
    BY DEF Accounts!Free
  <2> HIDE DEF x
  <2>3. /\ Accounts!Live' = Accounts!Live \ {i}
        /\ \A j \in Accounts!Live \ {i} : profile'[j] = profile[j]
    BY <2>1, <2>2 DEF AccountsTyped, Accounts!TypeOK, Accounts!Live
  <2>4. \A p \in People, j \in Accounts!Ids : <<p, j>> \in links' <=> <<p, j>> \in links /\ j # i
    BY <2>1
  <2> QED
    BY <2>3, <2>4 DEF EmailInv, LinkInv, Accounts!Live
<1> QED
  BY <1>1, <1>2, <1>3, <1>4, <1>5, <1>6, OneAccountSignup, ZenonT(40)
     DEF Accounts!Next, Accounts!vars, Accounts!Expire, Accounts!CreateInvite, Accounts!SignupFails,
         Accounts!CancelWrites, Accounts!CancelReads, Accounts!OAuthLinks, Accounts!AcceptReads,
         Accounts!OAuthReads, Accounts!CreatePerson, Accounts!CreateServiceAccount

LEMMA OneAccountFollows ==
  ASSUME AccountsTyped, EmailInv, LinkInv
  PROVE  Accounts!OneAccountPerPerson
<1>1. ASSUME NEW p \in People PROVE Cardinality(Accounts!Linked(p)) <= 1
  <2>1. CASE Accounts!Linked(p) = {}
    BY <2>1, FS_EmptySet
  <2>2. CASE Accounts!Linked(p) # {}
    <3>1. PICK i : i \in Accounts!Linked(p)
      BY <2>2
    <3>2. Accounts!Linked(p) = {i}
      BY <3>1 DEF LinkInv, Accounts!Linked
    <3>3. Cardinality({i}) = 1
      BY FS_Singleton
    <3> QED
      BY <3>2, <3>3
  <2> QED
    BY <2>1, <2>2
<1>2. \A p \in People : Accounts!Linked(p) \subseteq Accounts!Live
  BY DEF LinkInv, Accounts!Linked
<1>3. \A i, j \in Accounts!Live :
        i # j /\ profile[i].via = "provider" /\ profile[j].via = "provider"
          => profile[i].who # profile[j].who
  BY DEF LinkInv, Accounts!Live
<1>4. \A i, j \in Accounts!Live : i # j => \/ profile[i].email = Nobody
                                           \/ profile[i].email # profile[j].email
  BY DEF EmailInv
<1> QED
  BY <1>1, <1>2, <1>3, <1>4, SameCardinality DEF Accounts!OneAccountPerPerson

(* However sign-ups by password and by provider, links, deletions, edits   *)
(* and new addresses interleave: one account per address and per           *)
(* provider's account, and no link that leads to a deleted profile.        *)
LEMMA OneAccountEach ==
  ASSUME Accounts!AccountsAssumption
  PROVE  Accounts!Spec => []Accounts!OneAccountPerPerson
<1>1. Accounts!Init => EmailInv /\ LinkInv
  BY DEF Accounts!Init, EmailInv, LinkInv, Accounts!Live, Accounts!Free
<1> QED
  BY <1>1, AccountsTypeInit, AccountsTypeStep, OneAccountStep, OneAccountFollows, PTL
     DEF Accounts!Spec

(* So people have one account each beside the other parts.                 *)
THEOREM PeopleHaveOneAccount == BackendSpec => []OneAccountPerPerson
<1>1. Accounts!Spec => []Accounts!OneAccountPerPerson
  BY OneAccountEach, BackendAssumption
<1>2. (part = "accounts" => Accounts!OneAccountPerPerson) => OneAccountPerPerson
  BY DEF OneAccountPerPerson
<1> QED
  BY <1>1, <1>2, AccountsMove, PTL DEF BackendSpec, Accounts!Spec

-----------------------------------------------------------------------------
(* Invitations and the members of an organisation.                         *)

InFlight(r) == signup[r].kind \in {"accept", "register"}
Members(o)  == {i \in Accounts!Live : profile[i].org = o /\ profile[i].via # "admin"}

(* An organisation that an invitation founds has no profile until the      *)
(* invitation is spent; the invitations of any other follow its founding.  *)
FoundingInv ==
  /\ \A r \in Threads : InFlight(r) => invite[signup[r].code].state # "none"
  /\ \A c \in Codes : Accounts!Founded(c) => invite[c].accounts # {}
  /\ \A c \in Codes : invite[c].state # "none" /\ ~Accounts!ForAdmin(c)
                        => Accounts!Founded(invite[c].org)

(* Until sign-ups overlap, one that is under way finds the invitation and  *)
(* the room that it has read.                                              *)
SpendInv ==
  \A c \in Codes \ crowded :
    /\ Cardinality(invite[c].accounts) <= 1
    /\ \A r \in Threads : InFlight(r) /\ signup[r].code = c => invite[c].accounts = {}

RoomInv ==
  \A o \in Accounts!Orgs \ crowded :
    /\ Cardinality(Members(o)) <= MaxMembers + 1
    /\ \A r \in Threads : InFlight(r) /\ invite[signup[r].code].org = o
                             => Cardinality(Members(o)) <= MaxMembers

CancelInv == \A r \in Threads : signup[r].kind = "cancel" => invite[signup[r].code].state # "none"

InvitesInv ==
  /\ FoundingInv /\ SpendInv /\ RoomInv
  /\ \A c \in Codes : ~invite[c].late
  /\ \A i \in Accounts!Live : profile[i].via # "admin" => profile[i].human

LEMMA MembersFinite ==
  ASSUME Accounts!AccountsAssumption, NEW S \in SUBSET Accounts!Ids
  PROVE  IsFiniteSet(S) /\ Cardinality(S) \in Nat
<1>1. IsFiniteSet(1..MaxProfiles)
  BY FS_Interval DEF Accounts!AccountsAssumption
<1>2. IsFiniteSet(S)
  BY <1>1, FS_Subset DEF Accounts!Ids
<1> QED
  BY <1>2, FS_CardinalityType

LEMMA FewerMembers ==
  ASSUME Accounts!AccountsAssumption, NEW S \in SUBSET Accounts!Ids, NEW T \in SUBSET S
  PROVE  Cardinality(T) \in Nat /\ Cardinality(S) \in Nat /\ Cardinality(T) <= Cardinality(S)
BY MembersFinite, FS_Subset

LEMMA OneMoreMember ==
  ASSUME Accounts!AccountsAssumption, NEW S \in SUBSET Accounts!Ids, NEW i \in Accounts!Ids
  PROVE  Cardinality(S) \in Nat /\ Cardinality(S \cup {i}) <= Cardinality(S) + 1
<1>1. /\ IsFiniteSet(S) /\ Cardinality(S) \in Nat
  BY MembersFinite
<1>2. CASE i \in S
  <2>1. Cardinality(S \cup {i}) = Cardinality(S)
    <3>1. S \cup {i} = S
      BY <1>2
    <3> QED
      BY <3>1
  <2> QED
    BY <1>1, <2>1
<1>3. CASE i \notin S
  <2>1. Cardinality(S \cup {i}) = Cardinality(S) + 1
    BY <1>1, <1>3, FS_AddElement
  <2> QED
    BY <1>1, <2>1
<1> QED
  BY <1>2, <1>3

(* Steps that take in nobody.                                              *)
LEMMA NobodyComes ==
  ASSUME Accounts!AccountsAssumption, AccountsTyped, AccountsTyped', InvitesInv, UNCHANGED crowded,
         \A c \in Codes : /\ invite'[c].org = invite[c].org
                          /\ invite'[c].accounts = invite[c].accounts
                          /\ invite'[c].late = invite[c].late
                          /\ invite'[c].state = "none" <=> invite[c].state = "none",
         \A r \in Threads : InFlight(r)' => InFlight(r) /\ signup'[r].code = signup[r].code,
         \A o \in Accounts!Orgs : /\ Members(o)' \subseteq Members(o)
                                  /\ Accounts!Founded(o)' <=> Accounts!Founded(o),
         \A i \in Accounts!Live' : profile'[i].via # "admin" => profile'[i].human
  PROVE  InvitesInv'
<1>1. \A r \in Threads : InFlight(r) => signup[r].code \in Codes
  BY DEF AccountsTyped, RequestFits, InFlight
<1>2. \A c \in Codes : invite[c].org \in Accounts!Orgs /\ c \in Accounts!Orgs
  BY DEF AccountsTyped, Accounts!TypeOK, Accounts!Invite, Accounts!Orgs
<1>3. FoundingInv'
  BY <1>1, <1>2 DEF InvitesInv, FoundingInv, Accounts!ForAdmin
<1>4. SpendInv'
  BY DEF InvitesInv, SpendInv
<1>5. RoomInv'
  <2> SUFFICES ASSUME NEW o \in Accounts!Orgs \ crowded
               PROVE  /\ Cardinality(Members(o)') <= MaxMembers + 1
                      /\ \A r \in Threads : InFlight(r)' /\ invite'[signup'[r].code].org = o
                                               => Cardinality(Members(o)') <= MaxMembers
    BY DEF RoomInv
  <2>1. Members(o) \in SUBSET Accounts!Ids /\ Members(o)' \in SUBSET Members(o)
    BY DEF Members, Accounts!Live
  <2>2. /\ Cardinality(Members(o)') \in Nat /\ Cardinality(Members(o)) \in Nat
        /\ Cardinality(Members(o)') <= Cardinality(Members(o))
    BY <2>1, FewerMembers
  <2>3. MaxMembers \in Nat
    BY DEF Accounts!AccountsAssumption
  <2>4. /\ Cardinality(Members(o)) <= MaxMembers + 1
        /\ \A r \in Threads : InFlight(r) /\ invite[signup[r].code].org = o
                                 => Cardinality(Members(o)) <= MaxMembers
    BY DEF InvitesInv, RoomInv
  <2> QED
    BY <1>1, <2>2, <2>3, <2>4
<1> QED
  BY <1>3, <1>4, <1>5 DEF InvitesInv

(* A sign-up has read its invitation, and the room in the organisation.    *)
LEMMA InviteRead ==
  ASSUME Accounts!AccountsAssumption, AccountsTyped, InvitesInv, NEW r \in Threads,
         NEW kind \in {"accept", "register"}, NEW p, NEW c \in Codes, NEW n,
         Accounts!Valid(c), Accounts!Asks(r, kind, p, c, n, 0),
         UNCHANGED <<profile, invite, crowded>>
  PROVE  InvitesInv'
<1>1. /\ signup'[r].code = c
      /\ \A u \in Threads \ {r} : signup'[u] = signup[u]
  BY DEF AccountsTyped, Accounts!TypeOK, Accounts!Asks
<1>2. \A o : Members(o)' = Members(o)
  BY DEF Members, Accounts!Live
<1>3. FoundingInv'
  BY <1>1 DEF InvitesInv, FoundingInv, InFlight, Accounts!Founded, Accounts!ForAdmin, Accounts!Valid
<1>4. SpendInv'
  BY <1>1 DEF InvitesInv, SpendInv, InFlight, Accounts!Valid
<1>5. Cardinality(Members(invite[c].org)) <= MaxMembers
  <2> DEFINE o == invite[c].org
  <2>1. CASE Accounts!ForAdmin(c)
    <3>1. o = c /\ ~Accounts!Founded(c)
      BY <2>1 DEF InvitesInv, FoundingInv, Accounts!ForAdmin, Accounts!Valid
    <3>2. Members(o) = {}
      BY <3>1 DEF Members, Accounts!Founded, Accounts!Live
    <3> QED
      BY <3>2, FS_EmptySet DEF Accounts!AccountsAssumption
  <2>2. CASE ~Accounts!ForAdmin(c)
    <3> DEFINE H == {i \in Accounts!Live : profile[i].org = o /\ profile[i].human}
    <3>1. Cardinality(H) <= MaxMembers
      BY <2>2, SameCardinality DEF Accounts!Valid, Accounts!Room
    <3>2. H \in SUBSET Accounts!Ids /\ Members(o) \in SUBSET H
      BY DEF InvitesInv, Members, Accounts!Live
    <3> HIDE DEF H
    <3>3. /\ Cardinality(Members(o)) \in Nat /\ Cardinality(H) \in Nat
          /\ Cardinality(Members(o)) <= Cardinality(H)
      BY <3>2, FewerMembers
    <3> QED
      BY <3>1, <3>3 DEF Accounts!AccountsAssumption
  <2> QED
    BY <2>1, <2>2
<1>6. RoomInv'
  BY <1>1, <1>2, <1>5 DEF InvitesInv, RoomInv, InFlight
<1> QED
  BY <1>3, <1>4, <1>6 DEF InvitesInv, Accounts!Live

(* The sign-up makes its account.                                          *)
LEMMA InviteSpent ==
  ASSUME Accounts!AccountsAssumption, AccountsTyped, InvitesInv, NEW r \in Threads,
         Accounts!SignupWrites(r)
  PROVE  InvitesInv'
<1>0. PICK q, c, o, x :
        q = signup[r] /\ c = q.code /\ o = invite[c].org /\ x = Accounts!Account(q)
  OBVIOUS
<1>1. PICK i \in Accounts!NextId :
        /\ profile' = [profile EXCEPT ![i] = x]
        /\ invite' = [invite EXCEPT ![c].accounts = @ \cup {i},
                                    ![c].late = @ \/ invite[c].state = "cancelled"]
        /\ q.kind \in {"accept", "register"} /\ c \in Codes
        /\ ~Accounts!Refused(q)
  BY <1>0, SignupEffect
<1>2. x.state = "live" /\ x.org = o /\ x.via # "admin" /\ x.human
  BY <1>0, <1>1 DEF Accounts!Account
<1>3. o \in Accounts!Orgs /\ c \in Accounts!Orgs /\ InFlight(r)
  BY <1>0, <1>1 DEF AccountsTyped, Accounts!TypeOK, Accounts!Invite, Accounts!Orgs, InFlight
<1>4. /\ i \in Accounts!Ids /\ i \notin Accounts!Live /\ profile'[i] = x
      /\ Accounts!Live' = Accounts!Live \cup {i}
      /\ \A j \in Accounts!Live : profile'[j] = profile[j]
  BY <1>1, <1>2, NewProfile
<1>5. Members(o)' = Members(o) \cup {i} /\ \A b : b # o => Members(b)' = Members(b)
  BY <1>2, <1>4 DEF Members
<1>6. \A b : Accounts!Founded(b)' <=> Accounts!Founded(b) \/ b = o
  BY <1>1, <1>2, <1>4 DEF Accounts!Founded, Accounts!NextId, AccountsTyped, Accounts!TypeOK
<1>7. /\ \A d \in Codes : invite'[d].org = invite[d].org /\ invite'[d].state = invite[d].state
      /\ \A d \in Codes \ {c} : invite'[d] = invite[d]
      /\ invite'[c].accounts = invite[c].accounts \cup {i}
      /\ invite'[c].late = (invite[c].late \/ invite[c].state = "cancelled")
  BY <1>1 DEF AccountsTyped, Accounts!TypeOK, Accounts!Invite
<1>8. /\ ~InFlight(r)' /\ \A u \in Threads \ {r} : signup'[u] = signup[u]
      /\ crowded' = crowded \cup Accounts!Overlaps(r, c)
  BY <1>0 DEF Accounts!SignupWrites, Accounts!Keep, Accounts!Idle, InFlight, AccountsTyped, Accounts!TypeOK
<1>9. \A u \in Threads \ {r} : InFlight(u) =>
        /\ u \in Accounts!Signups(r)
        /\ signup[u].code = c => c \in crowded'
        /\ invite[signup[u].code].org = o => o \in crowded'
  BY <1>0, <1>8 DEF Accounts!Overlaps, Accounts!Signups, InFlight
<1>10. \A u \in Threads : InFlight(u)' => u # r /\ InFlight(u) /\ signup'[u] = signup[u]
  BY <1>8 DEF InFlight
<1>11. \A u \in Threads : InFlight(u) => signup[u].code \in Codes
  BY DEF AccountsTyped, RequestFits, InFlight
<1>12. FoundingInv'
  <2>1. \A d \in Codes : Accounts!Founded(d)' => invite'[d].accounts # {}
    <3> SUFFICES ASSUME NEW d \in Codes, Accounts!Founded(d)' PROVE invite'[d].accounts # {}
      OBVIOUS
    <3>1. CASE d = c
      BY <1>7, <3>1
    <3>2. CASE d # c
      <4>1. Accounts!Founded(d)
        BY <1>0, <1>1, <1>3, <1>6, <3>2 DEF InvitesInv, FoundingInv, Accounts!ForAdmin
      <4> QED
        BY <1>7, <3>2, <4>1 DEF InvitesInv, FoundingInv
    <3> QED
      BY <3>1, <3>2
  <2>2. \A d \in Codes : invite'[d].state # "none" /\ ~Accounts!ForAdmin(d)'
                           => Accounts!Founded(invite[d].org)'
    BY <1>6, <1>7 DEF InvitesInv, FoundingInv, Accounts!ForAdmin
  <2>3. \A u \in Threads : InFlight(u)' => invite'[signup'[u].code].state # "none"
    BY <1>7, <1>10, <1>11 DEF InvitesInv, FoundingInv
  <2> QED
    BY <2>1, <2>2, <2>3 DEF FoundingInv
<1>13. SpendInv'
  <2> SUFFICES ASSUME NEW d \in Codes \ crowded'
               PROVE  /\ Cardinality(invite'[d].accounts) <= 1
                      /\ \A u \in Threads : InFlight(u)' /\ signup'[u].code = d
                                               => invite'[d].accounts = {}
    BY DEF SpendInv
  <2>1. CASE d # c
    BY <1>7, <1>8, <1>10, <2>1 DEF InvitesInv, SpendInv
  <2>2. CASE d = c
    <3>1. invite[c].accounts = {}
      BY <1>0, <1>1, <1>3, <1>8, <2>2 DEF InvitesInv, SpendInv
    <3>2. invite'[c].accounts = {i}
      BY <1>7, <3>1
    <3>3. Cardinality(invite'[c].accounts) = 1
      BY <3>2, FS_Singleton
    <3> QED
      BY <1>9, <1>10, <2>2, <3>3
  <2> QED
    BY <2>1, <2>2
<1>14. RoomInv'
  <2> SUFFICES ASSUME NEW b \in Accounts!Orgs \ crowded'
               PROVE  /\ Cardinality(Members(b)') <= MaxMembers + 1
                      /\ \A u \in Threads : InFlight(u)' /\ invite'[signup'[u].code].org = b
                                               => Cardinality(Members(b)') <= MaxMembers
    BY DEF RoomInv
  <2>1. CASE b # o
    BY <1>5, <1>7, <1>8, <1>10, <1>11, <2>1 DEF InvitesInv, RoomInv
  <2>2. CASE b = o
    <3>1. Cardinality(Members(o)) <= MaxMembers
      BY <1>0, <1>3, <1>8, <2>2 DEF InvitesInv, RoomInv
    <3>2. Members(o) \in SUBSET Accounts!Ids
      BY DEF Members, Accounts!Live
    <3>3. /\ Cardinality(Members(o)) \in Nat
          /\ Cardinality(Members(o) \cup {i}) <= Cardinality(Members(o)) + 1
      BY <1>4, <3>2, OneMoreMember
    <3>4. Cardinality(Members(o) \cup {i}) \in Nat
      BY <1>4, <3>2, MembersFinite
    <3>5. Cardinality(Members(b)') <= MaxMembers + 1
      <4>1. Members(b)' = Members(o) \cup {i}
        BY <1>5, <2>2
      <4>2. Cardinality(Members(o) \cup {i}) <= MaxMembers + 1
        BY <3>1, <3>3, <3>4 DEF Accounts!AccountsAssumption
      <4> QED
        BY <4>1, <4>2
    <3> QED
      BY <1>7, <1>9, <1>10, <1>11, <2>2, <3>5
  <2> QED
    BY <2>1, <2>2
<1>15. \A d \in Codes : ~invite'[d].late
  <2>1. invite[c].state # "cancelled"
    BY <1>0, <1>1 DEF Accounts!Refused
  <2> QED
    BY <1>7, <2>1 DEF InvitesInv
<1>16. \A j \in Accounts!Live' : profile'[j].via # "admin" => profile'[j].human
  BY <1>2, <1>4 DEF InvitesInv
<1> QED
  BY <1>12, <1>13, <1>14, <1>15, <1>16 DEF InvitesInv

LEMMA InvitesInit == ASSUME Accounts!AccountsAssumption, Accounts!Init PROVE InvitesInv
<1>1. FoundingInv
  BY DEF Accounts!AccountsAssumption, Accounts!Init, Accounts!Founded, Accounts!Free, Accounts!Idle,
         Accounts!Unissued, FoundingInv, InFlight
<1>2. SpendInv
  <2>1. \A c \in Codes : invite[c].accounts = {}
    BY DEF Accounts!Init, Accounts!Unissued
  <2>2. Cardinality({}) = 0
    BY FS_EmptySet
  <2>3. \A c \in Codes : Cardinality(invite[c].accounts) = 0
    BY <2>1, <2>2
  <2> QED
    BY <2>1, <2>3 DEF SpendInv
<1>3. RoomInv
  <2> SUFFICES ASSUME NEW o \in Accounts!Orgs PROVE Cardinality(Members(o)) <= MaxMembers + 1
    BY DEF Accounts!Init, Accounts!Idle, RoomInv, InFlight
  <2>1. Members(o) \in SUBSET {1} /\ {1} \in SUBSET Accounts!Ids
    BY AccountsConstants DEF Accounts!Init, Accounts!Free, Members, Accounts!Live
  <2>2. Cardinality(Members(o)) \in Nat /\ Cardinality(Members(o)) <= Cardinality({1})
    BY <2>1, FewerMembers
  <2>3. Cardinality({1}) = 1
    BY FS_Singleton
  <2> QED
    BY <2>2, <2>3 DEF Accounts!AccountsAssumption
<1> QED
  BY <1>1, <1>2, <1>3
     DEF InvitesInv, Accounts!Init, Accounts!Unissued, Accounts!Free, Accounts!Live

(* An invitation that is to be cancelled was there, and no invitation ever *)
(* vanishes.                                                               *)
LEMMA CancelStep ==
  ASSUME AccountsTyped, CancelInv, [Accounts!Next]_Accounts!vars
  PROVE  CancelInv'
<1> USE DEF AccountsTyped, Accounts!TypeOK
<1>1. CASE UNCHANGED <<invite, signup>>
  BY <1>1 DEF CancelInv
<1>2. ASSUME \A d \in Codes : invite'[d].state = "none" => invite[d].state = "none",
             \A r \in Threads : signup'[r].kind = "cancel" =>
               \/ signup'[r] = signup[r]
               \/ signup'[r].code \in Codes /\ invite'[signup'[r].code].state # "none"
      PROVE  CancelInv'
  BY <1>2 DEF CancelInv, RequestFits
<1>3. ASSUME NEW r \in Threads, Accounts!Keep(r)
      PROVE  \A u \in Threads : signup'[u].kind = "cancel" => signup'[u] = signup[u]
  BY <1>3 DEF Accounts!Keep, Accounts!Idle
<1>4. ASSUME NEW r \in Threads, Accounts!SignupFails(r) \/ Accounts!LinkWrites(r) PROVE CancelInv'
  BY <1>2, <1>3, <1>4 DEF Accounts!SignupFails, Accounts!LinkWrites
<1>5. ASSUME NEW r \in Threads, Accounts!SignupWrites(r) PROVE CancelInv'
  <2>1. \A d \in Codes : invite'[d].state = invite[d].state
    BY <1>5 DEF Accounts!SignupWrites, Accounts!Invite
  <2> QED
    BY <1>2, <1>3, <1>5, <2>1 DEF Accounts!SignupWrites
<1>6. ASSUME NEW r \in Threads, Accounts!CancelWrites(r) PROVE CancelInv'
  BY <1>2, <1>3, <1>6 DEF Accounts!CancelWrites, Accounts!Invite
<1>7. ASSUME NEW r \in Threads, NEW c \in Codes, Accounts!CancelReads(r, c) PROVE CancelInv'
  BY <1>2, <1>7 DEF Accounts!CancelReads, Accounts!Asks
<1>8. ASSUME NEW r \in Threads, NEW kind \in {"accept", "register", "link"}, NEW p, NEW c, NEW n, NEW i,
             Accounts!Asks(r, kind, p, c, n, i), UNCHANGED invite
      PROVE  CancelInv'
  BY <1>2, <1>8 DEF Accounts!Asks
<1>9. ASSUME NEW c \in Codes, NEW o, Accounts!Expire(c) \/ Accounts!CreateInvite(c, o) PROVE CancelInv'
  BY <1>2, <1>9 DEF Accounts!Expire, Accounts!CreateInvite, Accounts!Invite
<1> QED
  BY <1>1, <1>4, <1>5, <1>6, <1>7, <1>8, <1>9, ZenonT(40)
     DEF Accounts!Next, Accounts!vars, Accounts!OAuthLinks, Accounts!AcceptReads, Accounts!OAuthReads,
         Accounts!CreatePerson, Accounts!CreateServiceAccount, Accounts!CreateProfile,
         Accounts!UpdateEmail, Accounts!UpdateRoles, Accounts!DeleteProfile

LEMMA InvitesStep ==
  ASSUME Accounts!AccountsAssumption, AccountsTyped, AccountsTyped', CancelInv, InvitesInv,
         [Accounts!Next]_Accounts!vars
  PROVE  InvitesInv'
<1>1. CASE UNCHANGED Accounts!vars
  BY <1>1, NobodyComes
     DEF Accounts!vars, InFlight, Members, Accounts!Live, Accounts!Founded, InvitesInv
<1>2. ASSUME NEW r \in Threads, Accounts!Keep(r), UNCHANGED <<profile, crowded>>,
             \A c \in Codes : /\ invite'[c].org = invite[c].org
                              /\ invite'[c].accounts = invite[c].accounts
                              /\ invite'[c].late = invite[c].late
                              /\ invite'[c].state = "none" <=> invite[c].state = "none"
      PROVE  InvitesInv'
  BY <1>2, NobodyComes
     DEF InFlight, Members, Accounts!Live, Accounts!Founded, Accounts!Keep, Accounts!Idle, InvitesInv,
         AccountsTyped, Accounts!TypeOK
<1>3. ASSUME NEW r \in Threads, Accounts!SignupFails(r) \/ Accounts!LinkWrites(r) PROVE InvitesInv'
  BY <1>2, <1>3 DEF Accounts!SignupFails, Accounts!LinkWrites
<1>4. ASSUME NEW r \in Threads, Accounts!CancelWrites(r) PROVE InvitesInv'
  <2>1. signup[r].code \in Codes
    BY <1>4 DEF Accounts!CancelWrites, AccountsTyped, RequestFits
  <2>2. invite[signup[r].code].state # "none"
    BY <1>4 DEF CancelInv, Accounts!CancelWrites
  <2>3. \A c \in Codes : /\ invite'[c].org = invite[c].org
                         /\ invite'[c].accounts = invite[c].accounts
                         /\ invite'[c].late = invite[c].late
                         /\ invite'[c].state = "none" <=> invite[c].state = "none"
    BY <1>4, <2>1, <2>2 DEF Accounts!CancelWrites, AccountsTyped, Accounts!TypeOK, Accounts!Invite
  <2> QED
    BY <1>2, <1>4, <2>3 DEF Accounts!CancelWrites
<1>5. ASSUME NEW c \in Codes, Accounts!Expire(c) PROVE InvitesInv'
  <2>1. \A d \in Codes : /\ invite'[d].org = invite[d].org
                         /\ invite'[d].accounts = invite[d].accounts
                         /\ invite'[d].late = invite[d].late
                         /\ invite'[d].state = invite[d].state
    BY <1>5 DEF Accounts!Expire, AccountsTyped, Accounts!TypeOK, Accounts!Invite
  <2> QED
    BY <1>5, <2>1, NobodyComes
       DEF Accounts!Expire, InFlight, Members, Accounts!Live, Accounts!Founded, InvitesInv
<1>6. ASSUME NEW r \in Threads, NEW kind \in {"link", "cancel"}, NEW p, NEW c, NEW n, NEW i,
             Accounts!Asks(r, kind, p, c, n, i), UNCHANGED <<profile, links, invite, crowded, edits>>
      PROVE  InvitesInv'
  BY <1>6, NobodyComes
     DEF InFlight, Members, Accounts!Live, Accounts!Founded, Accounts!Asks, InvitesInv,
         AccountsTyped, Accounts!TypeOK
<1>7. ASSUME NEW r \in Threads, NEW p \in People, Accounts!OAuthLinks(r, p) PROVE InvitesInv'
  BY <1>6, <1>7 DEF Accounts!OAuthLinks
<1>8. ASSUME NEW r \in Threads, NEW c \in Codes, Accounts!CancelReads(r, c) PROVE InvitesInv'
  BY <1>6, <1>8 DEF Accounts!CancelReads
<1>9. ASSUME NEW r \in Threads, NEW p \in People, NEW c \in Codes, NEW n \in Names,
             Accounts!AcceptReads(r, p, c, n) \/ Accounts!OAuthReads(r, p, c, n)
      PROVE  InvitesInv'
  BY <1>9, InviteRead DEF Accounts!AcceptReads, Accounts!OAuthReads
<1>10. ASSUME NEW r \in Threads, Accounts!SignupWrites(r) PROVE InvitesInv'
  BY <1>10, InviteSpent
<1>11. ASSUME NEW c \in Codes, NEW o \in Accounts!Orgs, Accounts!CreateInvite(c, o)
       PROVE  InvitesInv'
  <2>1. /\ invite[c].state = "none" /\ (o = c \/ Accounts!Founded(o))
        /\ UNCHANGED <<profile, signup, crowded>>
        /\ invite'[c].state = "open" /\ invite'[c].org = o
        /\ \A d \in Codes : invite'[d].accounts = invite[d].accounts /\ invite'[d].late = invite[d].late
        /\ \A d \in Codes \ {c} : invite'[d] = invite[d]
    BY <1>11 DEF Accounts!CreateInvite, AccountsTyped, Accounts!TypeOK, Accounts!Invite
  <2>2. \A r \in Threads : InFlight(r) => signup[r].code \in Codes \ {c}
    BY <2>1 DEF AccountsTyped, RequestFits, InFlight, InvitesInv, FoundingInv
  <2>3. FoundingInv'
    BY <2>1, <2>2 DEF InvitesInv, FoundingInv, InFlight, Accounts!Founded, Accounts!ForAdmin
  <2>4. SpendInv'
    BY <2>1, <2>2 DEF InvitesInv, SpendInv, InFlight
  <2>5. RoomInv'
    BY <2>1, <2>2 DEF InvitesInv, RoomInv, InFlight, Members, Accounts!Live
  <2> QED
    BY <2>1, <2>3, <2>4, <2>5 DEF InvitesInv, Accounts!Live
<1>12. ASSUME NEW o \in Accounts!Orgs, NEW n \in Names, NEW human \in BOOLEAN,
              Accounts!CreateProfile(o, n, human)
       PROVE  InvitesInv'
  <2>1. PICK x : x = [Accounts!Free EXCEPT !.state = "live", !.org = o, !.name = n, !.human = human]
    OBVIOUS
  <2>2. x.state = "live" /\ x.via = "admin" /\ x.org = o
    BY <2>1 DEF Accounts!Free
  <2>3. PICK i \in Accounts!NextId : profile' = [profile EXCEPT ![i] = x]
    BY <1>12, <2>1 DEF Accounts!CreateProfile
  <2>4. /\ i \in Accounts!Ids /\ i \notin Accounts!Live /\ profile'[i] = x
        /\ Accounts!Live' = Accounts!Live \cup {i}
        /\ \A j \in Accounts!Live : profile'[j] = profile[j]
    BY <2>2, <2>3, NewProfile
  <2>5. \A b \in Accounts!Orgs : /\ Members(b)' \subseteq Members(b)
                                 /\ Accounts!Founded(b)' <=> Accounts!Founded(b)
    BY <1>12, <2>2, <2>3, <2>4
       DEF Members, Accounts!Founded, Accounts!CreateProfile, Accounts!NextId,
           AccountsTyped, Accounts!TypeOK
  <2> QED
    BY <1>12, <2>2, <2>4, <2>5, NobodyComes DEF Accounts!CreateProfile, InFlight, InvitesInv
<1>13. ASSUME NEW o \in Accounts!Orgs, NEW n \in Names,
              Accounts!CreatePerson(o, n) \/ Accounts!CreateServiceAccount(o, n)
       PROVE  InvitesInv'
  BY <1>12, <1>13 DEF Accounts!CreatePerson, Accounts!CreateServiceAccount
<1>14. ASSUME NEW i \in Accounts!Live, NEW x, profile' = [profile EXCEPT ![i] = x],
              x.state \in {"live", "deleted"}, x.org = profile[i].org,
              x.state = "live" => x.via = profile[i].via /\ x.human = profile[i].human,
              UNCHANGED <<invite, signup, crowded>>
       PROVE  InvitesInv'
  <2>1. /\ profile'[i] = x /\ \A j \in Accounts!Ids \ {i} : profile'[j] = profile[j]
        /\ Accounts!Live' \subseteq Accounts!Live
    BY <1>14 DEF AccountsTyped, Accounts!TypeOK, Accounts!Live
  <2>2. \A b \in Accounts!Orgs : /\ Members(b)' \subseteq Members(b)
                                 /\ Accounts!Founded(b)' <=> Accounts!Founded(b)
    BY <1>14, <2>1 DEF Members, Accounts!Founded, Accounts!Live
  <2>3. \A j \in Accounts!Live' : profile'[j].via # "admin" => profile'[j].human
    BY <1>14, <2>1 DEF InvitesInv, Accounts!Live
  <2> QED
    BY <1>14, <2>2, <2>3, NobodyComes DEF InFlight, InvitesInv
<1>15. ASSUME NEW i \in Accounts!Ids, Accounts!DeleteProfile(i) PROVE InvitesInv'
  <2>1. PICK x : x = [Accounts!Free EXCEPT !.state = "deleted", !.org = profile[i].org]
    OBVIOUS
  <2>2. x.state = "deleted" /\ x.org = profile[i].org
    BY <2>1 DEF Accounts!Free
  <2> QED
    BY <1>14, <1>15, <2>1, <2>2 DEF Accounts!DeleteProfile
<1>16. ASSUME NEW i \in Accounts!Ids, Accounts!UpdateRoles(i) PROVE InvitesInv'
  <2>1. PICK x : x = [profile[i] EXCEPT !.admin = ~@]
    OBVIOUS
  <2>2. i \in Accounts!Live /\ x.state = "live" /\ x.org = profile[i].org
        /\ x.via = profile[i].via /\ x.human = profile[i].human
    BY <1>16, <2>1, ZenonT(40) DEF Accounts!UpdateRoles, Accounts!Live, AccountsTyped, Accounts!TypeOK, Accounts!Profile
  <2> QED
    BY <1>14, <1>16, <2>1, <2>2 DEF Accounts!UpdateRoles
<1>17. ASSUME NEW i \in Accounts!Ids, NEW p \in People, Accounts!UpdateEmail(i, p) PROVE InvitesInv'
  <2>1. PICK x : x = [profile[i] EXCEPT !.email = p]
    OBVIOUS
  <2>2. i \in Accounts!Live /\ x.state = "live" /\ x.org = profile[i].org
        /\ x.via = profile[i].via /\ x.human = profile[i].human
    BY <1>17, <2>1, ZenonT(40) DEF Accounts!UpdateEmail, Accounts!Live, AccountsTyped, Accounts!TypeOK, Accounts!Profile
  <2> QED
    BY <1>14, <1>17, <2>1, <2>2 DEF Accounts!UpdateEmail
<1> QED
  BY <1>1, <1>3, <1>4, <1>5, <1>7, <1>8, <1>9, <1>10, <1>11, <1>13, <1>15, <1>16, <1>17
     DEF Accounts!Next

(* However requests interleave, and for every limit: an invitation makes   *)
(* one account and an organisation takes in no more than its members,      *)
(* except where sign-ups overlapped; no account follows a cancellation.    *)
LEMMA InvitesSpent ==
  ASSUME Accounts!AccountsAssumption
  PROVE  Accounts!Spec => []Accounts!InvitesAreSpent
<1>1. InvitesInv => Accounts!InvitesAreSpent
  BY SameCardinality DEF InvitesInv, SpendInv, RoomInv, Members, Accounts!InvitesAreSpent
<1>2. Accounts!Init => CancelInv
  BY DEF Accounts!Init, Accounts!Idle, CancelInv
<1> QED
  BY <1>1, <1>2, AccountsTypeInit, AccountsTypeStep, CancelStep, InvitesInit, InvitesStep, PTL DEF Accounts!Spec

(* So invitations are spent beside the other parts.                        *)
THEOREM InvitesAreSpentOnce == BackendSpec => []InvitesAreSpent
<1>1. Accounts!Spec => []Accounts!InvitesAreSpent
  BY InvitesSpent, BackendAssumption
<1>2. (part = "accounts" => Accounts!InvitesAreSpent) => InvitesAreSpent
  BY DEF InvitesAreSpent
<1> QED
  BY <1>1, <1>2, AccountsMove, PTL DEF BackendSpec, Accounts!Spec

-----------------------------------------------------------------------------
(* The sign-in of a computer.                                              *)

LEMMA SignInMove ==
  /\ BackendInit /\ part = "sign-in" => SignIn!Init
  /\ [BackendNext]_backendVars /\ part = "sign-in"
       => [SignIn!Next]_SignIn!vars /\ (part = "sign-in")'
  /\ [BackendNext]_backendVars /\ ~(part = "sign-in") => ~(part = "sign-in")'
BY DEF BackendInit, BackendNext, backendVars, signInVars, SignIn!vars

(* The pairs are numbered as they are issued, and whoever names one names  *)
(* one that was.                                                           *)
SignInTyped ==
  /\ \E k \in 0..MaxPairs : SignIn!Issued = 1..k
  /\ proc \in [Daemons -> SignIn!Proc]
  /\ pidfile \in Daemons \cup {NoDaemon}
  /\ session.pair \in {0} \cup SignIn!Issued /\ login.pair \in {0} \cup SignIn!Issued
  /\ file \in {0} \cup SignIn!Issued
  /\ \A d \in Daemons : proc[d].pair \in {0} \cup SignIn!Issued
                        /\ proc[d].new \in {0} \cup SignIn!Issued
  /\ harmed \in BOOLEAN /\ overlap \in BOOLEAN

(* The pairs of a login that no daemon has.                                *)
HandedOver == {session.pair, login.pair} \ {0}

Active(d) == proc[d].pc # "off"

(* A daemon holds a live pair, but for the moment in which the answer that *)
(* replaces it is on its way.                                              *)
Serves(d) ==
  LET p == proc[d] IN
  /\ p.pc # "burning"
  /\ IF p.stopping THEN p.pc # "starting" ELSE pidfile = d
  /\ p.pc = "starting" => login.state = "none" /\ file = p.pair
  /\ p.pc \in {"idle", "asked", "exchanging", "answered"} => p.known = p.pair
  /\ IF p.pc = "answered" THEN SignIn!Live(p.new) ELSE SignIn!Live(p.pair)
  /\ file # 0
  /\ SignIn!Live(file) \/ (p.pc \in {"answered", "saving"} /\ p.known = file)
  /\ HandedOver \cap {p.pair, p.new} = {}

(* While nothing harms the sign-in: one daemon is active, and every pair   *)
(* that is kept somewhere is live and kept there alone.                    *)
SignedIn ==
  /\ admin = TRUE /\ logout = {}
  /\ \A d \in Daemons : Active(d) => Serves(d)
  /\ \A d, e \in Daemons : Active(d) /\ Active(e) => d = e
  /\ (\A d \in Daemons : ~Active(d)) => file = 0 \/ SignIn!Live(file)
  /\ \A n \in HandedOver : SignIn!Live(n) /\ n # file
  /\ session.pair = login.pair => session.pair = 0
  /\ session.state = "approved" => session.pair # 0
  /\ login.state = "approved" => login.pair # 0

Unharmed == ~harmed /\ ~overlap

SignInInv == SignInTyped /\ (Unharmed => SignedIn)

LEMMA SameCardinalityOfPairs == \A S : SignIn!Cardinality(S) = Cardinality(S)
BY DEF SignIn!Cardinality, Cardinality

LEMMA NextPair ==
  ASSUME SignIn!SignInAssumption, SignInTyped, SignIn!Next1 \in SignIn!Pairs
  PROVE  \E k \in 0..(MaxPairs - 1) :
           SignIn!Issued = 1..k /\ SignIn!Next1 = k + 1
<1>1. PICK k \in 0..MaxPairs : SignIn!Issued = 1..k
  BY DEF SignInTyped
<1>2. Cardinality(1..k) = k
  BY <1>1, FS_Interval DEF SignIn!SignInAssumption
<1>3. SignIn!Next1 = k + 1
  BY <1>1, <1>2, SameCardinalityOfPairs DEF SignIn!Next1
<1> QED
  BY <1>1, <1>3 DEF SignIn!Pairs, SignIn!SignInAssumption

(* A new pair is live, and takes no other pair's place.                    *)
LEMMA PairMinted ==
  ASSUME SignIn!SignInAssumption, SignInTyped, SignIn!Next1 \in SignIn!Pairs,
         NEW family, NEW used \in {0} \cup SignIn!Issued,
         \/ rows' = SignIn!Minted(family)
         \/ used # 0 /\ rows' = [SignIn!Minted(family) EXCEPT ![used].state = "used"]
  PROVE  \E n \in SignIn!Pairs :
           /\ n = SignIn!Next1 /\ n \notin {0} \cup SignIn!Issued
           /\ SignIn!Issued' = SignIn!Issued \cup {n}
           /\ \E k \in 0..MaxPairs : SignIn!Issued' = 1..k
           /\ SignIn!Live(n)'
           /\ \A m \in SignIn!Issued \ {used} : SignIn!Live(m) => SignIn!Live(m)'
<1>1. PICK k \in 0..(MaxPairs - 1) : SignIn!Issued = 1..k /\ SignIn!Next1 = k + 1
  BY NextPair
<1>2. PICK n : n = SignIn!Next1
  OBVIOUS
<1>3. k \in Nat /\ n = k + 1 /\ n \in SignIn!Pairs /\ n \notin {0} \cup 1..k /\ 1..n = (1..k) \cup {n}
      /\ n \in 0..MaxPairs /\ used # n
  BY <1>1, <1>2 DEF SignIn!SignInAssumption
<1>4. PICK minted : minted = SignIn!Minted(family)
  OBVIOUS
<1>5. DOMAIN minted = 1..n /\ minted[n].state = "live" /\ \A m \in 1..k : minted[m] = rows[m]
  BY <1>1, <1>2, <1>3, <1>4 DEF SignIn!Minted
<1>6. DOMAIN rows' = 1..n /\ rows'[n].state = "live"
      /\ \A m \in (1..k) \ {used} : rows'[m] = rows[m]
  BY <1>3, <1>4, <1>5
<1>7. SignIn!Issued' = 1..n
  BY <1>6 DEF SignIn!Issued
<1>8. SignIn!Live(n)'
  BY <1>3, <1>6, <1>7 DEF SignIn!Live
<1>9. \A m \in SignIn!Issued \ {used} : SignIn!Live(m) => SignIn!Live(m)'
  BY <1>1, <1>3, <1>6, <1>7 DEF SignIn!Live
<1> QED
  BY <1>1, <1>2, <1>3, <1>7, <1>8, <1>9

LEMMA SignInInit == SignIn!SignInAssumption /\ SignIn!Init => SignInInv
<1> SUFFICES ASSUME SignIn!SignInAssumption, SignIn!Init PROVE SignInInv
  OBVIOUS
<1>1. \E k \in 0..MaxPairs : SignIn!Issued = 1..k
  <2>1. SignIn!Issued = 1..0 /\ 0 \in 0..MaxPairs
    BY DEF SignIn!Init, SignIn!Issued, SignIn!SignInAssumption
  <2> QED BY <2>1
<1>2. SignIn!Off \in SignIn!Proc
  BY DEF SignIn!Off, SignIn!Proc, SignIn!SignInAssumption
<1>3. session.pair = 0 /\ login.pair = 0 /\ session.state = "none" /\ login.state = "none"
  BY DEF SignIn!Init, SignIn!None
<1>4. SignIn!Off.pc = "off" /\ SignIn!Off.pair = 0 /\ SignIn!Off.new = 0
  BY DEF SignIn!Off
<1>5. \A d \in Daemons : proc[d] = SignIn!Off
  BY DEF SignIn!Init
<1>6. SignInTyped
  BY <1>1, <1>2, <1>3, <1>4, <1>5 DEF SignIn!Init, SignInTyped, SignIn!SignInAssumption
<1>7. SignedIn
  BY <1>3, <1>4, <1>5 DEF SignIn!Init, SignedIn, HandedOver, Active
<1> QED
  BY <1>6, <1>7 DEF SignInInv

-----------------------------------------------------------------------------
(* What is issued stays, where the backend writes nothing.                 *)
LEMMA PairsKept ==
  UNCHANGED rows => /\ SignIn!Issued' = SignIn!Issued
                    /\ \A n : SignIn!Live(n)' <=> SignIn!Live(n)
BY DEF SignIn!Issued, SignIn!Live

LEMMA FamilyIssued == \A n : SignIn!Family(n) \subseteq SignIn!Issued
BY DEF SignIn!Family

LEMMA RevokedKeeps ==
  ASSUME NEW S, rows' = SignIn!Revoked(S)
  PROVE  SignIn!Issued' = SignIn!Issued
BY DEF SignIn!Revoked, SignIn!Issued

(* The types, after a step of one daemon.                                  *)
LEMMA TypedAfter ==
  ASSUME SignInTyped, NEW d \in Daemons, NEW q \in SignIn!Proc,
         proc' = [proc EXCEPT ![d] = q],
         SignIn!Issued \subseteq SignIn!Issued', \E k \in 0..MaxPairs : SignIn!Issued' = 1..k,
         q.pair \in {0} \cup SignIn!Issued', q.new \in {0} \cup SignIn!Issued',
         file' \in {0} \cup SignIn!Issued', pidfile' \in Daemons \cup {NoDaemon},
         UNCHANGED <<session, login>>, harmed' \in BOOLEAN, overlap' \in BOOLEAN
  PROVE  SignInTyped'
<1>1. proc' \in [Daemons -> SignIn!Proc]
  BY DEF SignInTyped
<1>2. \A e \in Daemons : /\ proc'[e].pair \in {0} \cup SignIn!Issued'
                         /\ proc'[e].new \in {0} \cup SignIn!Issued'
  BY DEF SignInTyped
<1> QED
  BY <1>1, <1>2 DEF SignInTyped

(* The daemon that is active stays the one, and serves.                    *)
LEMMA ServesAfter ==
  ASSUME SignInTyped, SignedIn, NEW d \in Daemons, Active(d), NEW q,
         proc' = [proc EXCEPT ![d] = q],
         q.pc \notin {"off", "burning", "starting"},
         IF q.stopping THEN TRUE ELSE pidfile' = d,
         q.pc \in {"idle", "asked", "exchanging", "answered"} => q.known = q.pair,
         IF q.pc = "answered" THEN SignIn!Live(q.new)' ELSE SignIn!Live(q.pair)',
         file' # 0,
         SignIn!Live(file)' \/ (q.pc \in {"answered", "saving"} /\ q.known = file'),
         HandedOver \cap {q.pair, q.new} = {},
         \A n \in HandedOver : SignIn!Live(n)' /\ n # file',
         UNCHANGED <<admin, logout, session, login>>
  PROVE  SignedIn'
<1>1. proc'[d] = q /\ \A e \in Daemons \ {d} : proc'[e] = proc[e]
  BY DEF SignInTyped
<1>2. HandedOver' = HandedOver
  BY DEF HandedOver
<1>3. Serves(d)'
  BY <1>1, <1>2 DEF Serves, SignIn!Live, SignIn!Issued
<1>4. \A e \in Daemons : Active(e)' <=> e = d
  BY <1>1 DEF SignedIn, Active
<1> QED
  BY <1>2, <1>3, <1>4 DEF SignedIn

LEMMA PairsBound ==
  ASSUME SignIn!SignInAssumption, SignInTyped
  PROVE  /\ {0} \cup SignIn!Issued \subseteq 0..MaxPairs /\ SignIn!Issued \subseteq SignIn!Pairs
         /\ 0 \notin SignIn!Issued
BY DEF SignInTyped, SignIn!Pairs, SignIn!SignInAssumption

(* The steps of the TokenManager.                                          *)
LEMMA RenewKeeps ==
  ASSUME SignIn!SignInAssumption, SignInInv, NEW d \in Daemons, SignIn!Renew(d)
  PROVE  SignInInv'
<1>1. PICK p \in SignIn!Proc : p = proc[d]
  BY DEF SignInInv, SignInTyped
<1>2. PICK q : q = IF SignIn!NewSignIn(d) THEN [p EXCEPT !.pair = file, !.known = file]
                   ELSE [p EXCEPT !.pc = "asked"]
  OBVIOUS
<1>3. proc' = [proc EXCEPT ![d] = q] /\ p.pc = "idle" /\ p.known # 0
  BY <1>1, <1>2 DEF SignIn!Renew
<1>4. q \in SignIn!Proc /\ q.stopping = p.stopping /\ q.new = p.new
  BY <1>1, <1>2, PairsBound DEF SignInInv, SignInTyped, SignIn!Proc
<1>5. \/ /\ q.pc = "idle" /\ q.pair = file /\ q.known = file /\ file \notin {0, p.known}
      \/ /\ q.pc = "asked" /\ q.pair = p.pair /\ q.known = p.known
  BY <1>1, <1>2, <1>3 DEF SignIn!Proc, SignIn!NewSignIn
<1>6. UNCHANGED <<rows, admin, session, login, logout, file, pidfile, harmed, overlap>>
  BY DEF SignIn!Renew, SignIn!NoFault
<1>7. SignInTyped'
  BY <1>1, <1>3, <1>4, <1>5, <1>6, PairsKept, TypedAfter DEF SignInInv, SignInTyped
<1>8. ASSUME Unharmed' PROVE SignedIn'
  <2>1. SignedIn /\ Serves(d) /\ Active(d)
    BY <1>1, <1>3, <1>6, <1>8 DEF SignInInv, Unharmed, SignedIn, Active
  <2>2. /\ IF p.stopping THEN TRUE ELSE pidfile = d
        /\ p.known = p.pair /\ SignIn!Live(p.pair) /\ file # 0 /\ SignIn!Live(file)
        /\ HandedOver \cap {p.pair, p.new} = {}
    BY <1>1, <1>3, <2>1 DEF Serves
  <2>3. \A n \in HandedOver : SignIn!Live(n) /\ n # file
    BY <2>1 DEF SignedIn
  <2> QED
    BY <1>3, <1>4, <1>5, <1>6, <2>1, <2>2, <2>3, PairsKept, ServesAfter DEF SignInInv
<1> QED
  BY <1>7, <1>8 DEF SignInInv

LEMMA ReadKeeps ==
  ASSUME SignIn!SignInAssumption, SignInInv, NEW d \in Daemons, SignIn!Read(d)
  PROVE  SignInInv'
<1>1. PICK p \in SignIn!Proc : p = proc[d]
  BY DEF SignInInv, SignInTyped
<1>2. PICK q : proc' = [proc EXCEPT ![d] = q]
               /\ q = CASE rows[p.pair].state = "revoked" -> [p EXCEPT !.pc = "idle"]
                        [] rows[p.pair].state = "used" \/
                           (rows[p.pair].state = "live" /\ ~admin)
                             -> [p EXCEPT !.pc = "burning", !.burn = SignIn!Family(p.pair)]
                        [] OTHER -> [p EXCEPT !.pc = "exchanging"]
  BY <1>1 DEF SignIn!Read
<1>3. SignIn!Family(p.pair) \subseteq SignIn!Pairs
  BY FamilyIssued, PairsBound DEF SignInInv
<1>4. q \in SignIn!Proc /\ q.stopping = p.stopping /\ q.new = p.new /\ q.pair = p.pair
      /\ q.known = p.known /\ q.pc \in {"idle", "burning", "exchanging"} /\ p.pc = "asked"
  BY <1>1, <1>2, <1>3 DEF SignIn!Proc, SignIn!Read
<1>5. UNCHANGED <<rows, admin, session, login, logout, file, pidfile, harmed, overlap>>
  BY DEF SignIn!Read, SignIn!NoFault
<1>6. SignInTyped'
  BY <1>1, <1>2, <1>4, <1>5, PairsKept, TypedAfter DEF SignInInv, SignInTyped
<1>7. ASSUME Unharmed' PROVE SignedIn'
  <2>1. SignedIn /\ Serves(d) /\ Active(d)
    BY <1>1, <1>4, <1>5, <1>7 DEF SignInInv, Unharmed, SignedIn, Active
  <2>2. /\ IF p.stopping THEN TRUE ELSE pidfile = d
        /\ p.known = p.pair /\ SignIn!Live(p.pair) /\ file # 0 /\ SignIn!Live(file)
        /\ HandedOver \cap {p.pair, p.new} = {}
    BY <1>1, <1>4, <2>1 DEF Serves
  <2>3. (\A n \in HandedOver : SignIn!Live(n) /\ n # file) /\ admin = TRUE
    BY <2>1 DEF SignedIn
  <2>4. q = [p EXCEPT !.pc = "exchanging"]
    BY <1>2, <2>2, <2>3 DEF SignIn!Live
  <2>5. q.pc = "exchanging"
    BY <2>4 DEF SignIn!Proc
  <2> QED
    BY <1>2, <1>4, <1>5, <2>1, <2>2, <2>3, <2>5, PairsKept, ServesAfter DEF SignInInv
<1> QED
  BY <1>6, <1>7 DEF SignInInv

LEMMA ExchangeKeeps ==
  ASSUME SignIn!SignInAssumption, SignInInv, NEW d \in Daemons, SignIn!Exchange(d)
  PROVE  SignInInv'
<1>1. PICK p \in SignIn!Proc : p = proc[d]
  BY DEF SignInInv, SignInTyped
<1>2. /\ p.pc = "exchanging"
      /\ UNCHANGED <<admin, session, login, logout, file, pidfile, harmed, overlap>>
  BY <1>1 DEF SignIn!Exchange, SignIn!NoFault
<1>3. ASSUME SignIn!Live(p.pair), SignIn!Next1 \in SignIn!Pairs,
             rows' = [SignIn!Successor(p.pair) EXCEPT ![p.pair].state = "used"],
             proc' = [proc EXCEPT ![d].pc = "answered", ![d].new = SignIn!Next1]
      PROVE  SignInInv'
  <2>1. p.pair \in SignIn!Issued /\ p.pair # 0
    BY <1>3, PairsBound DEF SignInInv, SignIn!Live
  <2>2. PICK n \in SignIn!Pairs :
          /\ n = SignIn!Next1 /\ n \notin {0} \cup SignIn!Issued
          /\ SignIn!Issued' = SignIn!Issued \cup {n}
          /\ \E k \in 0..MaxPairs : SignIn!Issued' = 1..k
          /\ SignIn!Live(n)'
          /\ \A m \in SignIn!Issued \ {p.pair} : SignIn!Live(m) => SignIn!Live(m)'
    BY <1>3, <2>1, PairMinted DEF SignInInv, SignIn!Successor
  <2>3. PICK q : q = [p EXCEPT !.pc = "answered", !.new = n]
    OBVIOUS
  <2>4. proc' = [proc EXCEPT ![d] = q]
    BY <1>1, <1>3, <2>2, <2>3 DEF SignInInv, SignInTyped
  <2>5. q \in SignIn!Proc /\ q.stopping = p.stopping /\ q.new = n /\ q.pair = p.pair
        /\ q.known = p.known /\ q.pc = "answered"
    <3>1. n \in 0..MaxPairs
      BY <2>2 DEF SignIn!Pairs, SignIn!SignInAssumption
    <3> QED
      BY <2>3, <3>1 DEF SignIn!Proc
  <2>6. SignInTyped'
    BY <1>1, <1>2, <2>1, <2>2, <2>4, <2>5, TypedAfter DEF SignInInv, SignInTyped
  <2>7. ASSUME Unharmed' PROVE SignedIn'
    <3>1. SignedIn /\ Serves(d) /\ Active(d)
      BY <1>1, <1>2, <2>7 DEF SignInInv, Unharmed, SignedIn, Active
    <3>2. /\ IF p.stopping THEN TRUE ELSE pidfile = d
          /\ p.known = p.pair /\ file # 0 /\ SignIn!Live(file)
          /\ HandedOver \cap {p.pair, p.new} = {}
      BY <1>1, <1>2, <3>1 DEF Serves
    <3>3. \A m \in HandedOver : SignIn!Live(m) /\ m \in SignIn!Issued /\ m # file
      BY <3>1 DEF SignedIn, SignIn!Live
    <3>4. \A m \in HandedOver : SignIn!Live(m)' /\ m # file' /\ m # n
      BY <1>2, <2>2, <3>2, <3>3
    <3>5. SignIn!Live(file)' \/ p.pair = file
      BY <1>2, <2>2, <3>2 DEF SignIn!Live
    <3> QED
      BY <1>2, <2>2, <2>4, <2>5, <3>1, <3>2, <3>4, <3>5, ServesAfter DEF SignInInv
  <2> QED
    BY <2>6, <2>7 DEF SignInInv
<1>4. ASSUME ~SignIn!Live(p.pair), UNCHANGED rows,
             proc' = [proc EXCEPT ![d].pc = "burning", ![d].burn = SignIn!Family(p.pair)]
      PROVE  SignInInv'
  <2>1. PICK q : q = [p EXCEPT !.pc = "burning", !.burn = SignIn!Family(p.pair)]
    OBVIOUS
  <2>2. proc' = [proc EXCEPT ![d] = q]
    BY <1>1, <1>4, <2>1 DEF SignInInv, SignInTyped
  <2>3. q \in SignIn!Proc /\ q.pair = p.pair /\ q.new = p.new
    BY <2>1, FamilyIssued, PairsBound DEF SignInInv, SignIn!Proc
  <2>4. SignInTyped'
    BY <1>1, <1>2, <1>4, <2>2, <2>3, PairsKept, TypedAfter DEF SignInInv, SignInTyped
  <2>5. ~Unharmed
    BY <1>1, <1>2, <1>4 DEF SignInInv, SignedIn, Active, Serves
  <2> QED
    BY <1>2, <2>4, <2>5 DEF SignInInv, Unharmed
<1> QED
  BY <1>1, <1>3, <1>4 DEF SignIn!Exchange, SignIn!Retire

LEMMA BurnKeeps ==
  ASSUME SignIn!SignInAssumption, SignInInv, NEW d \in Daemons, SignIn!Burn(d)
  PROVE  SignInInv'
<1>1. PICK p \in SignIn!Proc : p = proc[d]
  BY DEF SignInInv, SignInTyped
<1>2. PICK q : q = [p EXCEPT !.pc = "idle", !.burn = {}]
  OBVIOUS
<1>3. proc' = [proc EXCEPT ![d] = q]
  BY <1>1, <1>2 DEF SignInInv, SignInTyped, SignIn!Burn
<1>4. q \in SignIn!Proc /\ q.pair = p.pair /\ q.new = p.new
  BY <1>2 DEF SignIn!Proc
<1>5. /\ p.pc = "burning" /\ SignIn!Issued' = SignIn!Issued
      /\ UNCHANGED <<session, login, file, pidfile, harmed, overlap>>
  BY <1>1, RevokedKeeps DEF SignIn!Burn, SignIn!NoFault
<1>6. SignInTyped'
  BY <1>1, <1>3, <1>4, <1>5, TypedAfter DEF SignInInv, SignInTyped
<1>7. ~Unharmed
  BY <1>1, <1>5 DEF SignInInv, SignedIn, Active, Serves
<1> QED
  BY <1>5, <1>6, <1>7 DEF SignInInv, Unharmed

LEMMA AnswerKeeps ==
  ASSUME SignIn!SignInAssumption, SignInInv, NEW d \in Daemons, SignIn!Answer(d)
  PROVE  SignInInv'
<1>1. PICK p \in SignIn!Proc : p = proc[d]
  BY DEF SignInInv, SignInTyped
<1>2. PICK q : /\ \/ q = [p EXCEPT !.pc = "saving", !.pair = p.new, !.new = 0] /\ SignIn!NoFault
                  \/ q = [p EXCEPT !.pc = "idle", !.new = 0] /\ harmed' = TRUE
               /\ proc' = [proc EXCEPT ![d] = q]
  BY <1>1 DEF SignIn!Answer, SignInInv, SignInTyped, SignIn!Fault
<1>3. /\ p.pc = "answered" /\ harmed' \in {harmed, TRUE}
      /\ UNCHANGED <<rows, admin, session, login, logout, file, pidfile, overlap>>
  BY <1>1 DEF SignIn!Answer, SignIn!NoFault, SignIn!Fault
<1>4. q \in SignIn!Proc /\ q.stopping = p.stopping /\ q.new = 0 /\ q.pair \in {p.pair, p.new}
      /\ q.known = p.known
  BY <1>2, PairsBound DEF SignInInv, SignIn!Proc, SignIn!SignInAssumption
<1>5. SignInTyped'
  BY <1>1, <1>2, <1>3, <1>4, PairsKept, TypedAfter DEF SignInInv, SignInTyped
<1>6. ASSUME Unharmed' PROVE SignedIn'
  <2>1. SignedIn /\ Serves(d) /\ Active(d)
    BY <1>1, <1>3, <1>6 DEF SignInInv, SignInTyped, Unharmed, SignedIn, Active
  <2>2. /\ IF p.stopping THEN TRUE ELSE pidfile = d
        /\ p.known = p.pair /\ SignIn!Live(p.new) /\ file # 0
        /\ SignIn!Live(file) \/ p.known = file
        /\ HandedOver \cap {p.pair, p.new} = {}
    BY <1>1, <1>3, <2>1 DEF Serves
  <2>3. q.pc = "saving" /\ q.pair = p.new
    BY <1>2, <1>6 DEF Unharmed, SignIn!Proc
  <2>4. \A n \in HandedOver : SignIn!Live(n) /\ n # file
    BY <2>1 DEF SignedIn
  <2>5. 0 \notin HandedOver
    BY DEF HandedOver
  <2>6. UNCHANGED rows /\ proc' = [proc EXCEPT ![d] = q] /\ \A n : SignIn!Live(n)' <=> SignIn!Live(n)
    BY <1>2, <1>3, PairsKept
  <2>7. /\ IF q.stopping THEN TRUE ELSE pidfile' = d
        /\ SignIn!Live(file)' \/ q.known = file'
        /\ HandedOver \cap {q.pair, q.new} = {}
    BY <1>3, <1>4, <2>2, <2>3, <2>5, <2>6
  <2> QED
    BY <1>3, <1>4, <2>1, <2>2, <2>3, <2>4, <2>6, <2>7, ServesAfter DEF SignInInv
<1> QED
  BY <1>5, <1>6 DEF SignInInv

LEMMA SaveKeeps ==
  ASSUME SignIn!SignInAssumption, SignInInv, NEW d \in Daemons, SignIn!Save(d)
  PROVE  SignInInv'
<1>1. PICK p \in SignIn!Proc : p = proc[d]
  BY DEF SignInInv, SignInTyped
<1>2. PICK q : q = [p EXCEPT !.pc = "idle", !.known = p.pair]
  OBVIOUS
<1>3. proc' = [proc EXCEPT ![d] = q]
  BY <1>1, <1>2 DEF SignInInv, SignInTyped, SignIn!Save
<1>4. q \in SignIn!Proc /\ q.stopping = p.stopping /\ q.new = p.new /\ q.pair = p.pair
      /\ q.known = p.pair /\ q.pc = "idle"
  BY <1>2 DEF SignIn!Proc
<1>5. /\ p.pc = "saving" /\ file' = p.pair
      /\ UNCHANGED <<rows, admin, session, login, logout, pidfile, harmed, overlap>>
  BY <1>1 DEF SignIn!Save, SignIn!Kept, SignIn!NoFault
<1>6. SignInTyped'
  BY <1>1, <1>3, <1>4, <1>5, PairsKept, TypedAfter DEF SignInInv, SignInTyped
<1>7. ASSUME Unharmed' PROVE SignedIn'
  <2>1. SignedIn /\ Serves(d) /\ Active(d)
    BY <1>1, <1>5, <1>7 DEF SignInInv, Unharmed, SignedIn, Active
  <2>2. /\ IF p.stopping THEN TRUE ELSE pidfile = d
        /\ SignIn!Live(p.pair) /\ p.pair # 0
        /\ HandedOver \cap {p.pair, p.new} = {}
    BY <1>1, <1>5, <2>1, PairsBound DEF Serves, SignInInv, SignIn!Live
  <2>3. \A n \in HandedOver : SignIn!Live(n)
    BY <2>1 DEF SignedIn
  <2>4. SignIn!Live(file)'
    BY <1>5, <2>2 DEF SignIn!Live, SignIn!Issued
  <2> QED
    BY <1>3, <1>4, <1>5, <2>1, <2>2, <2>3, <2>4, PairsKept, ServesAfter DEF SignInInv
<1> QED
  BY <1>6, <1>7 DEF SignInInv

-----------------------------------------------------------------------------
(* A daemon starts, where no other one is active; and it ends.             *)
LEMMA OffTyped ==
  SignIn!SignInAssumption => /\ SignIn!Off \in SignIn!Proc /\ SignIn!Off.pc = "off"
                             /\ SignIn!Off.pair = 0 /\ SignIn!Off.new = 0
BY DEF SignIn!Off, SignIn!Proc, SignIn!SignInAssumption

LEMMA StartKeeps ==
  ASSUME SignIn!SignInAssumption, SignInInv, NEW d \in Daemons, SignIn!Start(d)
  PROVE  SignInInv'
<1>1. PICK q : q = [SignIn!Off EXCEPT !.pc = "starting", !.pair = file]
  OBVIOUS
<1>2. /\ proc' = [proc EXCEPT ![d] = q] /\ pidfile' = d
      /\ SignIn!AtPrompt /\ proc[d] = SignIn!Off /\ file # 0 /\ ~SignIn!Refused
      /\ UNCHANGED <<rows, admin, session, login, logout, file, harmed>>
  BY <1>1 DEF SignIn!Start, SignIn!NoFault
<1>3. q \in SignIn!Proc /\ q.pc = "starting" /\ q.pair = file /\ q.new = 0 /\ q.stopping = FALSE
  BY <1>1, PairsBound DEF SignInInv, SignInTyped, SignIn!Off, SignIn!Proc
<1>4. overlap' \in BOOLEAN /\ (overlap' = FALSE => overlap = FALSE /\ ~SignIn!Stopping)
  BY DEF SignIn!Start, SignInInv, SignInTyped
<1>5. SignInTyped'
  BY <1>2, <1>3, <1>4, PairsKept, TypedAfter DEF SignInInv, SignInTyped
<1>6. ASSUME Unharmed' PROVE SignedIn'
  <2>1. SignedIn /\ ~SignIn!Stopping
    BY <1>2, <1>4, <1>6 DEF SignInInv, Unharmed, SignInTyped
  <2>2. \A e \in Daemons : ~Active(e)
    <3> SUFFICES ASSUME NEW e \in Daemons, Active(e) PROVE FALSE
      OBVIOUS
    <3>1. ~proc[e].stopping /\ pidfile = e /\ proc[e].pc # "starting"
      BY <1>2, <2>1 DEF SignedIn, Serves, SignIn!Stopping, SignIn!AtPrompt
    <3>2. pidfile # NoDaemon /\ SignIn!Running(pidfile)
      BY <3>1 DEF SignIn!SignInAssumption, SignIn!Running, Active
    <3> QED
      BY <1>2, <3>2 DEF SignIn!Refused
  <2>3. SignIn!Live(file) /\ login.state = "none"
    BY <1>2, <2>1, <2>2 DEF SignedIn, SignIn!AtPrompt, SignIn!None
  <2>4. proc'[d] = q /\ \A e \in Daemons \ {d} : proc'[e] = proc[e]
    BY <1>2 DEF SignInInv, SignInTyped
  <2>5. HandedOver' = HandedOver /\ 0 \notin HandedOver
        /\ \A n \in HandedOver : SignIn!Live(n) /\ n # file
    BY <1>2, <2>1 DEF HandedOver, SignedIn
  <2>6. Serves(d)'
    BY <1>2, <1>3, <2>3, <2>4, <2>5, PairsKept DEF Serves, SignIn!Live, SignIn!Issued
  <2>7. \A e \in Daemons : Active(e)' <=> e = d
    BY <1>3, <2>2, <2>4 DEF Active
  <2> QED
    BY <1>2, <2>1, <2>5, <2>6, <2>7, PairsKept DEF SignedIn
<1> QED
  BY <1>5, <1>6 DEF SignInInv

LEMMA StartedKeeps ==
  ASSUME SignIn!SignInAssumption, SignInInv, NEW d \in Daemons, SignIn!Started(d)
  PROVE  SignInInv'
<1>1. PICK p \in SignIn!Proc : p = proc[d]
  BY DEF SignInInv, SignInTyped
<1>2. PICK q : /\ q = [p EXCEPT !.pc = "idle", !.known = IF file = p.pair THEN file ELSE 0]
               /\ proc' = [proc EXCEPT ![d] = q]
  BY <1>1 DEF SignInInv, SignInTyped, SignIn!Started
<1>3. q \in SignIn!Proc /\ q.stopping = p.stopping /\ q.new = p.new /\ q.pair = p.pair
      /\ q.known = (IF file = p.pair THEN file ELSE 0) /\ q.pc = "idle"
  BY <1>2, PairsBound DEF SignInInv, SignInTyped, SignIn!Proc
<1>4. /\ p.pc = "starting"
      /\ UNCHANGED <<rows, admin, session, login, logout, file, pidfile, harmed, overlap>>
  BY <1>1 DEF SignIn!Started, SignIn!NoFault
<1>5. SignInTyped'
  BY <1>1, <1>2, <1>3, <1>4, PairsKept, TypedAfter DEF SignInInv, SignInTyped
<1>6. ASSUME Unharmed' PROVE SignedIn'
  <2>1. SignedIn /\ Serves(d) /\ Active(d)
    BY <1>1, <1>4, <1>6 DEF SignInInv, Unharmed, SignedIn, Active
  <2>2. /\ IF p.stopping THEN TRUE ELSE pidfile = d
        /\ file = p.pair /\ SignIn!Live(p.pair) /\ file # 0
        /\ HandedOver \cap {p.pair, p.new} = {}
    BY <1>1, <1>4, <2>1 DEF Serves
  <2>3. \A n \in HandedOver : SignIn!Live(n) /\ n # file
    BY <2>1 DEF SignedIn
  <2> QED
    BY <1>2, <1>3, <1>4, <2>1, <2>2, <2>3, PairsKept, ServesAfter DEF SignInInv
<1> QED
  BY <1>5, <1>6 DEF SignInInv

LEMMA ExitKeeps ==
  ASSUME SignIn!SignInAssumption, SignInInv, NEW d \in Daemons, SignIn!Exit(d)
  PROVE  SignInInv'
<1>1. /\ proc' = [proc EXCEPT ![d] = SignIn!Off] /\ pidfile' = NoDaemon
      /\ UNCHANGED <<rows, admin, session, login, logout, file, overlap>>
  BY DEF SignIn!Exit
<1>2. harmed' \in BOOLEAN /\ (harmed' = FALSE => harmed = FALSE /\ proc[d].pc = "idle")
  BY DEF SignIn!Exit, SignInInv, SignInTyped
<1>3. SignInTyped'
  BY <1>1, <1>2, OffTyped, PairsKept, TypedAfter DEF SignInInv, SignInTyped
<1>4. ASSUME Unharmed' PROVE SignedIn'
  <2>1. SignedIn /\ Active(d) /\ proc[d].pc = "idle"
    BY <1>1, <1>2, <1>4 DEF SignInInv, Unharmed, SignInTyped, Active
  <2>2. SignIn!Live(file)
    BY <2>1 DEF SignedIn, Serves
  <2>3. proc'[d] = SignIn!Off /\ \A e \in Daemons \ {d} : proc'[e] = proc[e]
    BY <1>1 DEF SignInInv, SignInTyped
  <2>4. \A e \in Daemons : ~Active(e)'
    BY <2>1, <2>3, OffTyped DEF SignedIn, Active
  <2>5. HandedOver' = HandedOver
    BY <1>1 DEF HandedOver
  <2>6. SignIn!Live(file)'
    BY <1>1, <2>2 DEF SignIn!Live, SignIn!Issued
  <2> QED
    BY <1>1, <2>1, <2>4, <2>5, <2>6, PairsKept DEF SignedIn
<1> QED
  BY <1>3, <1>4 DEF SignInInv

LEMMA StopKeeps ==
  ASSUME SignIn!SignInAssumption, SignInInv, SignIn!Stop
  PROVE  SignInInv'
<1>1. PICK d \in Daemons : d = pidfile
  BY DEF SignIn!Stop, SignInInv, SignInTyped
<1>2. PICK p \in SignIn!Proc : p = proc[d]
  BY DEF SignInInv, SignInTyped
<1>3. PICK b \in BOOLEAN : b = SignIn!Running(d)
  BY DEF SignIn!Running
<1>4. PICK q : q = [p EXCEPT !.stopping = b]
  OBVIOUS
<1>5. /\ proc' = [proc EXCEPT ![d] = q] /\ pidfile' = NoDaemon
      /\ UNCHANGED <<rows, admin, session, login, logout, file, harmed, overlap>>
      /\ \A e \in Daemons : proc[e].pc # "starting"
  BY <1>1, <1>2, <1>3, <1>4 DEF SignIn!Stop, SignIn!NoFault, SignIn!AtPrompt
<1>6. q \in SignIn!Proc /\ q.stopping = b /\ q.new = p.new /\ q.pair = p.pair
      /\ q.known = p.known /\ q.pc = p.pc
  BY <1>3, <1>4 DEF SignIn!Proc
<1>7. SignInTyped'
  BY <1>2, <1>5, <1>6, PairsKept, TypedAfter DEF SignInInv, SignInTyped
<1>8. ASSUME Unharmed' PROVE SignedIn'
  <2>1. SignedIn
    BY <1>5, <1>8 DEF SignInInv, Unharmed
  <2>2. CASE Active(d)
    <3>1. Serves(d) /\ b = TRUE
      BY <1>1, <1>2, <1>3, <1>5, <2>1, <2>2 DEF SignedIn, Active, SignIn!Running
    <3>2. /\ p.pc \notin {"off", "burning", "starting"}
          /\ p.pc \in {"idle", "asked", "exchanging", "answered"} => p.known = p.pair
          /\ IF p.pc = "answered" THEN SignIn!Live(p.new) ELSE SignIn!Live(p.pair)
          /\ file # 0
          /\ SignIn!Live(file) \/ (p.pc \in {"answered", "saving"} /\ p.known = file)
          /\ HandedOver \cap {p.pair, p.new} = {}
      BY <1>2, <1>5, <2>2, <3>1 DEF Serves, Active
    <3>3. \A n \in HandedOver : SignIn!Live(n) /\ n # file
      BY <2>1 DEF SignedIn
    <3> QED
      BY <1>5, <1>6, <2>1, <2>2, <3>1, <3>2, <3>3, PairsKept, ServesAfter DEF SignInInv
  <2>3. CASE ~Active(d)
    <3>1. /\ proc'[d].pc = "off" /\ \A e \in Daemons \ {d} : proc'[e] = proc[e]
      BY <1>2, <1>5, <1>6, <2>3 DEF SignInInv, SignInTyped, Active
    <3>2. \A e \in Daemons : Active(e)' <=> Active(e)
      BY <2>3, <3>1 DEF Active
    <3>3. HandedOver' = HandedOver
      BY <1>5 DEF HandedOver
    <3>4. \A e \in Daemons : Active(e) => e # d /\ proc[e].stopping
      BY <1>1, <2>1, <2>3 DEF SignedIn, Serves
    <3>5. \A e \in Daemons : Active(e) => Serves(e)'
      BY <1>5, <2>1, <3>1, <3>3, <3>4 DEF SignedIn, Serves, SignIn!Live, SignIn!Issued
    <3> QED
      BY <1>5, <2>1, <3>2, <3>3, <3>5, PairsKept DEF SignedIn
  <2> QED
    BY <2>2, <2>3
<1> QED
  BY <1>7, <1>8 DEF SignInInv

-----------------------------------------------------------------------------
(* What the user does beside the daemon leaves it a live pair, if what is  *)
(* handed over or saved is live and new to it.                             *)
LEMMA ServedBeside ==
  ASSUME SignInTyped, SignedIn, UNCHANGED <<proc, pidfile, admin, logout>>,
         \A n : SignIn!Live(n) => SignIn!Live(n)',
         \A d \in Daemons : proc[d].pc = "starting" => login'.state = "none" /\ file' = file,
         file' = file \/ (file' # 0 /\ SignIn!Live(file)'),
         \A n \in HandedOver' : /\ SignIn!Live(n)' /\ n # file'
                                /\ \A d \in Daemons : Active(d) => n \notin {proc[d].pair, proc[d].new},
         session'.pair = login'.pair => session'.pair = 0,
         session'.state = "approved" => session'.pair # 0,
         login'.state = "approved" => login'.pair # 0
  PROVE  SignedIn'
<1>1. PICK f : f = file'
  OBVIOUS
<1>2. \A d \in Daemons : Active(d)' <=> Active(d)
  BY DEF Active
<1>3. f = 0 \/ SignIn!Live(f)' \/ f = file
  BY <1>1 DEF SignIn!Live, SignIn!Issued
<1>4. ASSUME NEW d \in Daemons, Active(d) PROVE Serves(d)'
  <2>1. Serves(d)
    BY <1>4 DEF SignedIn
  <2>2. SignIn!Live(f)' \/ (proc[d].pc \in {"answered", "saving"} /\ proc[d].known = f)
    BY <1>1, <2>1 DEF Serves, SignIn!Live, SignIn!Issued
  <2>3. HandedOver' \cap {proc[d].pair, proc[d].new} = {}
    BY <1>4
  <2>4. \A n : SignIn!Live(n) => n \in DOMAIN rows' /\ rows'[n].state = "live"
    BY DEF SignIn!Live, SignIn!Issued
  <2> QED
    BY <1>1, <2>1, <2>2, <2>3, <2>4 DEF Serves, SignIn!Live, SignIn!Issued
<1>5. (\A d \in Daemons : ~Active(d)) => file' = 0 \/ SignIn!Live(file)'
  BY DEF SignedIn, SignIn!Live, SignIn!Issued
<1>6. \A n \in HandedOver' : n # file' /\ n \in DOMAIN rows' /\ rows'[n].state = "live"
  BY DEF SignIn!Live, SignIn!Issued
<1> QED
  BY <1>2, <1>4, <1>5, <1>6 DEF SignedIn, SignIn!Live, SignIn!Issued

LEMMA ActivePairs ==
  ASSUME SignInTyped, SignedIn, NEW n \in HandedOver
  PROVE  /\ SignIn!Live(n) /\ n # file
         /\ \A d \in Daemons : Active(d) => n \notin {proc[d].pair, proc[d].new}
BY DEF SignedIn, Serves

LEMMA LoginStartsKeeps ==
  ASSUME SignIn!SignInAssumption, SignInInv, SignIn!LoginStarts
  PROVE  SignInInv'
<1>1. /\ login'.state = "waiting" /\ login'.pair = 0
      /\ session'.state = "pending" /\ session'.pair = 0
      /\ SignIn!AtPrompt
      /\ UNCHANGED <<rows, admin, logout, file, pidfile, proc, harmed, overlap>>
  BY DEF SignIn!LoginStarts, SignIn!None, SignIn!NoFault
<1>2. SignInTyped'
  BY <1>1, PairsKept DEF SignInInv, SignInTyped
<1>3. HandedOver' = {}
  BY <1>1 DEF HandedOver
<1>4. ASSUME Unharmed' PROVE SignedIn'
  BY <1>1, <1>3, <1>4, PairsKept, ServedBeside DEF SignInInv, Unharmed, SignIn!AtPrompt
<1> QED
  BY <1>2, <1>4 DEF SignInInv

LEMMA ApproveKeeps ==
  ASSUME SignIn!SignInAssumption, SignInInv, SignIn!Approve
  PROVE  SignInInv'
<1>1. PICK n \in SignIn!Pairs :
        /\ n = SignIn!Next1 /\ n \notin {0} \cup SignIn!Issued
        /\ SignIn!Issued' = SignIn!Issued \cup {n}
        /\ \E k \in 0..MaxPairs : SignIn!Issued' = 1..k
        /\ SignIn!Live(n)'
        /\ \A m \in SignIn!Issued \ {0} : SignIn!Live(m) => SignIn!Live(m)'
  BY PairMinted DEF SignInInv, SignIn!Approve, SignIn!Issue
<1>2. /\ session'.state = "approved" /\ session'.pair = n
      /\ UNCHANGED <<admin, login, logout, file, pidfile, proc, harmed, overlap>>
  BY <1>1 DEF SignIn!Approve, SignIn!NoFault
<1>3. SignInTyped'
  BY <1>1, <1>2 DEF SignInInv, SignInTyped
<1>4. ASSUME Unharmed' PROVE SignedIn'
  <2>1. SignedIn
    BY <1>2, <1>4 DEF SignInInv, Unharmed
  <2>2. \A m : SignIn!Live(m) => SignIn!Live(m)'
    BY <1>1, PairsBound DEF SignIn!Live, SignInInv
  <2>3. HandedOver' \subseteq HandedOver \cup {n}
    BY <1>2 DEF HandedOver
  <2>4. \A m \in HandedOver' : /\ SignIn!Live(m)' /\ m # file'
          /\ \A d \in Daemons : Active(d) => m \notin {proc[d].pair, proc[d].new}
    BY <1>1, <1>2, <2>1, <2>2, <2>3, ActivePairs DEF SignInInv, SignInTyped
  <2>5. session'.pair # login'.pair /\ session'.pair # 0
    BY <1>1, <1>2 DEF SignInInv, SignInTyped
  <2>6. \A d \in Daemons : proc[d].pc = "starting" => login'.state = "none"
    BY <1>2, <2>1 DEF SignedIn, Serves, Active
  <2>7. login'.state = "approved" => login'.pair # 0
    BY <1>2, <2>1 DEF SignedIn
  <2> QED
    BY <1>2, <2>1, <2>2, <2>4, <2>5, <2>6, <2>7, ServedBeside DEF SignInInv
<1> QED
  BY <1>3, <1>4 DEF SignInInv

LEMMA PollKeeps ==
  ASSUME SignIn!SignInAssumption, SignInInv, SignIn!Poll
  PROVE  SignInInv'
<1>1. /\ session'.state = "none" /\ session'.pair = 0
      /\ \/ login' = session /\ UNCHANGED harmed
         \/ UNCHANGED login /\ harmed' = TRUE
      /\ login.state = "waiting" /\ session.state = "approved"
      /\ UNCHANGED <<rows, admin, logout, file, pidfile, proc, overlap>>
  BY DEF SignIn!Poll, SignIn!None, SignIn!NoFault, SignIn!Fault
<1>2. SignInTyped'
  BY <1>1, PairsKept DEF SignInInv, SignInTyped
<1>3. ASSUME Unharmed' PROVE SignedIn'
  <2>1. SignedIn /\ login' = session
    BY <1>1, <1>3 DEF SignInInv, Unharmed
  <2>2. HandedOver' \subseteq HandedOver
    BY <1>1, <2>1 DEF HandedOver
  <2>3. \A n \in HandedOver' : /\ SignIn!Live(n)' /\ n # file'
          /\ \A d \in Daemons : Active(d) => n \notin {proc[d].pair, proc[d].new}
    BY <1>1, <2>1, <2>2, ActivePairs, PairsKept DEF SignInInv
  <2>4. \A d \in Daemons : proc[d].pc # "starting"
    BY <1>1, <2>1 DEF SignedIn, Serves, Active
  <2>5. login'.pair # 0
    BY <1>1, <2>1 DEF SignedIn
  <2> QED
    BY <1>1, <2>1, <2>3, <2>4, <2>5, PairsKept, ServedBeside DEF SignInInv
<1> QED
  BY <1>2, <1>3 DEF SignInInv

LEMMA LoginEndsKeeps ==
  ASSUME SignIn!SignInAssumption, SignInInv, SignIn!LoginEnds
  PROVE  SignInInv'
<1>1. /\ login'.state = "none" /\ login'.pair = 0
      /\ \/ login.state = "approved" /\ file' = login.pair
         \/ login.state = "waiting" /\ UNCHANGED file
      /\ UNCHANGED <<rows, admin, session, logout, pidfile, proc, harmed, overlap>>
  BY DEF SignIn!LoginEnds, SignIn!None, SignIn!NoFault
<1>2. SignInTyped'
  BY <1>1, PairsKept DEF SignInInv, SignInTyped
<1>3. ASSUME Unharmed' PROVE SignedIn'
  <2>1. SignedIn
    BY <1>1, <1>3 DEF SignInInv, Unharmed
  <2>2. HandedOver' = {session.pair} \ {0} /\ HandedOver' \subseteq HandedOver
    BY <1>1 DEF HandedOver
  <2>3. \A d \in Daemons : proc[d].pc # "starting"
    BY <1>1, <2>1 DEF SignedIn, Serves, Active
  <2>4. file' = file \/ (file' = login.pair /\ login.pair \in HandedOver)
    BY <1>1, <2>1 DEF SignedIn, HandedOver
  <2>5. file' = file \/ (file' # 0 /\ SignIn!Live(file)')
    <3> SUFFICES ASSUME file' # file PROVE file' # 0 /\ SignIn!Live(file)'
      OBVIOUS
    <3>1. SignIn!Live(login.pair) /\ login.pair # 0 /\ file' = login.pair
      BY <2>1, <2>4, ActivePairs DEF SignInInv, HandedOver
    <3> QED
      BY <1>1, <3>1 DEF SignIn!Live, SignIn!Issued
  <2>6. \A n \in HandedOver' : /\ SignIn!Live(n)' /\ n # file'
          /\ \A d \in Daemons : Active(d) => n \notin {proc[d].pair, proc[d].new}
    <3> SUFFICES ASSUME NEW n \in HandedOver'
                 PROVE  /\ SignIn!Live(n)' /\ n # file'
                        /\ \A d \in Daemons : Active(d) => n \notin {proc[d].pair, proc[d].new}
      OBVIOUS
    <3>1. n = session.pair /\ n # 0 /\ n \in HandedOver
      BY <2>2
    <3>2. n # login.pair
      BY <2>1, <3>1 DEF SignedIn
    <3> QED
      BY <1>1, <2>1, <2>4, <3>1, <3>2, ActivePairs, PairsKept DEF SignInInv
  <2>7. session'.pair = login'.pair => session'.pair = 0
    BY <1>1
  <2>8. session'.state = "approved" => session'.pair # 0
    BY <1>1, <2>1 DEF SignedIn
  <2> QED
    BY <1>1, <2>1, <2>3, <2>5, <2>6, <2>7, <2>8, PairsKept, ServedBeside DEF SignInInv
<1> QED
  BY <1>2, <1>3 DEF SignInInv

(* What harms the sign-in.                                                 *)
LEMMA HarmKeeps ==
  ASSUME SignIn!SignInAssumption, SignInInv,
         SignIn!Demote \/ SignIn!BackendRestarts \/ SignIn!LogoutStarts \/ SignIn!LogoutEnds
  PROVE  SignInInv'
<1>1. /\ UNCHANGED <<pidfile, proc, overlap, login>> /\ session' \in {session, SignIn!None}
      /\ file' \in {file, 0} /\ SignIn!Issued' = SignIn!Issued
      /\ harmed' \in {harmed, TRUE}
  BY RevokedKeeps, PairsKept
     DEF SignIn!Demote, SignIn!BackendRestarts, SignIn!LogoutStarts, SignIn!LogoutEnds,
         SignIn!Fault, SignIn!NoFault
<1>2. session'.pair \in {session.pair, 0}
  BY <1>1 DEF SignIn!None
<1>3. SignInTyped'
  BY <1>1, <1>2 DEF SignInInv, SignInTyped
<1>4. harmed' = TRUE \/ (logout # {} /\ UNCHANGED <<harmed, overlap>>)
  BY DEF SignIn!Demote, SignIn!BackendRestarts, SignIn!LogoutStarts, SignIn!LogoutEnds,
         SignIn!Fault, SignIn!NoFault
<1>5. ~Unharmed'
  BY <1>4 DEF SignInInv, SignedIn, Unharmed
<1> QED
  BY <1>3, <1>5 DEF SignInInv

LEMMA SignInStep ==
  ASSUME SignIn!SignInAssumption, SignInInv, [SignIn!Next]_SignIn!vars
  PROVE  SignInInv'
<1>1. ASSUME UNCHANGED <<rows, admin, session, login, logout, file, pidfile, proc, harmed, overlap>>
      PROVE  SignInInv'
  BY <1>1 DEF SignInInv, SignInTyped, Unharmed, SignedIn, HandedOver, Active, Serves,
              SignIn!Live, SignIn!Issued
<1>2. ASSUME NEW n \in SignIn!Pairs, SignIn!Age(n) PROVE SignInInv'
  BY <1>1, <1>2 DEF SignIn!Age, SignIn!NoFault
<1>3. CASE UNCHANGED SignIn!vars
  BY <1>1, <1>3 DEF SignIn!vars
<1>4. CASE SignIn!Command
  BY <1>4, LoginStartsKeeps, LoginEndsKeeps, HarmKeeps, StopKeeps DEF SignIn!Command
<1>5. ASSUME NEW d \in Daemons, SignIn!Manager(d) PROVE SignInInv'
  BY <1>5, RenewKeeps, ReadKeeps, ExchangeKeeps, BurnKeeps, AnswerKeeps, SaveKeeps DEF SignIn!Manager
<1> QED
  BY <1>2, <1>3, <1>4, <1>5, ApproveKeeps, PollKeeps, StartKeeps, StartedKeeps, ExitKeeps, HarmKeeps
     DEF SignIn!Next

(* Where no fault, logout or stop cuts a renewal and one daemon runs, and  *)
(* however many logins there are beside it, a daemon between renewals      *)
(* holds a refresh token that the backend will exchange.                   *)
LEMMA ComputerSignedIn ==
  ASSUME SignIn!SignInAssumption
  PROVE  SignIn!Spec => []SignIn!StaysSignedIn
<1>1. SignInInv => SignIn!StaysSignedIn
  BY DEF SignInInv, Unharmed, SignedIn, Active, Serves, SignIn!StaysSignedIn
<1> QED
  BY <1>1, SignInInit, SignInStep, PTL DEF SignIn!Spec

(* So a daemon that keeps running stays signed in beside the other parts.  *)
THEOREM RunningDaemonsStaySignedIn == BackendSpec => []StaysSignedIn
<1>1. SignIn!Spec => []SignIn!StaysSignedIn
  BY ComputerSignedIn, BackendAssumption
<1>2. (part = "sign-in" => SignIn!StaysSignedIn) => StaysSignedIn
  BY DEF StaysSignedIn
<1> QED
  BY <1>1, <1>2, SignInMove, PTL DEF BackendSpec, SignIn!Spec

-----------------------------------------------------------------------------
(* The task graph.  What its checks are worth: for any tasks and any       *)
(* number of requests at once, no link and no parent dangles; and where    *)
(* requests are served one after another, the dependencies stay acyclic.   *)
(* (Two at once refute that: run find_cycle.)                              *)

(* About relations.                                                        *)

(* Fewer edges make no cycle.                                              *)
LEMMA AcyclicShrinks ==
  ASSUME NEW R, NEW S, R \subseteq S, Acyclic(S)
  PROVE  Acyclic(R)
  BY DEF Acyclic

(* Fewer edges reach no further.                                           *)
LEMMA ReachesShrinks ==
  ASSUME NEW R, NEW S, R \subseteq S, NEW a, NEW b, ~Reaches(S, b, a)
  PROVE  ~Reaches(R, b, a)
  BY DEF Reaches, Closed

(* The check of add_dependency: an edge from a to b closes no cycle when a *)
(* cannot be reached from b.  The witness is the set that the search from  *)
(* b explored: every edge of it stays in it, and a is outside.             *)
LEMMA EdgeKeepsAcyclic ==
  ASSUME NEW R, Acyclic(R), NEW a \in Tasks, NEW b \in Tasks, ~Reaches(R, b, a)
  PROVE  Acyclic(R \cup {<<a, b>>})
<1>1. PICK C \in SUBSET Tasks : b \in C /\ Closed(R, C) /\ a \notin C
  BY DEF Reaches
<1>2. ASSUME NEW X \in SUBSET Tasks, X # {}
      PROVE  \E x \in X : \A y \in X : <<x, y>> \notin R \cup {<<a, b>>}
  <2>1. CASE X \cap C # {}
    <3>1. PICK x \in X \cap C : \A y \in X \cap C : <<x, y>> \notin R
      BY <2>1 DEF Acyclic
    <3>2. ASSUME NEW y \in X PROVE <<x, y>> \notin R \cup {<<a, b>>}
      <4>1. <<x, y>> \notin R
        <5>1. SUFFICES ASSUME <<x, y>> \in R PROVE FALSE
          OBVIOUS
        <5>2. y \in C
          BY <1>1, <3>1, <5>1 DEF Closed
        <5> QED
          BY <3>1, <5>1, <5>2
      <4>2. <<x, y>> # <<a, b>>
        BY <1>1
      <4> QED
        BY <4>1, <4>2
    <3> QED
      BY <3>2
  <2>2. CASE X \cap C = {}
    <3>1. PICK x \in X : \A y \in X : <<x, y>> \notin R
      BY <1>2 DEF Acyclic
    <3>2. \A y \in X : <<x, y>> # <<a, b>>
      BY <1>1, <2>2
    <3> QED
      BY <3>1, <3>2
  <2> QED
    BY <2>1, <2>2
<1> QED
  BY <1>2 DEF Acyclic

(* The check of create_tasks: new tasks whose own edges Kahn's peeling     *)
(* uses up can be put beside a graph they do not touch.                    *)
LEMMA BatchKeepsAcyclic ==
  ASSUME NEW E \in SUBSET Tasks, NEW N \in SUBSET Tasks, N \cap E = {},
         NEW R \in SUBSET (E \X E), NEW F \in SUBSET (N \X N),
         Acyclic(R), Leftover(F, N) = {}
  PROVE  Acyclic(R \cup F)
<1>1. ASSUME NEW X \in SUBSET Tasks, X # {}
      PROVE  \E x \in X : \A y \in X : <<x, y>> \notin R \cup F
  <2>1. \A x, y : /\ <<x, y>> \in R => x \in E /\ y \in E
                  /\ <<x, y>> \in F => x \in N /\ y \in N
    OBVIOUS
  <2>2. CASE X \cap E # {}
    <3>1. PICK x \in X \cap E : \A y \in X \cap E : <<x, y>> \notin R
      BY <2>2 DEF Acyclic
    <3>2. \A y \in X : <<x, y>> \notin R \cup F
      BY <2>1, <3>1
    <3> QED
      BY <3>2
  <2>3. CASE X \cap E = {} /\ X \cap N # {}
    <3>1. \E x \in X \cap N : \A y \in X \cap N : <<x, y>> \notin F
      <4>1. SUFFICES ASSUME \A x \in X \cap N : \E y \in X \cap N : <<x, y>> \in F
                     PROVE  FALSE
        OBVIOUS
      <4>2. X \cap N \in {Y \in SUBSET N : \A x \in Y : \E y \in Y : <<x, y>> \in F}
        BY <4>1
      <4>3. X \cap N \subseteq Leftover(F, N)
        BY <4>2 DEF Leftover
      <4> QED
        BY <2>3, <4>3
    <3>2. PICK x \in X \cap N : \A y \in X \cap N : <<x, y>> \notin F
      BY <3>1
    <3>3. \A y \in X : <<x, y>> \notin R \cup F
      BY <2>1, <2>3, <3>2
    <3> QED
      BY <3>3
  <2>4. CASE X \cap E = {} /\ X \cap N = {}
    BY <1>1, <2>1, <2>4
  <2> QED
    BY <2>2, <2>3, <2>4
<1> QED
  BY <1>1 DEF Acyclic

-----------------------------------------------------------------------------
(* The types, for any number of requests.                                  *)

(* What a request that has proved its write holds in its hands.            *)
Shape(c) ==
  /\ c.op = "none" => c = Idle
  /\ c.op = "add" => c.from \in Tasks /\ c.new = {c.from}
  /\ c.op \in {"depend", "link", "parent"} => {c.from, c.to} \subseteq Tasks /\ c.new = {}
  /\ c.op = "batch" => c.edges \subseteq c.new \X c.new

TypeInv == TypeOK /\ \A q \in Requests : Shape(request[q])

LEMMA IdleIsACall == Idle \in Call /\ Shape(Idle)
  BY DEF Idle, Call, Ops, Shape, Pairs

(* A request that proves a write puts a well-formed one in its place.      *)
LEMMA ProvedKeepsType ==
  ASSUME TypeInv, GraphAssumption, NEW r \in Requests, NEW c \in Call, Shape(c),
         Begins(r), Proved(r, c)
  PROVE  TypeInv'
<1>1. request' \in [Requests -> Call] /\ \A q \in Requests : Shape(request'[q])
  BY DEF TypeInv, TypeOK, Proved
<1>2. calls' \in 0..MaxCalls
  BY DEF TypeInv, TypeOK, Begins, GraphAssumption
<1>3. NothingDangles'
  BY DEF TypeInv, TypeOK, NothingDangles, Proved
<1> QED
  BY <1>1, <1>2, <1>3 DEF TypeInv, TypeOK, Proved, Shape

(* The write of a well-formed request.                                     *)
LEMMA WriteKeepsType ==
  ASSUME TypeInv, GraphAssumption, NEW r \in Requests, Write(r)
  PROVE  TypeInv'
<1> DEFINE c == request[r]
<1>1. /\ request' \in [Requests -> Call] /\ \A q \in Requests : Shape(request'[q])
      /\ calls' \in 0..MaxCalls
  BY IdleIsACall DEF TypeInv, TypeOK, Write
<1>2. /\ c \in Call /\ Shape(c) /\ c.op \in Ops /\ c.new \in SUBSET Tasks
      /\ c.from \in Tasks \cup {NoTask} /\ c.to \in Tasks \cup {NoTask}
  BY DEF TypeInv, TypeOK, Call
<1>3. /\ exist' \subseteq Tasks /\ parent' \in [Tasks -> Tasks \cup {NoTask}]
      /\ deps' \in SUBSET Pairs /\ others' \in SUBSET Pairs
      /\ NothingDangles'
  <2>1. CASE ~Valid(c)
    BY <2>1 DEF Write, TypeInv, TypeOK, NothingDangles
  <2>2. CASE Valid(c) /\ c.op = "add"
    <3>1. /\ exist' = exist \cup c.new /\ parent' = [parent EXCEPT ![c.from] = c.to]
          /\ UNCHANGED <<deps, others>>
      BY <2>2 DEF Write, Written
    <3>2. c.from \in Tasks /\ c.new = {c.from} /\ {c.from, c.to} \ {NoTask} \subseteq exist'
      BY <1>2, <2>2, <3>1 DEF Shape, Valid
    <3> QED
      BY <1>2, <3>1, <3>2 DEF TypeInv, TypeOK, NothingDangles
  <2>3. CASE Valid(c) /\ c.op = "batch"
    <3>1. /\ exist' = exist \cup c.new /\ deps' = deps \cup c.edges
          /\ UNCHANGED <<parent, others>>
      BY <2>3 DEF Write, Written
    <3>2. c.edges \subseteq c.new \X c.new
      BY <1>2, <2>3 DEF Shape
    <3> QED
      BY <1>2, <3>1, <3>2 DEF TypeInv, TypeOK, NothingDangles, Pairs
  <2>4. CASE Valid(c) /\ c.op \in {"depend", "link", "parent"}
    <3>1. {c.from, c.to} \subseteq Tasks /\ {c.from, c.to} \subseteq exist
      BY <1>2, <2>4, GraphAssumption DEF Shape, Valid
    <3>2. CASE c.op = "depend"
      <4>1. deps' = deps \cup {Row(c)} /\ UNCHANGED <<exist, parent, others>>
        BY <2>4, <3>2 DEF Write, Written
      <4> QED
        BY <3>1, <4>1 DEF TypeInv, TypeOK, NothingDangles, Pairs, Row
    <3>3. CASE c.op = "link"
      <4>1. /\ deps' \subseteq deps \cup {Row(c)} /\ others' \subseteq others \cup {Row(c)}
            /\ UNCHANGED <<exist, parent>>
        BY <2>4, <3>3 DEF Write, Written
      <4> QED
        BY <3>1, <4>1 DEF TypeInv, TypeOK, NothingDangles, Pairs, Row
    <3>4. CASE c.op = "parent"
      <4>1. parent' = [parent EXCEPT ![c.from] = c.to] /\ UNCHANGED <<exist, deps, others>>
        BY <2>4, <3>4 DEF Write, Written
      <4> QED
        BY <3>1, <4>1 DEF TypeInv, TypeOK, NothingDangles
    <3> QED
      BY <2>4, <3>2, <3>3, <3>4
  <2>5. c.op # "none"
    BY <1>2 DEF Write, Shape
  <2> QED
    BY <1>2, <2>1, <2>2, <2>3, <2>4, <2>5 DEF Ops
<1> QED
  BY <1>1, <1>3 DEF TypeInv, TypeOK

(* Every action keeps the types.  A request that proves a write is         *)
(* ProvedKeepsType; what its operation puts in its hands is well-formed.   *)
LEMMA TypeStep == ASSUME TypeInv, GraphAssumption, [Next]_vars PROVE TypeInv'
<1>1. ASSUME NEW r \in Requests, NEW t \in Tasks, NEW p \in Tasks \cup {NoTask}, Create(r, t, p)
      PROVE  TypeInv'
  <2> DEFINE c == [Idle EXCEPT !.op = "add", !.from = t, !.to = p, !.new = {t}]
  <2>1. c \in Call /\ Shape(c)
    BY DEF Idle, Call, Ops, Shape, Pairs
  <2>2. Begins(r) /\ Proved(r, c)
    BY <1>1 DEF Create
  <2> QED
    BY <2>1, <2>2, ProvedKeepsType
<1>2. ASSUME NEW r \in Requests, NEW S \in SUBSET Tasks, NEW R \in SUBSET (S \X S), Batch(r, S, R)
      PROVE  TypeInv'
  <2> DEFINE c == [Idle EXCEPT !.op = "batch", !.new = S, !.edges = R]
  <2>1. c \in Call /\ Shape(c)
    BY DEF Idle, Call, Ops, Shape, Pairs
  <2>2. Begins(r) /\ Proved(r, c)
    BY <1>2 DEF Batch
  <2> QED
    BY <2>1, <2>2, ProvedKeepsType
<1>3. ASSUME NEW r \in Requests, NEW a \in Tasks, NEW b \in Tasks, AddDependency(r, a, b)
      PROVE  TypeInv'
  <2> DEFINE c == [Idle EXCEPT !.op = "depend", !.type = "depends_on", !.from = a, !.to = b]
  <2>1. c \in Call /\ Shape(c)
    BY DEF Idle, Call, Ops, Shape, Pairs
  <2>2. Begins(r) /\ Proved(r, c)
    BY <1>3 DEF AddDependency
  <2> QED
    BY <2>1, <2>2, ProvedKeepsType
<1>4. ASSUME NEW r \in Requests, NEW a \in Tasks, NEW b \in Tasks,
             NEW type \in {"depends_on", "other"}, AddLink(r, a, b, type)
      PROVE  TypeInv'
  <2> DEFINE c == [Idle EXCEPT !.op = "link", !.type = type, !.from = a, !.to = b]
  <2>1. c \in Call /\ Shape(c)
    BY DEF Idle, Call, Ops, Shape, Pairs
  <2>2. Begins(r) /\ Proved(r, c)
    BY <1>4 DEF AddLink
  <2> QED
    BY <2>1, <2>2, ProvedKeepsType
<1>5. ASSUME NEW r \in Requests, NEW t \in Tasks, NEW p \in Tasks, SetParent(r, t, p)
      PROVE  TypeInv'
  <2> DEFINE c == [Idle EXCEPT !.op = "parent", !.from = t, !.to = p]
  <2>1. c \in Call /\ Shape(c)
    BY DEF Idle, Call, Ops, Shape, Pairs
  <2>2. Begins(r) /\ Proved(r, c)
    BY <1>5 DEF SetParent
  <2> QED
    BY <2>1, <2>2, ProvedKeepsType
<1>6. ASSUME NEW r \in Requests, Write(r) PROVE TypeInv'
  BY <1>6, WriteKeepsType
<1>7. ASSUME NEW a \in Tasks, NEW b \in Tasks, Unlink(a, b) PROVE TypeInv'
  BY <1>7 DEF Unlink, TypeInv, TypeOK, NothingDangles, Shape
<1>8. ASSUME NEW t \in Tasks, Detach(t) PROVE TypeInv'
  BY <1>8 DEF Detach, TypeInv, TypeOK, NothingDangles, Shape
<1>9. ASSUME NEW t \in Tasks, Delete(t) PROVE TypeInv'
  BY <1>9 DEF Delete, Touching, TypeInv, TypeOK, NothingDangles, Shape, Pairs
<1>10. CASE UNCHANGED vars
  BY <1>10 DEF vars, TypeInv, TypeOK, NothingDangles, Shape
<1> QED
  BY <1>1, <1>2, <1>3, <1>4, <1>5, <1>6, <1>7, <1>8, <1>9, <1>10 DEF Next

(* Of any number of requests at once: the types hold, and no link and no   *)
(* parent outlives a task it names.                                        *)
THEOREM TypeCorrect == Spec => []TypeOK
<1>1. Init => TypeInv
  BY IdleIsACall, GraphAssumption DEF Init, TypeInv, TypeOK, NothingDangles
<1>2. TypeInv /\ [Next]_vars => TypeInv'
  BY TypeStep, GraphAssumption
<1>3. TypeInv => TypeOK
  BY DEF TypeInv
<1> QED
  BY <1>1, <1>2, <1>3, PTL DEF Spec

-----------------------------------------------------------------------------
(* Acyclic dependencies, where requests are served one at a time.          *)

(* What the check has established is still so when the write is made:      *)
(* between the two, links and tasks only go.                               *)
Proven(c) ==
  /\ c.op = "depend" \/ (c.op = "link" /\ c.type = "depends_on") => ~Reaches(deps, c.to, c.from)
  /\ c.op = "batch" => c.new \cap exist = {} /\ Leftover(c.edges, c.new) = {}

SerialInv(r) == TypeInv /\ DependenciesAcyclic /\ Proven(request[r])

(* A write that was proved keeps the dependencies acyclic.                 *)
LEMMA WriteKeepsAcyclic ==
  ASSUME NEW r \in Requests, SerialInv(r), GraphAssumption, Write(r)
  PROVE  Acyclic(deps')
<1> DEFINE c == request[r]
<1>1. /\ c \in Call /\ Shape(c) /\ c.op \in Ops /\ c.op # "none"
      /\ c.type \in {"depends_on", "other"} /\ Acyclic(deps)
  BY DEF SerialInv, TypeInv, TypeOK, DependenciesAcyclic, Call, Shape, Write
<1>2. CASE deps' \subseteq deps
  BY <1>1, <1>2, AcyclicShrinks
<1>3. CASE Valid(c) /\ c.op = "batch"
  <2>1. deps' = deps \cup c.edges
    BY <1>3 DEF Write, Written
  <2>2. /\ exist \in SUBSET Tasks /\ c.new \in SUBSET Tasks /\ c.new \cap exist = {}
        /\ deps \in SUBSET (exist \X exist) /\ c.edges \in SUBSET (c.new \X c.new)
        /\ Leftover(c.edges, c.new) = {}
    BY <1>1, <1>3 DEF SerialInv, TypeInv, TypeOK, NothingDangles, Proven, Shape, Call
  <2> QED
    BY <1>1, <2>1, <2>2, BatchKeepsAcyclic
<1>4. CASE Valid(c) /\ (c.op = "depend" \/ (c.op = "link" /\ c.type = "depends_on"))
  <2>1. c.from \in Tasks /\ c.to \in Tasks /\ ~Reaches(deps, c.to, c.from)
    BY <1>1, <1>4 DEF SerialInv, Shape, Proven
  <2>2. deps' \subseteq deps \cup {<<c.from, c.to>>}
    BY <1>4 DEF Write, Written, Row
  <2>3. Acyclic(deps \cup {<<c.from, c.to>>})
    BY <1>1, <2>1, EdgeKeepsAcyclic
  <2> QED
    BY <2>2, <2>3, AcyclicShrinks
<1>5. CASE ~Valid(c) \/ c.op \in {"add", "parent"} \/ (c.op = "link" /\ c.type = "other")
  <2>1. deps' \subseteq deps
    BY <1>5 DEF Write, Written
  <2> QED
    BY <1>2, <2>1
<1> QED
  BY <1>1, <1>3, <1>4, <1>5 DEF Ops

(* The deletions keep the dependencies acyclic and the proofs valid.       *)
LEMMA ShrinkKeepsSerialInv ==
  ASSUME NEW r \in Requests, SerialInv(r), TypeInv',
         deps' \subseteq deps, exist' \subseteq exist, request' = request
  PROVE  SerialInv(r)'
<1>1. Acyclic(deps')
  BY AcyclicShrinks DEF SerialInv, DependenciesAcyclic
<1>2. \A a, b : ~Reaches(deps, b, a) => ~Reaches(deps', b, a)
  BY ReachesShrinks
<1> QED
  BY <1>1, <1>2 DEF SerialInv, DependenciesAcyclic, Proven

(* With one request at a time, "every write here proves acyclicity before  *)
(* it commits" is enough: the dependencies are acyclic for ever, whatever  *)
(* the tasks and however many calls there are.                             *)
THEOREM SerialRequestsKeepAcyclic ==
  ASSUME NEW r, Requests = {r}
  PROVE  Spec => []DependenciesAcyclic
<1>1. Init => SerialInv(r)
  <2> SUFFICES ASSUME Init PROVE SerialInv(r)
    OBVIOUS
  <2>1. TypeInv
    BY IdleIsACall, GraphAssumption DEF Init, TypeInv, TypeOK, NothingDangles
  <2>2. DependenciesAcyclic
    BY DEF Init, DependenciesAcyclic, Acyclic
  <2>3. Proven(request[r])
    BY DEF Init, Proven, Idle
  <2> QED
    BY <2>1, <2>2, <2>3 DEF SerialInv
<1>2. SerialInv(r) /\ [Next]_vars => SerialInv(r)'
  <2> SUFFICES ASSUME SerialInv(r), [Next]_vars PROVE SerialInv(r)'
    OBVIOUS
  <2>1. TypeInv' /\ TypeInv
    BY TypeStep, GraphAssumption DEF SerialInv
  <2>2. ASSUME NEW c, Proved(r, c), Proven(c) PROVE SerialInv(r)'
    <3>1. request'[r] = c /\ UNCHANGED <<deps, exist>>
      BY <2>1, <2>2 DEF Proved, TypeInv, TypeOK
    <3> QED
      BY <2>1, <2>2, <3>1 DEF SerialInv, Proven, DependenciesAcyclic
  <2>3. ASSUME NEW t \in Tasks, NEW p \in Tasks \cup {NoTask}, Create(r, t, p)
        PROVE  SerialInv(r)'
    BY <2>2, <2>3 DEF Create, Proven, Idle
  <2>4. ASSUME NEW S \in SUBSET Tasks, NEW R \in SUBSET (S \X S), Batch(r, S, R)
        PROVE  SerialInv(r)'
    BY <2>2, <2>4 DEF Batch, Proven, Idle
  <2>5. ASSUME NEW a \in Tasks, NEW b \in Tasks, AddDependency(r, a, b)
        PROVE  SerialInv(r)'
    BY <2>2, <2>5 DEF AddDependency, Proven, Idle
  <2>6. ASSUME NEW a \in Tasks, NEW b \in Tasks, NEW type \in {"depends_on", "other"},
               AddLink(r, a, b, type)
        PROVE  SerialInv(r)'
    BY <2>2, <2>6 DEF AddLink, Proven, Idle
  <2>7. ASSUME NEW t \in Tasks, NEW p \in Tasks, SetParent(r, t, p) PROVE SerialInv(r)'
    BY <2>2, <2>7 DEF SetParent, Proven, Idle
  <2>8. ASSUME Write(r) PROVE SerialInv(r)'
    <3>1. Acyclic(deps')
      BY <2>8, WriteKeepsAcyclic, GraphAssumption
    <3>2. request'[r] = Idle
      BY <2>1, <2>8 DEF Write, TypeInv, TypeOK
    <3> QED
      BY <2>1, <3>1, <3>2 DEF SerialInv, DependenciesAcyclic, Proven, Idle
  <2>9. ASSUME NEW a \in Tasks, NEW b \in Tasks, Unlink(a, b) PROVE SerialInv(r)'
    BY <2>1, <2>9, ShrinkKeepsSerialInv DEF Unlink
  <2>10. ASSUME NEW t \in Tasks, Detach(t) \/ Delete(t) PROVE SerialInv(r)'
    BY <2>1, <2>10, ShrinkKeepsSerialInv DEF Detach, Delete
  <2>11. CASE UNCHANGED vars
    BY <2>1, <2>11, ShrinkKeepsSerialInv DEF vars
  <2> QED
    BY <2>3, <2>4, <2>5, <2>6, <2>7, <2>8, <2>9, <2>10, <2>11 DEF Next
<1>3. SerialInv(r) => DependenciesAcyclic
  BY DEF SerialInv
<1> QED
  BY <1>1, <1>2, <1>3, PTL DEF Spec
==============================================================================
