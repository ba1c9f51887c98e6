------------------------------- MODULE McpOAuth -------------------------------
(***************************************************************************)
(* How an app (Claude, ChatGPT, a CLI) gets to act over MCP as a person or *)
(* as an agent (mcp_oauth.py, mcp_server.ASGILoggingMiddleware).           *)
(*                                                                         *)
(* A flow is one attempt of one app: the page it opens in a browser, its   *)
(* PKCE verifier and the redirect address it waits at.  The server keeps   *)
(* nothing but a cache of client documents: pages, codes and tokens are    *)
(* signed and travel, so they come back late, twice, or to another flow.   *)
(* A request is one step.                                                  *)
(***************************************************************************)
EXTENDS Naturals, FiniteSets

CONSTANTS
  Flows,
  Apps,      \* Apps[f]: the client, and its redirect address
  Pinned,    \* Pinned[f]: the agent that the link names (`?as='), or Nobody
  Signed,    \* clients that have registered; the others publish a document
  People, Agents, Nobody,
  MaxEdits   \* bound: changes of profiles, documents and sign-ins, and failing fetches

Identities == People \cup Agents
Clients    == {Apps[f] : f \in Flows}

McpOAuthAssumption ==
  /\ People \cap Agents = {} /\ Nobody \notin Identities
  /\ Signed \subseteq Clients /\ MaxEdits \in Nat
  /\ Pinned \in [Flows -> Agents \cup {Nobody}]

VARIABLES
  profile,    \* profile[i]: what the profile is
  published,  \* clients whose document can be had
  cache,      \* cache[c]: _cimd_cache
  webLogin,   \* who is signed in to the web app in this browser
  pages,      \* pages that the browser can post
  codes, access, refresh,
  chosen,     \* history: who chose what, on the pages of which flow, and as what
  edits

vars == <<profile, published, cache, webLogin, pages, codes, access, refresh, chosen, edits>>

Roles == {"admin", "member", "agent", "gone"}
Page  == [kind : {"web app", "login", "picker"}, flow : Flows, login : People \cup {Nobody}]
Grant == [flow : Flows, sub : Identities]   \* a code or a token

Init ==
  /\ profile = [i \in Identities |-> IF i \in Agents THEN "agent" ELSE "admin"]
  /\ published = Clients \ Signed
  /\ cache = [c \in Clients |-> "empty"]
  /\ webLogin = Nobody
  /\ pages = {} /\ codes = {} /\ access = {} /\ refresh = {} /\ chosen = {}
  /\ edits = 0

Exists(i) == profile[i] # "gone"

Edit == edits < MaxEdits /\ edits' = edits + 1

------------------------------------------------------------------------------
(* What changes around the flows: profiles, documents, the web login, and  *)
(* what grows old.                                                         *)
Edits ==
  /\ Edit
  /\ \/ \E p \in People : /\ Exists(p)
                          /\ \E r \in {"admin", "member", "gone"} : profile' = [profile EXCEPT ![p] = r]
        /\ UNCHANGED <<published, webLogin>>
     \/ \E a \in Agents : profile' = [profile EXCEPT ![a] = "gone"]
        /\ UNCHANGED <<published, webLogin>>
     \/ webLogin' \in People \cup {Nobody} /\ UNCHANGED <<profile, published>>
     \/ \E c \in published : published' = published \ {c} /\ UNCHANGED <<profile, webLogin>>
  /\ UNCHANGED <<cache, pages, codes, access, refresh, chosen>>

Expires ==
  /\ \/ \E c \in Clients : cache' = [cache EXCEPT ![c] = "empty"] /\ UNCHANGED <<pages, codes, access>>
     \/ \E k \in codes : codes' = codes \ {k} /\ UNCHANGED <<cache, pages, access>>
     \/ \E t \in access : access' = access \ {t} /\ UNCHANGED <<cache, pages, codes>>
     \/ \E q \in pages : q.kind = "picker" /\ pages' = pages \ {q} /\ UNCHANGED <<cache, codes, access>>
  /\ UNCHANGED <<profile, published, webLogin, refresh, chosen, edits>>

------------------------------------------------------------------------------
(* register: nothing is kept; the id that a client is given describes it.  *)
Registered(c) == c \in Signed

(* _client: a registered client carries its own description; a document is *)
(* fetched and kept, and so is the failure to have it.                     *)
Fetched(c, known) ==
  /\ known => c \in published
  /\ IF c \in published /\ ~known THEN Edit ELSE UNCHANGED edits
  /\ cache' = [cache EXCEPT ![c] = IF known THEN "known" ELSE "unknown"]

Client(c, known) ==
  \/ Registered(c) /\ known /\ UNCHANGED <<cache, edits>>
  \/ ~Registered(c) /\ cache[c] # "empty" /\ known = (cache[c] = "known") /\ UNCHANGED <<cache, edits>>
  \/ ~Registered(c) /\ cache[c] = "empty" /\ Fetched(c, known)

Shown(kind, f, p) == pages' = pages \cup {[kind |-> kind, flow |-> f, login |-> p]}

(* Who a person may connect as: an admin, as the agents too.               *)
AgentIdentities(p) == IF profile[p] = "admin" THEN {a \in Agents : Exists(a)} ELSE {}

(* The browser is sent back to the app with a code for this flow.          *)
RedirectWithCode(f, p, i) ==
  /\ codes' = codes \cup {[flow |-> f, sub |-> i]}
  /\ chosen' = chosen \cup {[flow |-> f, sub |-> i, allowed |-> i \in {p} \cup AgentIdentities(p)]}

NoCode == UNCHANGED <<codes, chosen>>

(* A person has signed in: the link pins an agent, an admin picks one, the *)
(* others connect as themselves.                                           *)
AfterSignIn(f, p) ==
  CASE Pinned[f] \in AgentIdentities(p) ->
         RedirectWithCode(f, p, Pinned[f]) /\ UNCHANGED pages
    [] Pinned[f] # Nobody /\ Pinned[f] \notin AgentIdentities(p) ->
         Shown("login", f, Nobody) /\ NoCode
    [] Pinned[f] = Nobody /\ AgentIdentities(p) # {} ->
         Shown("picker", f, p) /\ NoCode
    [] OTHER -> RedirectWithCode(f, p, p) /\ UNCHANGED pages

------------------------------------------------------------------------------
(* GET /authorize: the browser is sent to the web app, for its login.      *)
Authorize(f) ==
  /\ \E known \in BOOLEAN : /\ Client(Apps[f], known)
                            /\ IF known THEN Shown("web app", f, Nobody) ELSE UNCHANGED pages
  /\ NoCode
  /\ UNCHANGED <<profile, published, webLogin, access, refresh>>

(* POST /authorize/sso: without a login that is good, the password page.   *)
AuthorizeSso(q) ==
  /\ q.kind = "web app"
  /\ \E known \in BOOLEAN :
       /\ Client(Apps[q.flow], known)
       /\ CASE ~known -> NoCode /\ UNCHANGED pages
            [] known /\ webLogin # Nobody /\ Exists(webLogin) -> AfterSignIn(q.flow, webLogin)
            [] OTHER -> Shown("login", q.flow, Nobody) /\ NoCode
  /\ UNCHANGED <<profile, published, webLogin, access, refresh>>

(* POST /authorize with a password; a wrong one shows the page again.      *)
SignIn(q, p) ==
  /\ q.kind = "login" /\ Exists(p)
  /\ \E known \in BOOLEAN :
       /\ Client(Apps[q.flow], known)
       /\ IF known THEN AfterSignIn(q.flow, p) ELSE NoCode /\ UNCHANGED pages
  /\ UNCHANGED <<profile, published, webLogin, access, refresh>>

(* POST /authorize with an identity: it is asked again who may choose it.  *)
Pick(q, i) ==
  /\ q.kind = "picker" /\ Exists(q.login) /\ i \in {q.login} \cup AgentIdentities(q.login)
  /\ \E known \in BOOLEAN :
       /\ Client(Apps[q.flow], known)
       /\ IF known THEN RedirectWithCode(q.flow, q.login, i) ELSE NoCode
  /\ UNCHANGED <<profile, published, webLogin, pages, access, refresh>>

------------------------------------------------------------------------------
(* Mutant of PkceOk: any verifier will do.                                 *)
AnyVerifier(f, k) == TRUE

(* _pkce_ok: the verifier is that of the flow whose page made the code.    *)
PkceOk(f, k) == f = k.flow

(* An access token, which lasts an hour, and a refresh token.              *)
Granted(f, i) ==
  /\ access' = access \cup {[flow |-> f, sub |-> i]}
  /\ refresh' = refresh \cup {[flow |-> f, sub |-> i]}

(* POST /token with a code: a flow presents a code that reached its app.   *)
Exchange(f, k) ==
  /\ Apps[f] = Apps[k.flow] /\ PkceOk(f, k) /\ Exists(k.sub)
  /\ Granted(f, k.sub)
  /\ UNCHANGED <<profile, published, cache, webLogin, pages, codes, chosen, edits>>

(* POST /token with a refresh token.                                       *)
Refresh(r) ==
  /\ Exists(r.sub) /\ access' = access \cup {r}
  /\ UNCHANGED <<profile, published, cache, webLogin, pages, codes, refresh, chosen, edits>>

Next ==
  \/ Edits \/ Expires
  \/ \E f \in Flows : Authorize(f) \/ \E k \in codes : Exchange(f, k)
  \/ \E q \in pages : \/ AuthorizeSso(q)
                      \/ \E p \in People : SignIn(q, p)
                      \/ \E i \in Identities : Pick(q, i)
  \/ \E r \in refresh : Refresh(r)

Spec == Init /\ [][Next]_vars

------------------------------------------------------------------------------
TypeOK ==
  /\ profile \in [Identities -> Roles] /\ published \subseteq Clients
  /\ cache \in [Clients -> {"empty", "known", "unknown"}]
  /\ webLogin \in People \cup {Nobody} /\ pages \subseteq Page
  /\ codes \subseteq Grant /\ access \subseteq Grant /\ refresh \subseteq Grant
  /\ chosen \subseteq [flow : Flows, sub : Identities, allowed : BOOLEAN]
  /\ edits \in 0..MaxEdits

(* A flow acts as what was chosen on its own page, by a person who might   *)
(* choose it at that moment, however the pages and codes of the flows of   *)
(* one app come back, and although roles change while a page is open       *)
(* (mcp_oauth.py:9-13; :399 asks a second time who may pick).              *)
ActsAsChosen ==
  \A t \in access \cup refresh :
    [flow |-> t.flow, sub |-> t.sub, allowed |-> TRUE] \in chosen
==============================================================================
