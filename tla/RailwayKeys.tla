------------------------------ MODULE RailwayKeys ------------------------------
(***************************************************************************)
(* How a Railway token is judged, kept and used (deploy/railway.py,        *)
(* deploy/manager.py, deploy/flow.py).  Railway has tokens of three kinds; *)
(* each query is answered to some of them.  The adapter, one object per    *)
(* server process, asks one query after the other until one is answered,   *)
(* and remembers which header a token needs.                               *)
(*                                                                         *)
(* A query is one step: Railway answers it, refuses the token, answers     *)
(* with another error (a rate limit), or is not reached.  Requests         *)
(* interleave between queries.                                             *)
(***************************************************************************)
EXTENDS Naturals

CONSTANTS
  Tokens, NoToken,
  Kind,        \* Kind[k]: what the token is
  Threads,     \* server threads
  MaxFaults,   \* bound: queries that are lost or end in an error
  MaxAsked     \* bound: requests of people

RailwayKeysAssumption ==
  /\ NoToken \notin Tokens /\ MaxFaults \in Nat /\ MaxAsked \in Nat
  /\ Kind \in [Tokens -> {"personal", "workspace", "project", "bad"}]

VARIABLES
  scope,    \* scope[k]: RailwayAdapter._scopes
  stored,   \* the organisation's DeployCredential
  thread,   \* thread[t]: the request and the query it is at
  erred,    \* history: tokens for which Railway answered with another error
  faults, asked

vars == <<scope, stored, thread, erred, faults, asked>>

Verdicts == {"valid", "invalid", "unknown"}
Ops    == {"set", "reverify", "probe", "connect", "use"}
Thread == [op : Ops \cup {"idle"}, token : Tokens \cup {NoToken},
           query : {"none", "me", "projects", "token", "scope", "services"}]
Idle   == [op |-> "idle", token |-> NoToken, query |-> "none"]

Init ==
  /\ scope = [k \in Tokens |-> "unasked"]
  /\ stored = [token |-> NoToken, valid |-> "unknown"]
  /\ thread = [t \in Threads |-> Idle]
  /\ erred = {} /\ faults = 0 /\ asked = 0

(* Who is answered: `me` is a person's, `projects` a person's or a         *)
(* workspace's; `projectToken`, under its own header, a project's; the     *)
(* services are listed to whoever comes with the right header.             *)
Answered(k, q) ==
  CASE q = "me"       -> Kind[k] = "personal"
    [] q = "projects" -> Kind[k] \in {"personal", "workspace"}
    [] q \in {"token", "scope"} -> Kind[k] = "project"
    [] q = "services" -> IF scope[k] = "project" THEN Kind[k] = "project"
                         ELSE Kind[k] \in {"personal", "workspace"}

(* The answers a query may get; two of them are faults.                    *)
Answers(k, q) ==
  {IF Answered(k, q) THEN "ok" ELSE "refused"}
    \cup (IF faults < MaxFaults THEN {"lost", "error"} ELSE {})

Counted(k, answer) ==
  /\ faults' = IF answer \in {"lost", "error"} THEN faults + 1 ELSE faults
  /\ erred' = IF answer = "error" THEN erred \cup {k} ELSE erred

------------------------------------------------------------------------------
(* A key is stored, probed in the connect wizard, attached, checked again  *)
(* or used; the last two take the key that is stored.                      *)
Ask(t) ==
  /\ thread[t].op = "idle" /\ asked < MaxAsked /\ asked' = asked + 1
  /\ \E op \in Ops, k \in Tokens :
       /\ op \in {"reverify", "use"} => k = stored.token
       /\ op = "use" => scope[k] = "unasked"
       /\ thread' = [thread EXCEPT ![t] =
            [op |-> op, token |-> k, query |-> IF op = "use" THEN "scope" ELSE "me"]]
  /\ UNCHANGED <<scope, stored, erred, faults>>

(* The verdict is reached: it is stored with the key, or the wizard goes   *)
(* on to the services, for a key that is good.                             *)
Judged(t, verdict) ==
  LET op == thread[t].op
      k  == thread[t].token
  IN  \/ /\ op \in {"set", "reverify"}
         /\ stored' = [token |-> k, valid |-> verdict]
         /\ thread' = [thread EXCEPT ![t] = Idle]
      \/ /\ op \in {"probe", "connect"}
         /\ thread' = [thread EXCEPT ![t] =
              IF verdict = "valid" THEN [@ EXCEPT !.query = "services"] ELSE Idle]
         /\ UNCHANGED stored

Goes(t, q) == thread' = [thread EXCEPT ![t].query = q] /\ UNCHANGED stored

(* verify_credential: `me`; a refusal may come of a token without a user.  *)
AsksMe(t) ==
  /\ thread[t].query = "me"
  /\ LET k == thread[t].token IN \E answer \in Answers(k, "me") :
       /\ \/ answer = "ok" /\ Judged(t, "valid")
          \/ answer \in {"lost", "error"} /\ Judged(t, "unknown")
          \/ answer = "refused" /\ Goes(t, "projects")
       /\ scope' = IF answer = "ok" THEN [scope EXCEPT ![k] = "account"] ELSE scope
       /\ Counted(k, answer)
  /\ UNCHANGED asked

(* _verify_team_token: what anything but a refusal says of the token.      *)
TeamVerdict(answer) ==
  CASE answer = "ok" -> "valid" [] answer = "lost" -> "unknown" [] answer = "error" -> "invalid"

AsksProjects(t) ==
  /\ thread[t].query = "projects"
  /\ LET k == thread[t].token IN \E answer \in Answers(k, "projects") :
       /\ \/ answer # "refused" /\ Judged(t, TeamVerdict(answer))
          \/ answer = "refused" /\ Goes(t, "token")
       /\ scope' = IF answer = "ok" THEN [scope EXCEPT ![k] = "account"] ELSE scope
       /\ Counted(k, answer)
  /\ UNCHANGED asked

(* _project_scope: Railway's error is read as a refusal; only a lost query *)
(* is no answer.                                                           *)
ScopeOf(answer) == IF answer = "ok" THEN "project" ELSE "account"

AsksToken(t) ==
  /\ thread[t].query = "token"
  /\ LET k == thread[t].token IN \E answer \in Answers(k, "token") :
       /\ \/ answer = "ok" /\ Judged(t, "valid")
          \/ answer = "lost" /\ Judged(t, "unknown")
          \/ answer \in {"refused", "error"} /\ Judged(t, "invalid")
       /\ scope' = IF answer = "ok" THEN [scope EXCEPT ![k] = "project"] ELSE scope
       /\ Counted(k, answer)
  /\ UNCHANGED asked

(* Mutant of Kept: a lost query is read like any other failure.            *)
KeptAnyway(k, answer) == [scope EXCEPT ![k] = ScopeOf(answer)]

(* _scope: a call with a key whose kind is not known asks for it first and *)
(* keeps what it is told.                                                  *)
Kept(k, answer) == IF answer = "lost" THEN scope ELSE [scope EXCEPT ![k] = ScopeOf(answer)]

AsksScope(t) ==
  /\ thread[t].query = "scope"
  /\ LET k == thread[t].token IN \E answer \in Answers(k, "scope") :
       scope' = Kept(k, answer) /\ Counted(k, answer)
  /\ thread' = [thread EXCEPT ![t] = Idle]
  /\ UNCHANGED <<stored, asked>>

(* connect: the key that was probed is stored, as a good one.              *)
Connected(k, answer) ==
  IF answer = "ok" THEN [token |-> k, valid |-> "valid"] ELSE stored

(* probe_key: a key is good once its services are listed.                  *)
AsksServices(t) ==
  /\ thread[t].query = "services"
  /\ LET k == thread[t].token IN \E answer \in Answers(k, "services") :
       /\ stored' = IF thread[t].op = "connect" THEN Connected(k, answer) ELSE stored
       /\ Counted(k, answer)
  /\ thread' = [thread EXCEPT ![t] = Idle]
  /\ UNCHANGED <<scope, asked>>

(* The provider is disconnected.                                           *)
Disconnect ==
  /\ stored.token # NoToken /\ stored' = [token |-> NoToken, valid |-> "unknown"]
  /\ UNCHANGED <<scope, thread, erred, faults, asked>>

(* The server process ends: its requests and what it remembered are gone.  *)
Restart ==
  /\ faults < MaxFaults /\ faults' = faults + 1
  /\ scope' = [k \in Tokens |-> "unasked"] /\ thread' = [t \in Threads |-> Idle]
  /\ UNCHANGED <<stored, erred, asked>>

Next == \/ Disconnect \/ Restart
        \/ \E t \in Threads : \/ Ask(t) \/ AsksMe(t) \/ AsksProjects(t) \/ AsksToken(t)
                              \/ AsksScope(t) \/ AsksServices(t)

Spec == Init /\ [][Next]_vars

------------------------------------------------------------------------------
TypeOK ==
  /\ scope \in [Tokens -> {"unasked", "account", "project"}]
  /\ stored \in [token : Tokens \cup {NoToken}, valid : Verdicts]
  /\ thread \in [Threads -> Thread] /\ erred \subseteq Tokens
  /\ faults \in 0..MaxFaults /\ asked \in 0..MaxAsked

(* A token is remembered, and marked, as what it is: bad only if Railway   *)
(* refused it, and of the kind that Railway said.  "`None` means we        *)
(* couldn't check ... which is not the user's token being bad"             *)
(* (railway.py:303); ""couldn't ask" is not an answer, so it is never      *)
(* cached" (railway.py:558).  Excused: tokens for which Railway answered   *)
(* with an error of another kind, which _verify_team_token and             *)
(* _project_scope read as a refusal (railway.py:340, :563).                *)
KeysAreJudgedByRailway ==
  /\ \A k \in Tokens \ erred :
       scope[k] # "unasked" => (scope[k] = "project" <=> Kind[k] = "project")
  /\ stored.valid = "invalid" => stored.token \in erred \/ Kind[stored.token] = "bad"
  /\ stored.valid = "valid" => Kind[stored.token] # "bad"

(* The same without the excuse: refuted.                                   *)
OnlyRefusalsCount ==
  /\ \A k \in Tokens : scope[k] = "account" => Kind[k] # "project"
  /\ stored.valid = "invalid" => Kind[stored.token] = "bad"

(* A key that has been disconnected or replaced does not return: refuted,  *)
(* by a check that began before (flow.reverify stores the key it read).    *)
ReplacedKeysAreGone ==
  [][\A t \in Threads : thread[t].op = "reverify" /\ thread'[t].op = "idle"
       => stored'.token = stored.token]_vars
=============================================================================
