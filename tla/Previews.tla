------------------------------- MODULE Previews -------------------------------
(***************************************************************************)
(* Deployments on Railway: what people start and stop, what Railway builds *)
(* on its own for a pull request, and the rows that mirror both            *)
(* (deploy/flow.py, deploy/railway.py).                                    *)
(*                                                                         *)
(* A request reads rows, asks Railway and writes in one transaction, so    *)
(* others write in between; a write stores the fields that differ from     *)
(* what the request had read.  Railway and the people who push to a branch *)
(* are the environment.  The key and its kind are RailwayKeys.             *)
(***************************************************************************)
EXTENDS Naturals, Sequences, SequencesExt

CONSTANTS
  Branches, Main,
  Threads,      \* server threads
  MaxBuilds,    \* bound: builds that Railway ever makes
  MaxRows,      \* bound: rows of a branch
  MaxAsked,     \* bound: requests of people
  MaxFaults     \* bound: calls to Railway that fail

PreviewsAssumption ==
  /\ Main \in Branches
  /\ MaxBuilds \in Nat /\ MaxRows \in Nat /\ MaxAsked \in Nat /\ MaxFaults \in Nat

VARIABLES
  build,    \* Railway: build[i]
  latest,   \* Railway: latest[b]: the newest build of the branch's environment, or 0
  rows,     \* rows[b]: the Deployments of a branch, by updated_at
  thread,   \* thread[t]: what a request has read and been told
  asked, faults

vars == <<build, latest, rows, thread, asked, faults>>

Ids    == 0..MaxBuilds
Status == {"building", "live", "failed", "stopped"}
Row    == [key : 1..MaxRows, id : Ids, status : Status]
NoRow  == [key |-> 0, id |-> 0, status |-> "stopped"]
Thread == [op : {"idle", "list", "told", "deploy", "commit", "stop"}, branch : Branches,
           row   : [Branches -> Row \cup {NoRow}],                   \* latest rows, read
           found : [Branches -> [id : Ids, status : Status]],        \* what Railway told
           late  : BOOLEAN]                \* history: others wrote since it read
Nothing == [b \in Branches |-> [id |-> 0, status |-> "stopped"]]
Idle    == [op |-> "idle", branch |-> Main, row |-> [b \in Branches |-> NoRow],
            found |-> Nothing, late |-> FALSE]

Init ==
  /\ build = <<>> /\ latest = [b \in Branches |-> 0]
  /\ rows = [b \in Branches |-> <<>>]
  /\ thread = [t \in Threads |-> Idle]
  /\ asked = 0 /\ faults = 0

Newest(b) == IF rows[b] = <<>> THEN NoRow ELSE Last(rows[b])

(* A row that is written becomes the newest one of its branch.             *)
Updated(b, key, old, id, status) ==
  LET i == CHOOSE j \in DOMAIN rows[b] : rows[b][j].key = key
      r == rows[b][i]
  IN  Append(RemoveAt(rows[b], i),
             [key |-> key, id     |-> IF id = old.id THEN r.id ELSE id,
                           status |-> IF status = old.status THEN r.status ELSE status])

Created(b, id, status) ==
  Append(rows[b], [key |-> Len(rows[b]) + 1, id |-> id, status |-> status])

(* The others read before this was written.                                *)
Done(t) == [u \in Threads |-> IF u = t THEN Idle
                              ELSE [thread[u] EXCEPT !.late = thread[u].op # "idle"]]

Fault == faults < MaxFaults /\ faults' = faults + 1
Ask   == asked < MaxAsked /\ asked' = asked + 1

------------------------------------------------------------------------------
(* Railway builds a branch: for a push to it, or because it is told to.    *)
Building(b) == [branch |-> b, status |-> "building"]

Push(b) ==
  /\ Ask /\ Len(build) < MaxBuilds
  /\ build' = Append(build, Building(b)) /\ latest' = [latest EXCEPT ![b] = Len(build) + 1]
  /\ UNCHANGED <<rows, thread, faults>>

BuildEnds(i) ==
  /\ build[i].status = "building"
  /\ \E s \in {"live", "failed"} : build' = [build EXCEPT ![i].status = s]
  /\ UNCHANGED <<latest, rows, thread, asked, faults>>

------------------------------------------------------------------------------
(* create_deployment: a row in flight is the answer; else the branch is    *)
(* deployed.  redeploy: any row, in place.                                 *)
InFlight(b) == \E j \in DOMAIN rows[b] : rows[b][j].status = "building"

Create(t, b) ==
  /\ Ask /\ thread[t].op = "idle" /\ ~InFlight(b) /\ Len(rows[b]) < MaxRows
  /\ thread' = [thread EXCEPT ![t] = [Idle EXCEPT !.op = "deploy", !.branch = b]]
  /\ UNCHANGED <<build, latest, rows, faults>>

Redeploy(t, b) ==
  /\ Ask /\ thread[t].op = "idle"
  /\ \E j \in DOMAIN rows[b] :
       thread' = [thread EXCEPT ![t] =
         [Idle EXCEPT !.op = "deploy", !.branch = b, !.row[b] = rows[b][j]]]
  /\ UNCHANGED <<build, latest, rows, faults>>

(* RailwayAdapter.deploy: Railway is told to build the services of the     *)
(* branch's environment, which a branch without a pull request has not.    *)
(* When a later service fails, the first one builds all the same and its   *)
(* id is dropped; when its status cannot be read, the request fails.       *)
Told(t, id, status) ==
  thread' = [thread EXCEPT ![t].op = "commit",
                           ![t].found[thread[t].branch] = [id |-> id, status |-> status]]

NoEnvironment(b) == b # Main /\ latest[b] = 0

Deploys(t) ==
  LET b == thread[t].branch IN
  /\ thread[t].op = "deploy"
  /\ \/ /\ NoEnvironment(b)
        /\ Told(t, 0, "failed")
        /\ UNCHANGED <<build, latest, faults>>
     \/ /\ Fault /\ Told(t, 0, "failed")
        /\ UNCHANGED <<build, latest>>
     \/ /\ ~NoEnvironment(b)
        /\ Len(build) < MaxBuilds
        /\ build' = Append(build, Building(b)) /\ latest' = [latest EXCEPT ![b] = Len(build) + 1]
        /\ \/ Told(t, Len(build) + 1, "building") /\ UNCHANGED faults
           \/ Fault /\ Told(t, 0, "failed")
           \/ Fault /\ thread' = [thread EXCEPT ![t] = Idle]
  /\ UNCHANGED <<rows, asked>>

Commits(t) ==
  LET b == thread[t].branch
      f == thread[t].found[b]
      r == thread[t].row[b]
  IN  /\ thread[t].op = "commit"
      /\ IF r.key = 0
           THEN /\ Len(rows[b]) < MaxRows
                /\ rows' = [rows EXCEPT ![b] = Created(b, f.id, f.status)]
           ELSE rows' = [rows EXCEPT ![b] = Updated(b, r.key, r, f.id, f.status)]
      /\ thread' = Done(t)
      /\ UNCHANGED <<build, latest, asked, faults>>

(* stop: the build is torn down, as far as Railway can be reached, and the *)
(* row says so.                                                            *)
StopAsked(t, b) ==
  /\ Ask /\ thread[t].op = "idle" /\ b # Main
  /\ \E j \in DOMAIN rows[b] :
       thread' = [thread EXCEPT ![t] =
         [Idle EXCEPT !.op = "stop", !.branch = b, !.row[b] = rows[b][j]]]
  /\ UNCHANGED <<build, latest, rows, faults>>

Stops(t) ==
  LET b == thread[t].branch
      r == thread[t].row[b]
  IN  /\ thread[t].op = "stop"
      /\ \/ /\ build' = IF r.id = 0 THEN build ELSE [build EXCEPT ![r.id].status = "stopped"]
            /\ UNCHANGED faults
         \/ r.id # 0 /\ Fault /\ UNCHANGED build
      /\ rows' = IF r.status = "stopped" THEN rows
                   ELSE [rows EXCEPT ![b] = Updated(b, r.key, r, r.id, "stopped")]
      /\ thread' = Done(t)
      /\ UNCHANGED <<latest, asked>>

------------------------------------------------------------------------------
(* A listing reads the newest row of every branch, asks for the previews   *)
(* that Railway has ...                                                    *)
Lists(t) ==
  /\ thread[t].op = "idle"
  /\ thread' = [thread EXCEPT ![t] =
       [Idle EXCEPT !.op = "list", !.row = [b \in Branches |-> Newest(b)]]]
  /\ UNCHANGED <<build, latest, rows, asked, faults>>

Found(b) == IF b = Main \/ latest[b] = 0 THEN Nothing[b]
            ELSE [id |-> latest[b], status |-> build[latest[b]].status]

AsksPreviews(t) ==
  /\ thread[t].op = "list"
  /\ \/ thread' = [thread EXCEPT ![t].op = "told", ![t].found = [b \in Branches |-> Found(b)]]
        /\ UNCHANGED faults
     \/ Fault /\ thread' = [thread EXCEPT ![t].op = "told"]
  /\ UNCHANGED <<build, latest, rows, asked>>

(* ... records each one, in the row of its build or in a new one ...       *)
Recorded(b, r, f) ==
  CASE f.id # r.id            -> Created(b, f.id, f.status)
    [] f.id = r.id /\ f.status # r.status -> Updated(b, r.key, r, f.id, f.status)
    [] OTHER                  -> rows[b]

(* Mutant of Unanswered: a call that fails is a build that failed.         *)
UnansweredIsFailed(b, r) == Updated(b, r.key, r, r.id, "failed")

(* ... and asks for the builds in flight of the others, which a failing    *)
(* call leaves as they are.                                                *)
Unanswered(b, r) == rows[b]

Observed(b, r, answered) ==
  LET open == r.status = "building" /\ r.id # 0 IN
  CASE open /\ ~answered -> Unanswered(b, r)
    [] open /\ answered /\ build[r.id].status # r.status ->
         Updated(b, r.key, r, r.id, build[r.id].status)
    [] OTHER -> rows[b]

Synced(t, b, answered) ==
  LET r == thread[t].row[b]
      f == thread[t].found[b]
  IN  IF f.id # 0 THEN Recorded(b, r, f) ELSE Observed(b, r, answered)

Syncs(t) ==
  /\ thread[t].op = "told"
  /\ \E answered \in BOOLEAN :
       /\ IF answered THEN UNCHANGED faults ELSE Fault
       /\ rows' = [b \in Branches |-> Synced(t, b, answered)]
  /\ \A b \in Branches : Len(rows'[b]) <= MaxRows
  /\ thread' = IF rows' = rows THEN [thread EXCEPT ![t] = Idle] ELSE Done(t)
  /\ UNCHANGED <<build, latest, asked>>

Next ==
  \/ \E b \in Branches : Push(b)
  \/ \E i \in DOMAIN build : BuildEnds(i)
  \/ \E t \in Threads :
       \/ Deploys(t) \/ Commits(t) \/ Stops(t) \/ Lists(t) \/ AsksPreviews(t) \/ Syncs(t)
       \/ \E b \in Branches : Create(t, b) \/ Redeploy(t, b) \/ StopAsked(t, b)

Spec == Init /\ [][Next]_vars

------------------------------------------------------------------------------
TypeOK ==
  /\ build \in Seq([branch : Branches, status : Status]) /\ Len(build) <= MaxBuilds
  /\ latest \in [Branches -> Ids] /\ thread \in [Threads -> Thread]
  /\ \A b \in Branches : rows[b] \in Seq(Row) /\ Len(rows[b]) <= MaxRows
  /\ asked \in 0..MaxAsked /\ faults \in 0..MaxFaults

(* A listing that no write overlapped shows what Railway said: of every    *)
(* preview it was told of, the newest row is of that build and in its      *)
(* state; any other row is as it was, or in the state of its build.  So a  *)
(* row follows Railway through new builds, redeployed and stopped ones,    *)
(* and ""couldn't check" must not overwrite a building deployment with     *)
(* "failed"" (railway.py:488).                                             *)
ListingStep ==
  \A t \in Threads :
    thread[t].op = "told" /\ thread'[t].op = "idle" /\ ~thread[t].late
      => \A b \in Branches :
           LET f == thread[t].found[b]
               r == Last(rows'[b])
           IN  IF f.id # 0 THEN r.id = f.id /\ r.status = f.status
               ELSE rows'[b] # rows[b] => r.status = build[r.id].status

ListingShowsRailway == [][ListingStep]_vars

(* A build is mirrored by one row ("a new build is a new row, the same     *)
(* build just updates"): refuted, by two listings that overlap, and by a   *)
(* listing while the request that started the build has not committed.     *)
OneRowPerBuild ==
  \A b \in Branches : \A i, j \in DOMAIN rows[b] :
    rows[b][i].id # 0 /\ rows[b][i].id = rows[b][j].id => i = j

(* A row in flight is the newest of its branch, so that listings will see  *)
(* it end: refuted, by a push while a build goes on.  The older row says   *)
(* `building' from then on, and create_deployment answers with it instead  *)
(* of deploying ("a second call while one is queued or building returns    *)
(* the in-flight deployment", flow.py:263).                                *)
InFlightIsNewest ==
  \A b \in Branches : \A i \in DOMAIN rows[b] :
    rows[b][i].status = "building" => i = Len(rows[b])
=============================================================================
