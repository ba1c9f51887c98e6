--------------------------- MODULE ServicesProofs ---------------------------
(***************************************************************************)
(* Theorems about the four parts of Services: DeployFlow (the app a daemon *)
(* runs), AgentRows (agents and the checks of their runtimes), Previews    *)
(* (what Railway builds) and PlanningTurns (when a dry queue was last      *)
(* refilled).  Each is proved from an invariant of the part, and holds of  *)
(* Services, whose steps are those of its parts.                           *)
(***************************************************************************)
EXTENDS Services, SequencesExt, SequenceTheorems, FiniteSetTheorems, WellFoundedInduction, TLAPS

-----------------------------------------------------------------------------
(* A part that moves does so by its own specification, and goes on.        *)
LEMMA DeployMoves ==
  /\ ServicesInit /\ part = "deploy" => Deploy!Init
  /\ [ServicesNext]_servicesVars /\ part = "deploy" => [Deploy!Next]_(Deploy!vars)
  /\ [ServicesNext]_servicesVars => part' = part
BY DEF ServicesInit, ServicesNext, servicesVars, deployVars, Deploy!vars

LEMMA RegistryMoves ==
  /\ ServicesInit /\ part = "agents" => Registry!Init
  /\ [ServicesNext]_servicesVars /\ part = "agents" => [Registry!Next]_(Registry!vars)
  /\ [ServicesNext]_servicesVars => part' = part
BY DEF ServicesInit, ServicesNext, servicesVars, registryVars, Registry!vars

LEMMA MirrorMoves ==
  /\ ServicesInit /\ part = "previews" => Mirror!Init
  /\ [ServicesNext]_servicesVars /\ part = "previews" => [Mirror!Next]_(Mirror!vars)
  /\ [ServicesNext]_servicesVars => part' = part
BY DEF ServicesInit, ServicesNext, servicesVars, mirrorVars, Mirror!vars

LEMMA PlanningMoves ==
  /\ ServicesInit /\ part = "planning" => Planning!Init
  /\ [ServicesNext]_servicesVars /\ part = "planning" => [Planning!Next]_(Planning!vars)
  /\ [ServicesNext]_servicesVars => part' = part
BY DEF ServicesInit, ServicesNext, servicesVars, planningVars, Planning!vars

-----------------------------------------------------------------------------
(* Sequences whose entries move to the end.                                *)

LEMMA BeforeLast == \A n \in Nat : \A j \in 1..n : j # n => j \in 1..n - 1 /\ n \in 1..n
OBVIOUS

(* m is s with the entry at i replaced by r and moved to the end.          *)
MovedTo(m, s, i, r) ==
  /\ Len(m) = Len(s) /\ m[Len(s)] = r
  /\ \A j \in 1..Len(s) - 1 : m[j] = IF j < i THEN s[j] ELSE s[j + 1]

(* An entry of a sequence that is replaced moves to its end; the others    *)
(* keep their order.                                                       *)
LEMMA Moved ==
  ASSUME NEW S, NEW s \in Seq(S), NEW i \in DOMAIN s, NEW r \in S,
         NEW m, m = Append(RemoveAt(s, i), r)
  PROVE  MovedTo(m, s, i, r) /\ m \in Seq(S)
<1>1. Len(s) \in Nat /\ DOMAIN s = 1..Len(s) /\ i \in 1..Len(s)
  BY LenProperties
<1>2. \A j \in 1..Len(s) : s[j] \in S
  BY ElementOfSeq
<1> DEFINE a == SubSeq(s, 1, i - 1)
           b == SubSeq(s, i + 1, Len(s))
<1>3. a \in Seq(S) /\ Len(a) = i - 1 /\ \A j \in 1..i - 1 : a[j] = s[j]
  <2>1. \A j \in 1..i - 1 : s[j] \in S
    BY <1>1, <1>2
  <2>2. /\ SubSeq(s, 1, i - 1) \in Seq(S)
        /\ Len(SubSeq(s, 1, i - 1)) = IF 1 <= i - 1 THEN (i - 1) - 1 + 1 ELSE 0
        /\ \A j \in 1..(i - 1) - 1 + 1 : SubSeq(s, 1, i - 1)[j] = s[1 + j - 1]
    <3>1. 1 \in Int /\ i - 1 \in Int
      BY <1>1
    <3>2. QED  BY <3>1, <2>1, SubSeqProperties
  <2>3. QED  BY <2>2, <1>1
<1>4. b \in Seq(S) /\ Len(b) = Len(s) - i /\ \A j \in 1..Len(s) - i : b[j] = s[i + j]
  <2>1. \A j \in i + 1..Len(s) : s[j] \in S
    BY <1>1, <1>2
  <2>2. /\ SubSeq(s, i + 1, Len(s)) \in Seq(S)
        /\ Len(SubSeq(s, i + 1, Len(s))) =
             IF i + 1 <= Len(s) THEN Len(s) - (i + 1) + 1 ELSE 0
        /\ \A j \in 1..Len(s) - (i + 1) + 1 : SubSeq(s, i + 1, Len(s))[j] = s[(i + 1) + j - 1]
    <3>1. i + 1 \in Int /\ Len(s) \in Int
      BY <1>1
    <3>2. QED  BY <3>1, <2>1, SubSeqProperties
  <2>3. QED  BY <2>2, <1>1
<1> HIDE DEF a, b
<1>5. /\ a \o b \in Seq(S) /\ Len(a \o b) = Len(s) - 1
      /\ \A j \in 1..Len(s) - 1 : (a \o b)[j] = IF j <= i - 1 THEN a[j] ELSE b[j - (i - 1)]
  <2>1. /\ a \o b \in Seq(S) /\ Len(a \o b) = Len(a) + Len(b)
        /\ \A j \in 1..Len(a) + Len(b) : (a \o b)[j] = IF j <= Len(a) THEN a[j] ELSE b[j - Len(a)]
    BY <1>3, <1>4, ConcatProperties
  <2>2. QED  BY <2>1, <1>3, <1>4, <1>1, SMTT(30)
<1>6. \A j \in 1..Len(s) - 1 : (a \o b)[j] = IF j < i THEN s[j] ELSE s[j + 1]
  <2> SUFFICES ASSUME NEW j \in 1..Len(s) - 1
               PROVE  (a \o b)[j] = IF j < i THEN s[j] ELSE s[j + 1]
    OBVIOUS
  <2>1. CASE j <= i - 1
    <3>1. (a \o b)[j] = a[j]
      BY <1>5, <2>1
    <3>2. a[j] = s[j] /\ j < i
      BY <1>3, <1>1, <2>1
    <3>3. QED  BY <3>1, <3>2
  <2>2. CASE ~(j <= i - 1)
    <3>1. (a \o b)[j] = b[j - (i - 1)]
      BY <1>5, <2>2
    <3>2. j - (i - 1) \in 1..Len(s) - i /\ i + (j - (i - 1)) = j + 1 /\ ~(j < i)
      BY <1>1, <2>2
    <3>3. b[j - (i - 1)] = s[j + 1]
      BY <1>4, <3>2
    <3>4. QED  BY <3>1, <3>2, <3>3
  <2>3. QED  BY <2>1, <2>2
<1>7. RemoveAt(s, i) = a \o b
  BY DEF RemoveAt, a, b
<1>8. QED
  <2> DEFINE c == a \o b
  <2>1. c \in Seq(S) /\ Len(c) = Len(s) - 1 /\ m = Append(c, r)
        /\ \A j \in 1..Len(s) - 1 : c[j] = IF j < i THEN s[j] ELSE s[j + 1]
    BY <1>5, <1>6, <1>7
  <2> HIDE DEF c
  <2>2. QED  BY <2>1, <1>1 DEF MovedTo

(* Where the entries come from, when the one at p moves to the end.        *)
Indices(n, p) == [j \in 1..n |-> IF j = n THEN p ELSE IF j < p THEN j ELSE j + 1]

Permutes(from, n, p) ==
  /\ \A j \in 1..n : from[j] \in 1..n /\ \E k \in 1..n : from[k] = j
  /\ \A j, k \in 1..n : from[j] = from[k] => j = k
  /\ from[n] = p /\ \A j \in 1..n - 1 : from[j] = IF j < p THEN j ELSE j + 1

LEMMA IndicesPermuted ==
  ASSUME NEW n \in Nat, NEW p \in 1..n, NEW from, from = Indices(n, p)
  PROVE  Permutes(from, n, p)
<1>1. /\ from[n] = p /\ \A j \in 1..n - 1 : from[j] = IF j < p THEN j ELSE j + 1
  BY DEF Indices
<1>2. \A j \in 1..n : from[j] \in 1..n
  BY DEF Indices
<1>3. \A j, k \in 1..n : from[j] = from[k] => j = k
  BY DEF Indices
<1>4. ASSUME NEW j \in 1..n  PROVE \E k \in 1..n : from[k] = j
  <2>1. CASE j = p
    BY <2>1, <1>1
  <2>2. CASE j < p
    BY <2>2, <1>1
  <2>3. CASE j > p
    <3>1. PICK k \in 1..n - 1 : k + 1 = j
      BY <2>3
    <3>2. k \in 1..n /\ ~(k < p)
      BY <2>3, <3>1
    <3>3. QED  BY <3>1, <3>2, <1>1
  <2>4. QED  BY <2>1, <2>2, <2>3
<1>5. QED  BY <1>1, <1>2, <1>3, <1>4 DEF Permutes

-----------------------------------------------------------------------------
(* DeployFlow.                                                             *)

(* The daemon has frames of the branch to do, or is at one.                *)
Busy == job # Deploy!NoJob \/ \E f \in Deploy!Actions : waiting[f] > 0

Inv_types ==
  /\ rows \in Seq(Deploy!Row)
  /\ \A i, k \in DOMAIN rows : rows[i].id = rows[k].id => i = k
  /\ request \in [Deployers -> Deploy!Request] /\ waiting \in [Deploy!Actions -> Nat]
  /\ job \in Deploy!Job /\ app \in {"none", "old", "new"} /\ missed \in BOOLEAN

Inv_requests ==
  \A r \in Deployers :
    /\ request[r].op = "none" => request[r] = Deploy!Idle
    /\ request[r].op \in {"create", "redeploy", "stop"} => request[r].id \in Deploy!RowIds
    /\ request[r].op = "create" =>
         /\ request[r].id \notin Deploy!Ids
         /\ \A q \in Deployers : request[q].op = "create" /\ request[q].id = request[r].id => q = r

Inv_app == /\ job.pc = "live" => app = "new"
           /\ job.pc = "stopped" => app = "none"

Writes(r) == request[r].op \in {"create", "redeploy", "stop"}

Alone == \A r, q \in Deployers : Writes(r) /\ Writes(q) => r = q

Told(r) ==
  /\ request[r].handle => Busy
  /\ \A i \in DOMAIN rows : rows[i].id # request[r].id => rows[i].status \notin Deploy!Active
  /\ IF request[r].op = "stop"
     THEN \A i \in DOMAIN rows : rows[i].id = request[r].id => rows[i].handle = request[r].handle
     ELSE request[r].status = IF request[r].handle THEN "queued" ELSE "failed"

LastIsActive ==
  \A i \in DOMAIN rows : rows[i].status \in Deploy!Active => i = Len(rows) /\ rows[i].handle

Rested ==
  ~Busy => \A i \in DOMAIN rows :
    /\ rows[i].status \notin Deploy!Active
    /\ (i = Len(rows) /\ rows[i].handle) =>
         /\ rows[i].status = "live" => app # "none"
         /\ rows[i].status = "stopped" => app = "none"

Inv_truth ==
  ~missed => /\ Alone
             /\ \A r \in Deployers : Writes(r) /\ ~request[r].reported => Told(r)
             /\ LastIsActive
             /\ Rested

DeployInv == Inv_types /\ Inv_requests /\ Inv_app /\ Inv_truth

LEMMA PlaceIs ==
  ASSUME Inv_types, NEW i \in DOMAIN rows
  PROVE  Deploy!Place(rows[i].id) = i
BY DEF Inv_types, Deploy!Place

LEMMA RowIs ==
  ASSUME Inv_types, NEW i \in DOMAIN rows
  PROVE  /\ DOMAIN rows = 1..Len(rows) /\ Len(rows) \in Nat /\ i \in 1..Len(rows)
         /\ rows[i] \in Deploy!Row
<1>1. DOMAIN rows = 1..Len(rows) /\ Len(rows) \in Nat
  BY LenProperties DEF Inv_types
<1>2. QED  BY <1>1, ElementOfSeq DEF Inv_types

(* A row that is updated becomes the last one; the rows are otherwise      *)
(* those that were there, and each still has an id of its own.             *)
Replaces(p, r) ==
  /\ rows' \in Seq(Deploy!Row)
  /\ \A i, k \in DOMAIN rows' : rows'[i].id = rows'[k].id => i = k
  /\ Deploy!Ids' = Deploy!Ids
  /\ Len(rows') = Len(rows) /\ DOMAIN rows' = 1..Len(rows) /\ Len(rows) \in Nat
  /\ rows'[Len(rows)] = r
  /\ \A j \in DOMAIN rows' : j # Len(rows) => \E k \in DOMAIN rows : k # p /\ rows'[j] = rows[k]

LEMMA UpdatedRows ==
  ASSUME Inv_types, NEW p \in DOMAIN rows, NEW r \in Deploy!Row, r.id = rows[p].id,
         rows' = Deploy!Updated(r)
  PROVE  Replaces(p, r)
<1> DEFINE n == Len(rows)
<1>1. DOMAIN rows = 1..n /\ n \in Nat /\ p \in 1..n
  BY RowIs
<1>2. rows \in Seq(Deploy!Row) /\ \A i, k \in 1..n : rows[i].id = rows[k].id => i = k
  BY <1>1 DEF Inv_types
<1>3. rows' = Append(RemoveAt(rows, p), r)
  <2>1. Deploy!Place(r.id) = p
    BY PlaceIs
  <2>2. QED  BY <2>1 DEF Deploy!Updated, Deploy!RemoveAt, RemoveAt
<1>4. /\ rows' \in Seq(Deploy!Row) /\ Len(rows') = n
      /\ rows'[n] = r
      /\ \A j \in 1..n - 1 : rows'[j] = IF j < p THEN rows[j] ELSE rows[j + 1]
  <2>1. rows \in Seq(Deploy!Row)
    BY <1>2
  <2>2. MovedTo(rows', rows, p, r) /\ rows' \in Seq(Deploy!Row)
    BY <2>1, <1>3, Moved
  <2>3. QED  BY <2>2 DEF MovedTo
<1>5. DOMAIN rows' = 1..n
  BY <1>4, <1>1, LenProperties
<1>6. PICK from : from = Indices(n, p)
  OBVIOUS
<1>7. Permutes(from, n, p)
  <2>1. n \in Nat /\ p \in 1..n /\ from = Indices(n, p)
    BY <1>1, <1>6
  <2> HIDE DEF n
  <2>2. QED  BY <2>1, IndicesPermuted
<1>8. \A j \in 1..n : j # n => from[j] # p /\ rows'[j] = rows[from[j]]
  <2> SUFFICES ASSUME NEW j \in 1..n, j # n  PROVE from[j] # p /\ rows'[j] = rows[from[j]]
    OBVIOUS
  <2>1. j \in 1..n - 1 /\ n \in 1..n
    <3>1. n \in Nat
      BY <1>1
    <3> HIDE DEF n
    <3>2. QED  BY <3>1, BeforeLast
  <2>2. CASE j < p
    BY <2>1, <2>2, <1>4, <1>7 DEF Permutes
  <2>3. CASE ~(j < p)
    BY <2>1, <2>3, <1>4, <1>7 DEF Permutes
  <2>4. QED  BY <2>2, <2>3
<1>9. \A j \in 1..n : rows'[j].id = rows[from[j]].id
  <2> SUFFICES ASSUME NEW j \in 1..n  PROVE rows'[j].id = rows[from[j]].id
    OBVIOUS
  <2>1. CASE j = n
    BY <2>1, <1>4, <1>7 DEF Permutes
  <2>2. CASE j # n
    BY <2>2, <1>8
  <2>3. QED  BY <2>1, <2>2
<1>10. \A i, k \in 1..n : rows'[i].id = rows'[k].id => i = k
  <2> SUFFICES ASSUME NEW i \in 1..n, NEW k \in 1..n, rows'[i].id = rows'[k].id
               PROVE  i = k
    OBVIOUS
  <2>1. from[i] \in 1..n /\ from[k] \in 1..n /\ rows[from[i]].id = rows[from[k]].id
    BY <1>7, <1>9 DEF Permutes
  <2>2. from[i] = from[k]
    BY <2>1, <1>2
  <2>3. QED  BY <2>2, <1>7 DEF Permutes
<1>11. Deploy!Ids' = Deploy!Ids
  <2>1. Deploy!Ids = {rows[i].id : i \in 1..n} /\ Deploy!Ids' = {rows'[i].id : i \in 1..n}
    BY <1>1, <1>5 DEF Deploy!Ids
  <2>2. ASSUME NEW i \in 1..n  PROVE rows[i].id \in {rows'[j].id : j \in 1..n}
    <3>1. PICK k \in 1..n : from[k] = i
      BY <1>7 DEF Permutes
    <3>2. rows'[k].id = rows[i].id
      BY <3>1, <1>9
    <3>3. QED  BY <3>2
  <2>3. ASSUME NEW i \in 1..n  PROVE rows'[i].id \in {rows[j].id : j \in 1..n}
    BY <1>9, <1>7 DEF Permutes
  <2>4. QED  BY <2>1, <2>2, <2>3, Zenon
<1>12. \A j \in DOMAIN rows' : j # Len(rows) => \E k \in DOMAIN rows : k # p /\ rows'[j] = rows[k]
  <2> SUFFICES ASSUME NEW j \in DOMAIN rows', j # Len(rows)
               PROVE  \E k \in DOMAIN rows : k # p /\ rows'[j] = rows[k]
    OBVIOUS
  <2>1. j \in 1..n
    BY <1>5
  <2>2. from[j] \in 1..n /\ from[j] # p /\ rows'[j] = rows[from[j]]
    BY <2>1, <1>7, <1>8 DEF Permutes
  <2>3. QED  BY <2>2, <1>1
<1>13. QED  BY <1>1, <1>4, <1>5, <1>10, <1>11, <1>12 DEF Replaces

(* A row that is added is the last one.                                    *)
LEMMA AddedRow ==
  ASSUME Inv_types, NEW r \in Deploy!Row, r.id \notin Deploy!Ids, rows' = Append(rows, r)
  PROVE  /\ rows' \in Seq(Deploy!Row)
         /\ \A i, k \in DOMAIN rows' : rows'[i].id = rows'[k].id => i = k
         /\ Deploy!Ids' = Deploy!Ids \cup {r.id}
         /\ Len(rows') = Len(rows) + 1 /\ DOMAIN rows' = 1..Len(rows) + 1 /\ Len(rows) \in Nat
         /\ rows'[Len(rows) + 1] = r
         /\ \A j \in DOMAIN rows : j \in DOMAIN rows' /\ rows'[j] = rows[j] /\ j # Len(rows) + 1
         /\ \A j \in DOMAIN rows' : j # Len(rows) + 1 => j \in DOMAIN rows
<1>1. rows \in Seq(Deploy!Row) /\ Len(rows) \in Nat /\ DOMAIN rows = 1..Len(rows)
  BY LenProperties DEF Inv_types
<1>2. /\ rows' \in Seq(Deploy!Row) /\ Len(rows') = Len(rows) + 1
      /\ rows'[Len(rows) + 1] = r /\ \A j \in 1..Len(rows) : rows'[j] = rows[j]
  BY <1>1
<1>3. DOMAIN rows' = 1..Len(rows) + 1
  BY <1>1, <1>2, LenProperties
<1>4. /\ \A j \in DOMAIN rows : j \in DOMAIN rows' /\ rows'[j] = rows[j] /\ j # Len(rows) + 1
      /\ \A j \in DOMAIN rows' : j # Len(rows) + 1 => j \in DOMAIN rows
      /\ Len(rows) + 1 \in DOMAIN rows'
  BY <1>1, <1>2, <1>3
<1>5. Deploy!Ids' = Deploy!Ids \cup {r.id}
  BY <1>2, <1>4 DEF Deploy!Ids
<1>6. \A i, k \in DOMAIN rows' : rows'[i].id = rows'[k].id => i = k
  BY <1>2, <1>4 DEF Deploy!Ids, Inv_types
<1>7. QED  BY <1>1, <1>2, <1>3, <1>4, <1>5, <1>6

LEMMA DeployStarts == Deploy!Init => DeployInv
<1> SUFFICES ASSUME Deploy!Init  PROVE DeployInv
  OBVIOUS
<1>1. rows = <<>> /\ DOMAIN rows = {} /\ rows \in Seq(Deploy!Row)
  BY DEF Deploy!Init
<1>2. \A r \in Deployers : request[r] = Deploy!Idle
  BY DEF Deploy!Init
<1>3. Deploy!Idle \in Deploy!Request
  BY DEF Deploy!Idle, Deploy!Request, Deploy!Status
<1>4. Inv_types
  BY <1>1, <1>3 DEF Inv_types, Deploy!Init, Deploy!NoJob, Deploy!Job, Deploy!Actions
<1>5. \A r \in Deployers : request[r].op = "none"
  BY <1>2 DEF Deploy!Idle
<1>6. Inv_requests
  BY <1>2, <1>5 DEF Inv_requests
<1>7. Inv_app
  BY DEF Inv_app, Deploy!Init, Deploy!NoJob
<1>8. Inv_truth
  BY <1>1, <1>5 DEF Inv_truth, Alone, Writes, LastIsActive, Rested
<1>9. QED  BY <1>4, <1>6, <1>7, <1>8 DEF DeployInv

LEMMA IdleIs == Deploy!Idle \in Deploy!Request /\ Deploy!Idle.op = "none"
BY DEF Deploy!Idle, Deploy!Request, Deploy!Status

(* A request has begun: what holds of the one that is prepared.            *)
Prepares(r, op, id, status, handle) ==
  /\ Deploy!Prepared(r, op, id, status, handle)
  /\ rows' = rows /\ job' = job /\ app' = app
  /\ waiting' \in [Deploy!Actions -> Nat] /\ \A f \in Deploy!Actions : waiting'[f] >= waiting[f]
  /\ missed' \in BOOLEAN /\ (missed => missed')
  /\ op # "disconnect" =>
       /\ id \in Deploy!RowIds
       /\ ~missed' => \A q \in Deployers : request[q] = Deploy!Idle
       /\ ~missed' => \A i \in DOMAIN rows : rows[i].id # id => rows[i].status \notin Deploy!Active
       /\ handle => Busy'
       /\ IF op = "stop"
          THEN \A i \in DOMAIN rows : rows[i].id = id => rows[i].handle = handle
          ELSE status = IF handle THEN "queued" ELSE "failed"
  /\ op = "create" => id \notin Deploy!Ids /\ \A q \in Deployers : request[q].id # id

LEMMA RequestBegins ==
  ASSUME DeployInv, NEW r \in Deployers, NEW op \in {"create", "redeploy", "stop", "disconnect"},
         NEW id \in {0} \cup Deploy!RowIds, NEW status \in Deploy!Status, NEW handle \in BOOLEAN,
         Prepares(r, op, id, status, handle)
  PROVE  DeployInv'
<1> DEFINE new == [op |-> op, id |-> id, status |-> status, handle |-> handle, reported |-> FALSE]
<1>1. new \in Deploy!Request
  BY DEF Deploy!Request
<1>2. request' = [request EXCEPT ![r] = new]
  BY DEF Prepares, Deploy!Prepared
<1>3. new.op = op /\ new.id = id /\ new.status = status /\ new.handle = handle
  OBVIOUS
<1> HIDE DEF new
<1>4. request' \in [Deployers -> Deploy!Request] /\ request'[r] = new
      /\ \A q \in Deployers : q # r => request'[q] = request[q]
  BY <1>1, <1>2 DEF DeployInv, Inv_types
<1>5. UNCHANGED <<rows, job, app>> /\ Deploy!Ids' = Deploy!Ids /\ (Busy => Busy')
  <2>1. UNCHANGED <<rows, job, app>>
    BY DEF Prepares
  <2>2. ASSUME NEW f \in Deploy!Actions, waiting[f] > 0  PROVE waiting'[f] > 0
    BY <2>2 DEF Prepares, DeployInv, Inv_types
  <2>3. QED  BY <2>1, <2>2 DEF Deploy!Ids, Busy
<1>6. Inv_types'
  BY <1>4, <1>5 DEF DeployInv, Inv_types, Prepares
<1>7. Inv_requests'
  <2>1. ASSUME NEW q \in Deployers
        PROVE  /\ request'[q].op = "none" => request'[q] = Deploy!Idle
               /\ request'[q].op \in {"create", "redeploy", "stop"} => request'[q].id \in Deploy!RowIds
               /\ request'[q].op = "create" => request'[q].id \notin Deploy!Ids
    <3>1. CASE q = r
      BY <3>1, <1>3, <1>4 DEF Prepares
    <3>2. CASE q # r
      BY <3>2, <1>4 DEF DeployInv, Inv_requests
    <3>3. QED  BY <3>1, <3>2
  <2>2. ASSUME NEW q \in Deployers, NEW p \in Deployers, request'[q].op = "create",
               request'[p].op = "create", request'[p].id = request'[q].id
        PROVE  p = q
    <3>1. CASE p # r /\ q # r
      BY <2>2, <3>1, <1>4 DEF DeployInv, Inv_requests
    <3>2. CASE p = r /\ q # r
      BY <2>2, <3>2, <1>3, <1>4 DEF Prepares
    <3>3. CASE p # r /\ q = r
      BY <2>2, <3>3, <1>3, <1>4 DEF Prepares
    <3>4. QED  BY <3>1, <3>2, <3>3
  <2>3. QED  BY <2>1, <2>2, <1>5 DEF Inv_requests
<1>8. Inv_app'
  BY <1>5 DEF DeployInv, Inv_app
<1>9. ASSUME ~missed'  PROVE Alone'
  <2>1. CASE op = "disconnect"
    BY <2>1, <1>9, <1>3, <1>4 DEF Prepares, DeployInv, Inv_truth, Alone, Writes
  <2>2. CASE op # "disconnect"
    BY <2>2, <1>9, <1>4, IdleIs DEF Prepares, Alone, Writes
  <2>3. QED  BY <2>1, <2>2
<1>10. ASSUME ~missed', NEW q \in Deployers, Writes(q)', ~request'[q].reported  PROVE Told(q)'
  <2>1. CASE q = r
    <3>1. op # "disconnect"
      BY <1>10, <2>1, <1>3, <1>4 DEF Writes
    <3>2. QED  BY <3>1, <2>1, <1>10, <1>3, <1>4, <1>5 DEF Prepares, Told
  <2>2. CASE q # r
    <3>1. request'[q] = request[q] /\ Writes(q) /\ ~request[q].reported /\ ~missed
      BY <2>2, <1>4, <1>10 DEF Prepares, Writes
    <3>2. Told(q)
      BY <3>1 DEF DeployInv, Inv_truth
    <3>3. QED  BY <3>1, <3>2, <1>5 DEF Told
  <2>3. QED  BY <2>1, <2>2
<1>11. ASSUME ~missed'  PROVE LastIsActive' /\ Rested'
  BY <1>11, <1>5 DEF Prepares, DeployInv, Inv_truth, LastIsActive, Rested
<1>12. Inv_truth'
  BY <1>9, <1>10, <1>11 DEF Inv_truth
<1>13. QED  BY <1>6, <1>7, <1>8, <1>12 DEF DeployInv

(* create_deployment and redeploy, once the id is known.                   *)
LEMMA DeploysPrepares ==
  ASSUME DeployInv, NEW r \in Deployers, NEW op \in {"create", "redeploy"}, NEW id \in Deploy!RowIds,
         Deploy!Begins(r), Deploy!Deploys(r, op, id), UNCHANGED <<rows, job, app>>,
         op = "create" => id \notin Deploy!Ids /\ \A q \in Deployers : request[q].id # id
  PROVE  DeployInv'
<1>1. missed' \in BOOLEAN /\ (missed => missed')
  BY DEF Deploy!Deploys, DeployInv, Inv_types
<1>2. ASSUME ~missed'
      PROVE  /\ \A q \in Deployers : request[q] = Deploy!Idle
             /\ \A i \in DOMAIN rows : rows[i].id # id => rows[i].status \notin Deploy!Active
  BY <1>2 DEF Deploy!Deploys, Deploy!Overlaps
<1>3. CASE Deploy!Prepared(r, op, id, "queued", TRUE) /\ Deploy!Sent("deploy", 1)
  <2>1. /\ waiting' \in [Deploy!Actions -> Nat] /\ waiting'["deploy"] > 0
        /\ \A f \in Deploy!Actions : waiting'[f] >= waiting[f]
    <3>1. waiting \in [Deploy!Actions -> Nat] /\ "deploy" \in Deploy!Actions
          /\ waiting' = [waiting EXCEPT !["deploy"] = @ + 1]
      BY <1>3 DEF DeployInv, Inv_types, Deploy!Sent, Deploy!Actions
    <3>2. waiting["deploy"] \in Nat
      BY <3>1
    <3>3. waiting'["deploy"] = waiting["deploy"] + 1
          /\ \A f \in Deploy!Actions : f # "deploy" => waiting'[f] = waiting[f]
      BY <3>1
    <3>4. waiting' \in [Deploy!Actions -> Nat]
      BY <3>1, <3>2
    <3>5. QED  BY <3>1, <3>2, <3>3, <3>4
  <2>2. Busy'
    BY <2>1 DEF Busy, Deploy!Actions
  <2>3. Prepares(r, op, id, "queued", TRUE)
    BY <1>1, <1>2, <1>3, <2>1, <2>2 DEF Prepares
  <2>4. "queued" \in Deploy!Status
    BY DEF Deploy!Status
  <2>5. QED  BY <2>3, <2>4, RequestBegins
<1>4. CASE Deploy!Prepared(r, op, id, "failed", FALSE) /\ UNCHANGED waiting
  <2>1. waiting' \in [Deploy!Actions -> Nat] /\ \A f \in Deploy!Actions : waiting'[f] >= waiting[f]
    BY <1>4 DEF DeployInv, Inv_types
  <2>2. Prepares(r, op, id, "failed", FALSE)
    BY <1>1, <1>2, <1>4, <2>1 DEF Prepares
  <2>3. "failed" \in Deploy!Status
    BY DEF Deploy!Status
  <2>4. QED  BY <2>2, <2>3, RequestBegins
<1>5. QED  BY <1>3, <1>4 DEF Deploy!Deploys

LEMMA CreateKeeps ==
  ASSUME DeployInv, NEW r \in Deployers, Deploy!Create(r)  PROVE DeployInv'
<1>1. /\ Deploy!NewId \in Deploy!RowIds /\ Deploy!NewId \notin Deploy!Ids
      /\ \A q \in Deployers : request[q].id # Deploy!NewId
  BY DEF Deploy!Create, Deploy!Room, Deploy!NewId
<1>2. Deploy!Begins(r) /\ Deploy!Deploys(r, "create", Deploy!NewId) /\ UNCHANGED <<rows, job, app>>
  BY DEF Deploy!Create
<1>3. PICK id : id = Deploy!NewId
  OBVIOUS
<1>4. QED  BY <1>1, <1>2, <1>3, DeploysPrepares

LEMMA RedeployKeeps ==
  ASSUME DeployInv, NEW r \in Deployers, NEW id \in Deploy!RowIds, Deploy!Redeploy(r, id)
  PROVE  DeployInv'
BY DeploysPrepares DEF Deploy!Redeploy

LEMMA RowOfIs ==
  ASSUME Inv_types, NEW id \in Deploy!Ids
  PROVE  /\ Deploy!RowOf(id) \in Deploy!Row /\ Deploy!RowOf(id).id = id
         /\ Deploy!Place(id) \in DOMAIN rows /\ Deploy!RowOf(id) = rows[Deploy!Place(id)]
<1>1. PICK i \in DOMAIN rows : rows[i].id = id
  BY DEF Deploy!Ids
<1>2. Deploy!Place(id) = i
  BY <1>1, PlaceIs
<1>3. QED  BY <1>1, <1>2, RowIs DEF Deploy!RowOf

LEMMA StopKeeps ==
  ASSUME DeployInv, NEW r \in Deployers, NEW id \in Deploy!RowIds, Deploy!Stop(r, id)
  PROVE  DeployInv'
<1>1. id \in Deploy!Ids /\ Inv_types
  BY DEF Deploy!Stop, DeployInv
<1>2. PICK handle \in BOOLEAN : handle = Deploy!RowOf(id).handle
  BY <1>1, RowOfIs DEF Deploy!Row
<1>3. \A i \in DOMAIN rows : rows[i].id = id => rows[i].handle = handle
  BY <1>1, <1>2, PlaceIs DEF Deploy!RowOf
<1>4. missed' \in BOOLEAN /\ (missed => missed')
  BY DEF Deploy!Stop, DeployInv, Inv_types
<1>5. ASSUME ~missed'
      PROVE  /\ \A q \in Deployers : request[q] = Deploy!Idle
             /\ \A i \in DOMAIN rows : rows[i].id # id => rows[i].status \notin Deploy!Active
  BY <1>5 DEF Deploy!Stop, Deploy!Overlaps
<1>6. PICK n \in {0, 1} : n = IF handle THEN 1 ELSE 0
  BY <1>2
<1>7. waiting' = [waiting EXCEPT !["teardown"] = @ + n]
  BY <1>2, <1>6 DEF Deploy!Stop, Deploy!Sent
<1>8. /\ waiting' \in [Deploy!Actions -> Nat] /\ (handle => waiting'["teardown"] > 0)
      /\ \A f \in Deploy!Actions : waiting'[f] >= waiting[f]
  <2>1. waiting \in [Deploy!Actions -> Nat] /\ "teardown" \in Deploy!Actions
    BY DEF DeployInv, Inv_types, Deploy!Actions
  <2>2. waiting["teardown"] \in Nat /\ n \in Nat
    BY <2>1
  <2>3. waiting'["teardown"] = waiting["teardown"] + n
        /\ \A f \in Deploy!Actions : f # "teardown" => waiting'[f] = waiting[f]
    BY <2>1, <1>7
  <2>4. waiting' \in [Deploy!Actions -> Nat]
    BY <2>1, <2>2, <1>7
  <2>5. QED  BY <1>6, <2>1, <2>2, <2>3, <2>4
<1>9. handle => Busy'
  BY <1>8 DEF Busy, Deploy!Actions
<1>10. Prepares(r, "stop", id, "stopped", handle)
  BY <1>2, <1>3, <1>4, <1>5, <1>8, <1>9 DEF Prepares, Deploy!Stop
<1>11. "stopped" \in Deploy!Status
  BY DEF Deploy!Status
<1>12. QED  BY <1>10, <1>11, RequestBegins

LEMMA DisconnectKeeps ==
  ASSUME DeployInv, NEW r \in Deployers, Deploy!Disconnect(r)  PROVE DeployInv'
<1> DEFINE held == {i \in DOMAIN rows : rows[i].handle}
<1>1. PICK n \in Nat : n = Cardinality(held)
  <2>1. DOMAIN rows = 1..Len(rows) /\ Len(rows) \in Nat
    BY LenProperties DEF DeployInv, Inv_types
  <2>2. IsFiniteSet(DOMAIN rows)
    BY <2>1, FS_Interval
  <2>3. IsFiniteSet(held)
    BY <2>2, FS_Subset
  <2>4. QED  BY <2>3, FS_CardinalityType
<1>2. waiting' = [waiting EXCEPT !["teardown"] = @ + n]
  <2>1. Deploy!Cardinality(held) = Cardinality(held)
    BY DEF Deploy!Cardinality, Cardinality, Deploy!IsFiniteSet, IsFiniteSet
  <2>2. QED  BY <1>1, <2>1 DEF Deploy!Disconnect, Deploy!Sent
<1> HIDE DEF held
<1>3. /\ waiting' \in [Deploy!Actions -> Nat]
      /\ \A f \in Deploy!Actions : waiting'[f] >= waiting[f]
  <2>1. waiting \in [Deploy!Actions -> Nat] /\ "teardown" \in Deploy!Actions
    BY DEF DeployInv, Inv_types, Deploy!Actions
  <2>2. waiting["teardown"] \in Nat
    BY <2>1
  <2>3. waiting'["teardown"] = waiting["teardown"] + n
        /\ \A f \in Deploy!Actions : f # "teardown" => waiting'[f] = waiting[f]
    BY <2>1, <1>2
  <2>4. waiting' \in [Deploy!Actions -> Nat]
    BY <2>1, <2>2, <1>2
  <2>5. QED  BY <2>1, <2>2, <2>3, <2>4
<1>4. Prepares(r, "disconnect", 0, "stopped", FALSE)
  BY <1>3 DEF Prepares, Deploy!Disconnect, DeployInv, Inv_types
<1>5. "stopped" \in Deploy!Status
  BY DEF Deploy!Status
<1>6. QED  BY <1>4, <1>5, RequestBegins

(* What a commit does to the rows.                                         *)
Committed(q) ==
  \/ q.op = "create" /\ rows' = Append(rows, [id |-> q.id, status |-> q.status, handle |-> q.handle])
  \/ q.op = "disconnect" /\ rows' = <<>>
  \/ q.op \in {"redeploy", "stop"} /\ q.id \notin Deploy!Ids /\ rows' = rows
  \/ /\ q.op \in {"redeploy", "stop"} /\ q.id \in Deploy!Ids
     /\ rows' = Deploy!Updated(
          IF q.op = "stop" THEN [Deploy!RowOf(q.id) EXCEPT !.status = "stopped"]
          ELSE [id |-> q.id, status |-> q.status, handle |-> q.handle])

LEMMA CommitKeeps ==
  ASSUME DeployInv, NEW r \in Deployers, Deploy!Commit(r)  PROVE DeployInv'
<1>1. PICK q \in Deploy!Request : q = request[r]
  BY DEF DeployInv, Inv_types
<1> DEFINE entry == [id |-> q.id, status |-> q.status, handle |-> q.handle]
<1>2. q.op \in {"create", "redeploy", "stop", "disconnect"}
  BY <1>1 DEF Deploy!Commit, DeployInv, Inv_requests, Deploy!Request
<1>3. q.op # "disconnect" => q.id \in Deploy!RowIds /\ entry \in Deploy!Row /\ entry.id = q.id
  BY <1>1, <1>2 DEF DeployInv, Inv_requests, Deploy!Request, Deploy!Row
<1>4. Committed(q)
  <2>1. rows' = CASE q.op = "create" -> Append(rows, entry)
                  [] q.op = "disconnect" -> <<>>
                  [] OTHER ->
                       IF q.id \notin Deploy!Ids THEN rows
                       ELSE Deploy!Updated(
                              IF q.op = "stop"
                              THEN [Deploy!RowOf(q.id) EXCEPT !.status = "stopped"] ELSE entry)
    BY <1>1, Zenon DEF Deploy!Commit
  <2>2. CASE q.op = "create"
    <3>1. rows' = Append(rows, entry)
      BY <2>1, <2>2, Zenon
    <3>2. QED  BY <3>1, <2>2 DEF Committed
  <2>3. CASE q.op = "disconnect"
    <3>1. rows' = <<>>
      BY <2>1, <2>3
    <3>2. QED  BY <3>1, <2>3 DEF Committed
  <2>4. CASE q.op \in {"redeploy", "stop"} /\ q.id \notin Deploy!Ids
    <3>1. rows' = rows
      BY <2>1, <2>4
    <3>2. QED  BY <3>1, <2>4 DEF Committed
  <2>5. CASE q.op \in {"redeploy", "stop"} /\ q.id \in Deploy!Ids
    BY <2>1, <2>5 DEF Committed
  <2>6. QED  BY <1>2, <2>2, <2>3, <2>4, <2>5
<1>5. /\ request' = [request EXCEPT ![r] = Deploy!Idle]
      /\ UNCHANGED <<waiting, job, app>> /\ missed' = (missed \/ q.reported)
  BY <1>1 DEF Deploy!Commit
<1>6. /\ request' \in [Deployers -> Deploy!Request] /\ request'[r] = Deploy!Idle
      /\ \A p \in Deployers : p # r => request'[p] = request[p]
  BY <1>5, IdleIs DEF DeployInv, Inv_types
<1>7. Inv_types /\ rows \in Seq(Deploy!Row) /\ (Busy' = Busy)
  BY <1>5 DEF DeployInv, Inv_types, Busy
<1>8. ASSUME NEW s \in Deployers, request'[s].op # "none"  PROVE s # r /\ request'[s] = request[s]
  BY <1>8, <1>6, IdleIs
<1>9. ASSUME NEW i \in DOMAIN rows  PROVE rows[i].id \in Deploy!Ids
  BY DEF Deploy!Ids
(* Once the new rows are known, all but the truth of them follows.         *)
<1>10. ASSUME /\ rows' \in Seq(Deploy!Row)
              /\ \A i, k \in DOMAIN rows' : rows'[i].id = rows'[k].id => i = k
              /\ Deploy!Ids' \subseteq Deploy!Ids \cup (IF q.op = "create" THEN {q.id} ELSE {})
       PROVE  Inv_types' /\ Inv_requests' /\ Inv_app'
  <2>1. Inv_types'
    <3>1. missed' \in BOOLEAN
      BY <1>5, <1>1 DEF DeployInv, Inv_types, Deploy!Request
    <3>2. QED  BY <3>1, <1>10, <1>6, <1>5, <1>7 DEF Inv_types
  <2>2. ASSUME NEW p \in Deployers
        PROVE  /\ request'[p].op = "none" => request'[p] = Deploy!Idle
               /\ request'[p].op \in {"create", "redeploy", "stop"} => request'[p].id \in Deploy!RowIds
               /\ request'[p].op = "create" => request'[p].id \notin Deploy!Ids'
    <3>1. CASE p = r
      BY <3>1, <1>6, IdleIs
    <3>2. CASE p # r
      <4>1. request'[p] = request[p]
        BY <3>2, <1>6
      <4>2. request[p].op = "create" => request[p].id \notin Deploy!Ids
              /\ (q.op = "create" => request[p].id # q.id)
        BY <3>2, <1>1 DEF DeployInv, Inv_requests
      <4>3. QED  BY <4>1, <4>2, <1>10 DEF DeployInv, Inv_requests
    <3>3. QED  BY <3>1, <3>2
  <2>3. ASSUME NEW p \in Deployers, NEW s \in Deployers, request'[p].op = "create",
               request'[s].op = "create", request'[s].id = request'[p].id
        PROVE  s = p
    BY <2>3, <1>8 DEF DeployInv, Inv_requests
  <2>4. QED  BY <2>1, <2>2, <2>3, <1>5 DEF Inv_requests, DeployInv, Inv_app
(* The requests that are left, where no row is in flight but the last.     *)
<1>11. ASSUME ~missed', \A i \in DOMAIN rows' : rows'[i].status \in Deploy!Active =>
                          i = Len(rows') /\ rows'[i].handle,
              Rested',
              q.op = "disconnect" => rows' = <<>>
       PROVE  Inv_truth'
  <2>1. ~missed /\ ~q.reported
    BY <1>11, <1>5, <1>1 DEF DeployInv, Inv_types, Deploy!Request
  <2>2. Alone'
    BY <2>1, <1>8 DEF DeployInv, Inv_truth, Alone, Writes
  <2>3. ASSUME NEW p \in Deployers, Writes(p)', ~request'[p].reported  PROVE Told(p)'
    <3>1. p # r /\ request'[p] = request[p] /\ Writes(p)
      BY <2>3, <1>8 DEF Writes
    <3>2. q.op = "disconnect"
      BY <3>1, <2>1, <1>1, <1>2 DEF DeployInv, Inv_truth, Alone, Writes
    <3>3. DOMAIN rows' = {}
      BY <3>2, <1>11
    <3>4. Told(p)
      BY <3>1, <2>1, <2>3 DEF DeployInv, Inv_truth
    <3>5. QED  BY <3>1, <3>3, <3>4, <1>7 DEF Told
  <2>4. QED  BY <2>2, <2>3, <1>11 DEF Inv_truth, LastIsActive
<1>12. ASSUME ~missed', q.op # "disconnect"
       PROVE  /\ q.handle => Busy
              /\ \A i \in DOMAIN rows : rows[i].id # q.id => rows[i].status \notin Deploy!Active
              /\ IF q.op = "stop"
                 THEN \A i \in DOMAIN rows : rows[i].id = q.id => rows[i].handle = q.handle
                 ELSE q.status = IF q.handle THEN "queued" ELSE "failed"
              /\ LastIsActive /\ Rested
  <2>1. ~missed /\ ~request[r].reported /\ Writes(r)
    BY <1>12, <1>5, <1>1, <1>2 DEF DeployInv, Inv_types, Deploy!Request, Writes
  <2>2. Told(r) /\ LastIsActive /\ Rested
    BY <2>1 DEF DeployInv, Inv_truth
  <2>3. QED  BY <2>2, <1>1 DEF Told
<1>13. CASE q.op = "create"
  <2>1. rows' = Append(rows, entry)
    BY <1>13, <1>4 DEF Committed
  <2>2. entry \in Deploy!Row /\ entry.id = q.id /\ entry.status = q.status /\ entry.handle = q.handle
        /\ entry.id \notin Deploy!Ids
    BY <1>13, <1>3, <1>1 DEF DeployInv, Inv_requests
  <2> HIDE DEF entry
  <2>3. /\ rows' \in Seq(Deploy!Row)
        /\ \A i, k \in DOMAIN rows' : rows'[i].id = rows'[k].id => i = k
        /\ Deploy!Ids' = Deploy!Ids \cup {entry.id}
        /\ Len(rows') = Len(rows) + 1 /\ DOMAIN rows' = 1..Len(rows) + 1 /\ Len(rows) \in Nat
        /\ rows'[Len(rows) + 1] = entry
        /\ \A j \in DOMAIN rows' : j # Len(rows) + 1 => j \in DOMAIN rows
        /\ \A j \in DOMAIN rows : j \in DOMAIN rows' /\ rows'[j] = rows[j] /\ j # Len(rows) + 1
    BY <2>1, <2>2, <1>7, AddedRow
  <2>4. Inv_types' /\ Inv_requests' /\ Inv_app'
    BY <2>2, <2>3, <1>10, <1>13
  <2>5. ASSUME ~missed'  PROVE Inv_truth'
    <3>1. \A j \in DOMAIN rows' : j # Len(rows') => rows'[j].status \notin Deploy!Active
      <4> SUFFICES ASSUME NEW j \in DOMAIN rows', j # Len(rows')
                   PROVE  rows'[j].status \notin Deploy!Active
        OBVIOUS
      <4>1. j \in DOMAIN rows /\ rows'[j] = rows[j]
        BY <2>3
      <4>2. rows[j].id # q.id
        BY <4>1, <1>9, <2>2
      <4>3. QED  BY <4>1, <4>2, <1>12, <2>5, <1>13
    <3>2. rows'[Len(rows')] = entry /\ entry.status = IF entry.handle THEN "queued" ELSE "failed"
      BY <2>2, <2>3, <1>12, <2>5, <1>13
    <3>3. entry.handle => Busy'
      BY <2>2, <1>12, <2>5, <1>13, <1>7
    <3>4. entry.handle \in BOOLEAN /\ "failed" \notin Deploy!Active /\ "queued" # "failed"
      BY <2>2 DEF Deploy!Row, Deploy!Active
    <3>5. \A i \in DOMAIN rows' : rows'[i].status \in Deploy!Active => i = Len(rows') /\ rows'[i].handle
      BY <3>1, <3>2, <3>4
    <3>6. Rested'
      BY <3>1, <3>2, <3>3, <3>4 DEF Rested
    <3>7. QED  BY <3>5, <3>6, <1>11, <1>13, <2>5
  <2>6. QED  BY <2>4, <2>5 DEF DeployInv, Inv_truth
<1>14. CASE q.op = "disconnect"
  <2>1. rows' = <<>> /\ DOMAIN rows' = {} /\ rows' \in Seq(Deploy!Row) /\ Deploy!Ids' = {}
    BY <1>14, <1>4 DEF Committed, Deploy!Ids
  <2>2. Inv_types' /\ Inv_requests' /\ Inv_app'
    BY <2>1, <1>10
  <2>3. ASSUME ~missed'  PROVE Inv_truth'
    BY <2>1, <2>3, <1>11 DEF Rested
  <2>4. QED  BY <2>2, <2>3 DEF DeployInv, Inv_truth
<1>15. CASE q.op \in {"redeploy", "stop"} /\ q.id \notin Deploy!Ids
  <2>1. rows' = rows /\ Deploy!Ids' = Deploy!Ids
    BY <1>15, <1>4 DEF Committed, Deploy!Ids
  <2>2. Inv_types' /\ Inv_requests' /\ Inv_app'
    BY <2>1, <1>10, <1>7 DEF Inv_types
  <2>3. ASSUME ~missed'  PROVE Inv_truth'
    <3>1. LastIsActive /\ Rested
      BY <2>3, <1>12, <1>15
    <3>2. QED  BY <3>1, <2>1, <2>3, <1>5, <1>7, <1>11, <1>15 DEF LastIsActive, Rested
  <2>4. QED  BY <2>2, <2>3 DEF DeployInv, Inv_truth
<1>16. CASE q.op \in {"redeploy", "stop"} /\ q.id \in Deploy!Ids
  <2>1. PICK p \in DOMAIN rows : rows[p].id = q.id /\ Deploy!RowOf(q.id) = rows[p]
    BY <1>16, <1>7, RowOfIs
  <2>2. PICK u \in Deploy!Row :
          /\ u = IF q.op = "stop" THEN [rows[p] EXCEPT !.status = "stopped"] ELSE entry
          /\ u.id = rows[p].id
          /\ q.op = "stop" => u.status = "stopped" /\ u.handle = rows[p].handle
          /\ q.op = "redeploy" => u.status = q.status /\ u.handle = q.handle
    <3>1. CASE q.op = "stop"
      <4>1. rows[p] \in Deploy!Row
        BY <1>7, RowIs
      <4>2. "stopped" \in Deploy!Status
        BY DEF Deploy!Status
      <4>3. PICK v : v = [rows[p] EXCEPT !.status = "stopped"]
        OBVIOUS
      <4>4. v \in Deploy!Row /\ v.id = rows[p].id /\ v.status = "stopped" /\ v.handle = rows[p].handle
        BY <4>1, <4>2, <4>3 DEF Deploy!Row
      <4>5. QED  BY <3>1, <4>3, <4>4
    <3>2. CASE q.op = "redeploy"
      BY <3>2, <1>3, <2>1
    <3>3. QED  BY <3>1, <3>2, <1>16
  <2>3. rows' = Deploy!Updated(u)
    BY <1>4, <1>16, <2>1, <2>2 DEF Committed
  <2>4. /\ rows' \in Seq(Deploy!Row)
        /\ \A i, k \in DOMAIN rows' : rows'[i].id = rows'[k].id => i = k
        /\ Deploy!Ids' = Deploy!Ids
        /\ Len(rows') = Len(rows) /\ rows'[Len(rows)] = u
        /\ \A j \in DOMAIN rows' : j # Len(rows) => \E k \in DOMAIN rows : k # p /\ rows'[j] = rows[k]
    <3>1. u.id = rows[p].id
      BY <2>2
    <3>2. Replaces(p, u)
      BY <3>1, <2>3, <1>7, UpdatedRows
    <3>3. QED  BY <3>2 DEF Replaces
  <2>5. Inv_types' /\ Inv_requests' /\ Inv_app'
    BY <2>4, <1>10
  <2>6. ASSUME ~missed'  PROVE Inv_truth'
    <3>1. \A j \in DOMAIN rows' : j # Len(rows') => rows'[j].status \notin Deploy!Active
      <4> SUFFICES ASSUME NEW j \in DOMAIN rows', j # Len(rows')
                   PROVE  rows'[j].status \notin Deploy!Active
        OBVIOUS
      <4>1. PICK k \in DOMAIN rows : k # p /\ rows'[j] = rows[k]
        BY <2>4
      <4>2. rows[k].id # q.id
        BY <4>1, <2>1, <1>7 DEF Inv_types
      <4>3. QED  BY <4>1, <4>2, <1>12, <2>6, <1>16
    <3>2. rows'[Len(rows')] = u
      BY <2>4
    <3>3. /\ u.handle => Busy'
          /\ IF q.op = "stop" THEN u.status = "stopped"
             ELSE u.status = IF u.handle THEN "queued" ELSE "failed"
      <4>1. CASE q.op = "stop"
        BY <4>1, <2>1, <2>2, <1>12, <2>6, <1>7
      <4>2. CASE q.op = "redeploy"
        BY <4>2, <2>2, <1>12, <2>6, <1>7
      <4>3. QED  BY <4>1, <4>2, <1>16
    <3>4. u.handle \in BOOLEAN /\ "failed" \notin Deploy!Active /\ "stopped" \notin Deploy!Active
      BY DEF Deploy!Row, Deploy!Active
    <3>5. \A i \in DOMAIN rows' : rows'[i].status \in Deploy!Active => i = Len(rows') /\ rows'[i].handle
      BY <3>1, <3>2, <3>3, <3>4
    <3>6. Rested'
      <4> SUFFICES ASSUME ~Busy', NEW i \in DOMAIN rows'
                   PROVE  /\ rows'[i].status \notin Deploy!Active
                          /\ ~(i = Len(rows') /\ rows'[i].handle)
        BY DEF Rested
      <4>1. ~u.handle
        BY <3>3
      <4>2. QED  BY <4>1, <3>1, <3>2, <3>3, <3>4
    <3>7. QED  BY <3>5, <3>6, <1>11, <1>16, <2>6
  <2>7. QED  BY <2>5, <2>6 DEF DeployInv, Inv_truth
<1>17. QED  BY <1>2, <1>13, <1>14, <1>15, <1>16

(* What the daemon does without a report changes neither rows nor requests.*)
LEMMA QuietKeeps ==
  ASSUME DeployInv, UNCHANGED <<rows, request>>,
         waiting' \in [Deploy!Actions -> Nat], job' \in Deploy!Job, app' \in {"none", "old", "new"},
         missed' \in BOOLEAN, missed => missed', Inv_app',
         ~missed' => (Busy => Busy') /\ (~Busy' => app' = app)
  PROVE  DeployInv'
<1>1. Inv_types' /\ Inv_requests'
  BY DEF DeployInv, Inv_types, Inv_requests, Deploy!Ids
<1>2. ASSUME ~missed'  PROVE Inv_truth'
  <2>1. Alone /\ LastIsActive /\ Rested /\ ~missed
        /\ \A r \in Deployers : Writes(r) /\ ~request[r].reported => Told(r)
    BY <1>2 DEF DeployInv, Inv_truth
  <2>2. Alone' /\ LastIsActive'
    BY <2>1 DEF Alone, Writes, LastIsActive
  <2>3. Rested'
    BY <2>1, <1>2 DEF Rested
  <2>4. ASSUME NEW r \in Deployers, Writes(r)', ~request'[r].reported  PROVE Told(r)'
    <3>1. Told(r)
      BY <2>1, <2>4 DEF Writes
    <3>2. QED  BY <3>1, <1>2 DEF Told
  <2>5. QED  BY <2>2, <2>3, <2>4 DEF Inv_truth
<1>3. QED  BY <1>1, <1>2 DEF DeployInv, Inv_truth

LEMMA LocksKeeps ==
  ASSUME DeployInv, NEW f \in Deploy!Actions, Deploy!Locks(f)  PROVE DeployInv'
<1>1. waiting \in [Deploy!Actions -> Nat] /\ waiting[f] > 0
      /\ waiting' = [waiting EXCEPT ![f] = @ - 1]
  BY DEF DeployInv, Inv_types, Deploy!Locks
<1>2. waiting' \in [Deploy!Actions -> Nat]
  <2>1. waiting[f] - 1 \in Nat
    BY <1>1
  <2>2. QED  BY <1>1, <2>1
<1>3. job' = [action |-> f, pc |-> "begin"] /\ UNCHANGED <<rows, request, app, missed>>
  BY DEF Deploy!Locks, Deploy!Job1
<1>4. job' \in Deploy!Job /\ job' # Deploy!NoJob /\ Inv_app'
  <2>1. job'.pc = "begin" /\ f # "none" /\ job'.action = f
    BY <1>3 DEF Deploy!Actions
  <2>2. QED  BY <1>3, <2>1 DEF Deploy!Job, Deploy!NoJob, Inv_app
<1>5. Busy'
  BY <1>4 DEF Busy
<1>6. QED  BY <1>2, <1>3, <1>4, <1>5, QuietKeeps DEF DeployInv, Inv_types

LEMMA BuildEndsKeeps ==
  ASSUME DeployInv, Deploy!BuildEnds  PROVE DeployInv'
<1>1. UNCHANGED <<rows, request, waiting, missed>>
  BY DEF Deploy!BuildEnds
<1>2. PICK pc \in {"build", "live", "failed"} :
        job' = [action |-> "deploy", pc |-> pc] /\ app' \in {"none", "old", "new"}
        /\ (pc = "live" => app' = "new")
  BY DEF Deploy!BuildEnds, Deploy!Job1, DeployInv, Inv_types
<1>3. job' \in Deploy!Job /\ job' # Deploy!NoJob /\ Inv_app'
  <2>1. job'.pc = pc /\ job'.action = "deploy"
    BY <1>2
  <2>2. QED  BY <1>2, <2>1 DEF Deploy!Job, Deploy!NoJob, Deploy!Actions, Inv_app
<1>4. Busy'
  BY <1>3 DEF Busy
<1>5. QED  BY <1>1, <1>2, <1>3, <1>4, QuietKeeps DEF DeployInv, Inv_types

LEMMA TeardownKeeps ==
  ASSUME DeployInv, Deploy!Teardown  PROVE DeployInv'
<1>1. UNCHANGED <<rows, request, waiting, missed>> /\ app' = "none"
      /\ job' = [action |-> "teardown", pc |-> "stopped"]
  BY DEF Deploy!Teardown, Deploy!Job1
<1>2. job' \in Deploy!Job /\ job' # Deploy!NoJob /\ Inv_app'
  <2>1. job'.pc = "stopped" /\ job'.action = "teardown"
    BY <1>1
  <2>2. QED  BY <1>1, <2>1 DEF Deploy!Job, Deploy!NoJob, Deploy!Actions, Inv_app
<1>3. Busy'
  BY <1>2 DEF Busy
<1>4. QED  BY <1>1, <1>2, <1>3, QuietKeeps DEF DeployInv, Inv_types

LEMMA HangsKeeps ==
  ASSUME DeployInv, Deploy!Hangs  PROVE DeployInv'
<1>1. UNCHANGED <<rows, request, waiting, app, missed>> /\ job' = Deploy!Hung
  BY DEF Deploy!Hangs
<1>2. job' \in Deploy!Job /\ job' # Deploy!NoJob /\ Inv_app'
  <2>1. job'.pc = "idle" /\ job'.action = "deploy"
    BY <1>1 DEF Deploy!Hung
  <2>2. QED  BY <1>1, <2>1 DEF Deploy!Hung, Deploy!Job, Deploy!NoJob, Deploy!Actions, Inv_app
<1>3. Busy'
  BY <1>2 DEF Busy
<1>4. QED  BY <1>1, <1>2, <1>3, QuietKeeps DEF DeployInv, Inv_types

LEMMA DaemonRestartsKeeps ==
  ASSUME DeployInv, Deploy!DaemonRestarts  PROVE DeployInv'
<1>1. /\ UNCHANGED <<rows, request>> /\ job' = Deploy!NoJob /\ missed' = TRUE
      /\ waiting' = [f \in Deploy!Actions |-> 0]
      /\ app' = IF app = "new" THEN "old" ELSE app
  BY DEF Deploy!DaemonRestarts
<1>2. waiting' \in [Deploy!Actions -> Nat] /\ app' \in {"none", "old", "new"}
  BY <1>1 DEF DeployInv, Inv_types
<1>3. job' \in Deploy!Job /\ Inv_app'
  BY <1>1 DEF Deploy!NoJob, Deploy!Job, Inv_app
<1>4. QED  BY <1>1, <1>2, <1>3, QuietKeeps

(* A report: of the start of a build, or the last one of a frame.          *)
LEMMA ReportKeeps ==
  ASSUME DeployInv, NEW status \in {"building", "live", "failed", "stopped"},
         Deploy!Report(status), waiting' = waiting,
         job' \in Deploy!Job, app' \in {"none", "old", "new"}, Inv_app',
         status = "building" => job' # Deploy!NoJob /\ app' = app,
         status = "live" => app' # "none",
         status = "stopped" => app' = "none"
  PROVE  DeployInv'
<1>1. CASE missed' /\ UNCHANGED <<rows, request>>
  <2>1. Inv_types' /\ Inv_requests'
    BY <1>1 DEF DeployInv, Inv_types, Inv_requests, Deploy!Ids, Deploy!Report, Deploy!Applied
  <2>2. QED  BY <2>1, <1>1 DEF DeployInv, Inv_truth
<1>2. CASE Deploy!Applied(status)
  <2>1. /\ request' \in [Deployers -> Deploy!Request]
        /\ \A r \in Deployers : \/ request[r] = Deploy!Idle /\ request'[r] = Deploy!Idle
                               \/ /\ request'[r].op = request[r].op /\ request'[r].id = request[r].id
                                  /\ request'[r].reported
    <3>1. request' = [r \in Deployers |-> IF request[r] = Deploy!Idle THEN Deploy!Idle
                                         ELSE [request[r] EXCEPT !.reported = TRUE]]
      BY <1>2 DEF Deploy!Applied
    <3>2. ASSUME NEW r \in Deployers
          PROVE  /\ request'[r] \in Deploy!Request
                 /\ \/ request[r] = Deploy!Idle /\ request'[r] = Deploy!Idle
                    \/ /\ request'[r].op = request[r].op /\ request'[r].id = request[r].id
                       /\ request'[r].reported
      <4>1. PICK q \in Deploy!Request : q = request[r]
        BY DEF DeployInv, Inv_types
      <4>2. PICK v : v = [q EXCEPT !.reported = TRUE]
        OBVIOUS
      <4>3. v \in Deploy!Request /\ v.op = q.op /\ v.id = q.id /\ v.reported
        BY <4>2 DEF Deploy!Request
      <4>4. request'[r] = IF q = Deploy!Idle THEN Deploy!Idle ELSE v
        BY <3>1, <4>1, <4>2
      <4>5. QED  BY <4>1, <4>3, <4>4, IdleIs
    <3>3. QED  BY <3>1, <3>2
  <2> DEFINE Same == /\ \A r \in Deployers : request'[r].op = request[r].op /\ request'[r].id = request[r].id
                     /\ \A r \in Deployers : request[r].op = "none" => request'[r] = Deploy!Idle
  <2>2. Same
    <3>1. \A r \in Deployers : request'[r].op = request[r].op /\ request'[r].id = request[r].id
      BY <2>1
    <3>2. \A r \in Deployers : request[r].op = "none" => request[r] = Deploy!Idle
      BY DEF DeployInv, Inv_requests
    <3>3. \A r \in Deployers : request[r] = Deploy!Idle => request'[r] = Deploy!Idle
      <4> SUFFICES ASSUME NEW r \in Deployers, request[r] = Deploy!Idle
                   PROVE  request'[r] = Deploy!Idle
        OBVIOUS
      <4>1. request' = [q \in Deployers |-> IF request[q] = Deploy!Idle THEN Deploy!Idle
                                           ELSE [request[q] EXCEPT !.reported = TRUE]]
        BY <1>2 DEF Deploy!Applied
      <4>2. QED  BY <4>1
    <3>4. QED  BY <3>1, <3>2, <3>3
  <2>3. ASSUME Deploy!Ids' = Deploy!Ids  PROVE Inv_requests'
    <3>1. ASSUME NEW r \in Deployers
          PROVE  /\ request'[r].op = "none" => request'[r] = Deploy!Idle
                 /\ request'[r].op \in {"create", "redeploy", "stop"} => request'[r].id \in Deploy!RowIds
                 /\ request'[r].op = "create" => request'[r].id \notin Deploy!Ids
      BY <2>2 DEF DeployInv, Inv_requests
    <3>2. ASSUME NEW r \in Deployers, NEW q \in Deployers, request'[r].op = "create",
                 request'[q].op = "create", request'[q].id = request'[r].id
          PROVE  q = r
      BY <3>2, <2>2 DEF DeployInv, Inv_requests
    <3>3. QED  BY <3>1, <3>2, <2>3 DEF Inv_requests
  <2> HIDE DEF Same
  <2>4. Inv_types /\ missed' \in BOOLEAN /\ (missed => missed')
    BY <1>2 DEF DeployInv, Inv_types, Deploy!Applied
  <2>5. CASE Deploy!Addressed = {}
    <3>1. rows' = rows /\ missed'
      BY <1>2, <2>5 DEF Deploy!Applied
    <3>2. Inv_types'
      BY <3>1, <2>1, <2>4 DEF Inv_types
    <3>3. Inv_requests'
      <4>1. Deploy!Ids' = Deploy!Ids
        BY <3>1 DEF Deploy!Ids
      <4>2. QED  BY <4>1, <2>3
    <3>4. QED  BY <3>1, <3>2, <3>3 DEF DeployInv, Inv_truth
  <2>6. CASE Deploy!Addressed # {}
    <3>1. PICK p \in Deploy!Addressed : rows' = Deploy!Updated([rows[p] EXCEPT !.status = status])
      BY <1>2, <2>6 DEF Deploy!Applied
    <3>2. p \in DOMAIN rows /\ rows[p].handle /\ \A k \in DOMAIN rows : rows[k].handle => k <= p
      BY <3>1 DEF Deploy!Addressed
    <3>3. rows[p] \in Deploy!Row /\ DOMAIN rows = 1..Len(rows) /\ Len(rows) \in Nat
      BY <3>2, <2>4, RowIs
    <3>4. PICK u : u = [rows[p] EXCEPT !.status = status]
      OBVIOUS
    <3>5. u \in Deploy!Row /\ u.id = rows[p].id /\ u.status = status /\ u.handle
      BY <3>2, <3>3, <3>4 DEF Deploy!Row, Deploy!Status
    <3>6. Replaces(p, u)
      BY <3>1, <3>2, <3>4, <3>5, <2>4, UpdatedRows
    <3>7. Inv_types'
      BY <3>6, <2>1, <2>4 DEF Inv_types, Replaces
    <3>8. Inv_requests'
      BY <3>6, <2>3 DEF Replaces
    <3>9. ASSUME ~missed'  PROVE Inv_truth'
      <4>1. ~missed /\ Alone /\ LastIsActive
        BY <3>9, <2>4 DEF DeployInv, Inv_truth, Inv_types
      <4>2. Alone'
        BY <4>1, <2>1, IdleIs DEF Alone, Writes
      <4>3. \A r \in Deployers : ~(Writes(r)' /\ ~request'[r].reported)
        BY <2>1, IdleIs DEF Writes
      <4>4. rows'[Len(rows')] = u
        BY <3>6 DEF Replaces
      <4>5. ASSUME NEW j \in DOMAIN rows', j # Len(rows')
            PROVE  rows'[j].status \notin Deploy!Active
        <5>1. PICK k \in DOMAIN rows : k # p /\ rows'[j] = rows[k]
          BY <4>5, <3>6 DEF Replaces
        <5>2. CASE rows[k].status \in Deploy!Active
          <6>1. k = Len(rows) /\ rows[k].handle
            BY <5>2, <4>1 DEF LastIsActive
          <6>2. QED  BY <6>1, <5>1, <3>2, <3>3
        <5>3. QED  BY <5>1, <5>2
      <4>6. LastIsActive'
        BY <4>4, <4>5, <3>5 DEF LastIsActive
      <4>7. Rested'
        <5>1. status = "building" => Busy'
          BY DEF Busy
        <5>2. status # "building" => status \notin Deploy!Active
          BY DEF Deploy!Active
        <5>3. QED  BY <5>1, <5>2, <4>4, <4>5, <3>5 DEF Rested
      <4>8. QED  BY <4>2, <4>3, <4>6, <4>7 DEF Inv_truth
    <3>10. QED  BY <3>7, <3>8, <3>9 DEF DeployInv, Inv_truth
  <2>7. QED  BY <2>5, <2>6
<1>3. QED  BY <1>1, <1>2 DEF Deploy!Report

LEMMA BuildingKeeps ==
  ASSUME DeployInv, Deploy!Building  PROVE DeployInv'
<1>1. Deploy!Report("building") /\ job' = [action |-> "deploy", pc |-> "fetch"]
      /\ UNCHANGED <<waiting, app>>
  BY DEF Deploy!Building, Deploy!Job1
<1>2. job' \in Deploy!Job /\ job' # Deploy!NoJob /\ Inv_app'
  <2>1. job'.pc = "fetch" /\ job'.action = "deploy"
    BY <1>1
  <2>2. QED  BY <1>1, <2>1 DEF Deploy!Job, Deploy!NoJob, Deploy!Actions, Inv_app
<1>3. app' \in {"none", "old", "new"}
  BY <1>1 DEF DeployInv, Inv_types
<1>4. QED  BY <1>1, <1>2, <1>3, ReportKeeps

LEMMA LastReportKeeps ==
  ASSUME DeployInv, Deploy!LastReport  PROVE DeployInv'
<1>1. PICK status \in {"live", "failed", "stopped"} : status = job.pc
  BY DEF Deploy!LastReport
<1>2. /\ Deploy!Report(status) /\ job' = Deploy!NoJob /\ waiting' = waiting
      /\ app' = IF app = "new" THEN "old" ELSE app
  BY <1>1 DEF Deploy!LastReport, Deploy!Released
<1>3. job' \in Deploy!Job /\ Inv_app' /\ app' \in {"none", "old", "new"}
  BY <1>2 DEF Deploy!NoJob, Deploy!Job, Inv_app, DeployInv, Inv_types
<1>4. (status = "live" => app' # "none") /\ (status = "stopped" => app' = "none")
  BY <1>1, <1>2 DEF DeployInv, Inv_app
<1>5. QED  BY <1>2, <1>3, <1>4, ReportKeeps

LEMMA DeployNext == DeployInv /\ [Deploy!Next]_(Deploy!vars) => DeployInv'
<1> SUFFICES ASSUME DeployInv, [Deploy!Next]_(Deploy!vars)  PROVE DeployInv'
  OBVIOUS
<1>1. CASE UNCHANGED Deploy!vars
  <2>1. UNCHANGED <<rows, request, waiting, job, app, missed>>
    BY <1>1 DEF Deploy!vars
  <2>2. Inv_app' /\ (Busy' = Busy)
    BY <2>1 DEF DeployInv, Inv_app, Busy
  <2>3. QED  BY <2>1, <2>2, QuietKeeps DEF DeployInv, Inv_types
<1>2. ASSUME NEW r \in Deployers, Deploy!Create(r)  PROVE DeployInv'
  BY <1>2, CreateKeeps
<1>3. ASSUME NEW r \in Deployers, Deploy!Disconnect(r)  PROVE DeployInv'
  BY <1>3, DisconnectKeeps
<1>4. ASSUME NEW r \in Deployers, Deploy!Commit(r)  PROVE DeployInv'
  BY <1>4, CommitKeeps
<1>5. ASSUME NEW r \in Deployers, NEW id \in Deploy!RowIds, Deploy!Redeploy(r, id)  PROVE DeployInv'
  BY <1>5, RedeployKeeps
<1>6. ASSUME NEW r \in Deployers, NEW id \in Deploy!RowIds, Deploy!Stop(r, id)  PROVE DeployInv'
  BY <1>6, StopKeeps
<1>7. ASSUME NEW f \in Deploy!Actions, Deploy!Locks(f)  PROVE DeployInv'
  BY <1>7, LocksKeeps
<1>8. CASE Deploy!Building
  BY <1>8, BuildingKeeps
<1>9. CASE Deploy!BuildEnds
  BY <1>9, BuildEndsKeeps
<1>10. CASE Deploy!Teardown
  BY <1>10, TeardownKeeps
<1>11. CASE Deploy!LastReport
  BY <1>11, LastReportKeeps
<1>12. CASE Deploy!DaemonRestarts
  BY <1>12, DaemonRestartsKeeps
<1>13. CASE Deploy!Hangs
  BY <1>13, HangsKeeps
<1>14. QED  BY <1>1, <1>2, <1>3, <1>4, <1>5, <1>6, <1>7, <1>8, <1>9, <1>10, <1>11, <1>12, <1>13
            DEF Deploy!Next, Deploy!DaemonWorks

(* RowTellsTheTruth: at rest, unless a report was dropped, a later commit  *)
(* wrote over one or deploys overlapped, the rows of the branch say what   *)
(* is on the computer.                                                     *)
THEOREM RowsTellTheTruth == ServicesSpec => []RowTellsTheTruth
<1>1. DeployInv => Deploy!RowTellsTheTruth
  <2> SUFFICES ASSUME DeployInv, Deploy!AtRest, ~missed, NEW i \in DOMAIN rows
               PROVE  /\ rows[i].status \notin Deploy!Active
                      /\ (i = Len(rows) /\ rows[i].handle) =>
                           /\ rows[i].status = "live" => app # "none"
                           /\ rows[i].status = "stopped" => app = "none"
    BY DEF Deploy!RowTellsTheTruth
  <2>1. ~Busy
    BY DEF Busy, Deploy!AtRest
  <2>2. QED  BY <2>1 DEF DeployInv, Inv_truth, Rested
<1> DEFINE Inv == part = "deploy" => DeployInv
<1>2. ServicesInit => Inv
  BY DeployMoves, DeployStarts
<1>3. Inv /\ [ServicesNext]_servicesVars => Inv'
  BY DeployMoves, DeployNext
<1>4. Inv => RowTellsTheTruth
  BY <1>1 DEF RowTellsTheTruth
<1>5. QED  BY <1>2, <1>3, <1>4, PTL DEF ServicesSpec

-----------------------------------------------------------------------------
(* AgentRows.                                                              *)

IsThread(x) ==
  /\ x = [op |-> x.op, agent |-> x.agent, bots |-> x.bots, sig |-> x.sig, late |-> x.late]
  /\ x.op = "seed" => x.agent \in Agents
  /\ x.late \in BOOLEAN /\ x.bots \subseteq [agent : Agents, runtime : Registry!Bound]

RegistryTypes ==
  /\ profile \in [Agents -> Registry!Profile] /\ row \in [Agents -> Registry!Row]
  /\ thread = [t \in Threads |-> thread[t]] /\ \A t \in Threads : IsThread(thread[t])
  /\ chosen \in [Agents -> Registry!Bound]

(* What a listing holds that no write overlapped.                          *)
ListingsAreRead ==
  \A t \in Threads : thread[t].op = "list" /\ ~thread[t].late => thread[t].bots = Registry!Bots

(* An agent that was never bound is bound nowhere, in no listing either.   *)
UnboundIn(a, bots) == \A b \in bots : b.agent = a => b.runtime = NoRuntime

NeverBound ==
  \A a \in Agents :
    ~profile[a].archived /\ profile[a].runtime = NoRuntime =>
      row[a].runtime = NoRuntime /\ \A t \in Threads : UnboundIn(a, thread[t].bots)

RegistryInv ==
  /\ RegistryTypes /\ ListingsAreRead /\ NeverBound
  /\ \A a \in Agents : profile[a].runtime = chosen[a]

(* What the steps do to the threads and to an agent.                       *)
ThreadStep(u) ==
  \/ /\ thread'[u].op = thread[u].op /\ thread'[u].bots = thread[u].bots
     /\ thread'[u].op = "list" /\ ~thread'[u].late => ~thread[u].late /\ Registry!Bots' = Registry!Bots
  \/ thread'[u].op # "list" /\ thread'[u].bots \in {{}, thread[u].bots}
  \/ thread'[u].op = "list" /\ thread'[u].bots = Registry!Bots /\ Registry!Bots' = Registry!Bots

AgentStep(a) ==
  /\ profile'[a].runtime = chosen'[a]
  /\ ~profile'[a].archived /\ profile'[a].runtime = NoRuntime =>
       ~profile[a].archived /\ profile[a].runtime = NoRuntime /\ row'[a].runtime = NoRuntime

LEMMA RegistryStep ==
  ASSUME RegistryInv, RegistryTypes', \A t \in Threads : ThreadStep(t), \A a \in Agents : AgentStep(a)
  PROVE  RegistryInv'
<1>2. ASSUME NEW t \in Threads, thread'[t].op = "list", ~thread'[t].late
      PROVE  thread'[t].bots = Registry!Bots'
  BY <1>2 DEF RegistryInv, ListingsAreRead, ThreadStep
<1>3. ASSUME NEW a \in Agents, ~profile'[a].archived, profile'[a].runtime = NoRuntime,
             NEW t \in Threads
      PROVE  UnboundIn(a, thread'[t].bots)
  <2>1. ~profile[a].archived /\ profile[a].runtime = NoRuntime
    BY <1>3 DEF AgentStep
  <2>2. UnboundIn(a, thread[t].bots)
    BY <2>1 DEF RegistryInv, NeverBound
  <2>3. UnboundIn(a, Registry!Bots)
    BY <2>1 DEF UnboundIn, Registry!Bots
  <2>4. UnboundIn(a, {})
    BY DEF UnboundIn
  <2>5. thread'[t].bots \in {thread[t].bots, Registry!Bots, {}}
    BY DEF ThreadStep
  <2>6. QED  BY <2>2, <2>3, <2>4, <2>5
<1>4. NeverBound'
  BY <1>3 DEF NeverBound, AgentStep, UnboundIn
<1>5. QED  BY <1>2, <1>4 DEF RegistryInv, ListingsAreRead, AgentStep

LEMMA RegistryStarts == Registry!Init => RegistryInv
<1> SUFFICES ASSUME Registry!Init  PROVE RegistryInv
  OBVIOUS
<1>1. /\ profile = [a \in Agents |-> [made |-> FALSE, archived |-> FALSE, system |-> FALSE,
                                      key |-> FALSE, runtime |-> NoRuntime]]
      /\ row = [a \in Agents |-> [made |-> FALSE, runtime |-> NoRuntime]]
      /\ thread = [t \in Threads |-> Registry!Idle] /\ chosen = [a \in Agents |-> NoRuntime]
  BY DEF Registry!Init
<1>2. IsThread(Registry!Idle) /\ Registry!Idle.op = "idle" /\ Registry!Idle.bots = {}
  BY DEF IsThread, Registry!Idle
<1>3. RegistryTypes
  BY <1>1, <1>2 DEF RegistryTypes, Registry!Profile, Registry!Row, Registry!Bound
<1>4. QED  BY <1>1, <1>2, <1>3 DEF RegistryInv, ListingsAreRead, NeverBound, UnboundIn

(* A write marks the listings that are open, and changes nothing else.     *)
LEMMA OverlappedIs ==
  ASSUME RegistryTypes
  PROVE  /\ Registry!Overlapped = [t \in Threads |-> Registry!Overlapped[t]]
         /\ \A t \in Threads :
              /\ IsThread(Registry!Overlapped[t])
              /\ Registry!Overlapped[t].op = thread[t].op
              /\ Registry!Overlapped[t].bots = thread[t].bots
              /\ Registry!Overlapped[t].agent = thread[t].agent
              /\ thread[t].op = "list" => Registry!Overlapped[t].late
<1>1. Registry!Overlapped = [t \in Threads |-> Registry!Overlapped[t]]
  BY DEF Registry!Overlapped
<1>2. ASSUME NEW t \in Threads
      PROVE  /\ IsThread(Registry!Overlapped[t])
             /\ Registry!Overlapped[t].op = thread[t].op
             /\ Registry!Overlapped[t].bots = thread[t].bots
             /\ Registry!Overlapped[t].agent = thread[t].agent
             /\ thread[t].op = "list" => Registry!Overlapped[t].late
  <2>1. PICK x : x = thread[t] /\ IsThread(x)
    BY DEF RegistryTypes
  <2>2. PICK o, b, l, a, s : x = [op |-> o, agent |-> a, bots |-> b, sig |-> s, late |-> l]
                             /\ l \in BOOLEAN
    BY <2>1 DEF IsThread
  <2>3. PICK w : w = (thread[t].late \/ thread[t].op = "list")
    OBVIOUS
  <2>4. w \in BOOLEAN /\ (thread[t].op = "list" => w)
    BY <2>1, <2>3 DEF IsThread
  <2>5. Registry!Overlapped[t] = [thread[t] EXCEPT !.late = w]
    BY <2>3, Zenon DEF Registry!Overlapped
  <2>6. PICK y : y = [op |-> o, agent |-> a, bots |-> b, sig |-> s, late |-> w]
    OBVIOUS
  <2>7. Registry!Overlapped[t] = y
    <3>1. [x EXCEPT !.late = w] = y
      BY <2>2, <2>6
    <3>2. QED  BY <2>1, <2>5, <3>1, Zenon
  <2>8. y.op = o /\ y.agent = a /\ y.bots = b /\ y.sig = s /\ y.late = w
    BY <2>6
  <2>9. IsThread(y)
    BY <2>1, <2>2, <2>4, <2>6, <2>8 DEF IsThread
  <2>10. x.op = o /\ x.agent = a /\ x.bots = b
    BY <2>2
  <2>11. y.op = thread[t].op /\ y.bots = thread[t].bots /\ y.agent = thread[t].agent
    BY <2>1, <2>8, <2>10
  <2>12. thread[t].op = "list" => y.late
    BY <2>4, <2>8
  <2>13. QED  BY <2>7, <2>9, <2>11, <2>12
<1>3. QED  BY <1>1, <1>2

(* A thread that becomes x, while the others are as in f.                  *)
LEMMA ThreadTyped ==
  ASSUME NEW f, f = [t \in Threads |-> f[t]], \A t \in Threads : IsThread(f[t]),
         NEW t \in Threads, NEW x, IsThread(x), thread' = [f EXCEPT ![t] = x]
  PROVE  /\ thread' = [u \in Threads |-> thread'[u]] /\ \A u \in Threads : IsThread(thread'[u])
         /\ thread'[t] = x /\ \A u \in Threads : u # t => thread'[u] = f[u]
<1>1. thread' = [u \in Threads |-> IF u = t THEN x ELSE f[u]]
  OBVIOUS
<1>2. thread'[t] = x /\ \A u \in Threads : u # t => thread'[u] = f[u]
  BY <1>1
<1>3. thread' = [u \in Threads |-> thread'[u]]
  BY <1>1
<1>4. QED  BY <1>2, <1>3

(* The requests that write mark the listings: what is left is the agent.   *)
LEMMA WriteKeeps ==
  ASSUME RegistryInv, thread' = Registry!Overlapped,
         profile' \in [Agents -> Registry!Profile], row' \in [Agents -> Registry!Row],
         chosen' \in [Agents -> Registry!Bound], \A a \in Agents : AgentStep(a)
  PROVE  RegistryInv'
<1>1. RegistryTypes'
  BY OverlappedIs DEF RegistryInv, RegistryTypes
<1>2. ASSUME NEW u \in Threads  PROVE ThreadStep(u)
  <2>1. thread'[u].op = thread[u].op /\ thread'[u].bots = thread[u].bots
        /\ (thread[u].op = "list" => thread'[u].late)
    BY OverlappedIs DEF RegistryInv
  <2>2. QED  BY <2>1 DEF ThreadStep
<1>3. QED  BY <1>1, <1>2, RegistryStep

LEMMA CreatesKeeps ==
  ASSUME Registry!AgentRowsAssumption, RegistryInv, NEW a \in Agents, NEW r \in Runtimes,
         Registry!Create(a, r)
  PROVE  RegistryInv'
<1>1. PICK p \in Registry!Profile : p = profile[a]
  BY DEF RegistryInv, RegistryTypes
<1>2. PICK key : key = (profile[a].made => profile[a].key) /\ key \in BOOLEAN
  OBVIOUS
<1>3. PICK q : q = [p EXCEPT !.made = TRUE, !.runtime = r, !.key = key]
  OBVIOUS
<1>4. q \in Registry!Profile /\ q.runtime = r /\ r \in Registry!Bound /\ r # NoRuntime
  BY <1>1, <1>2, <1>3 DEF Registry!Profile, Registry!Bound, Registry!AgentRowsAssumption
<1>5. profile' = [profile EXCEPT ![a] = q]
  <2>1. profile' = [profile EXCEPT ![a] =
                      [profile[a] EXCEPT !.made = TRUE, !.runtime = r,
                                         !.key = (profile[a].made => profile[a].key)]]
    BY Zenon DEF Registry!Create
  <2>2. QED  BY <1>1, <1>2, <1>3, <2>1, Zenon
<1>6. PICK w : w = [made |-> TRUE, runtime |-> r]
  OBVIOUS
<1>7. w \in Registry!Row /\ w.runtime = r
  BY <1>4, <1>6 DEF Registry!Row
<1>8. row' = [row EXCEPT ![a] = w] /\ chosen' = [chosen EXCEPT ![a] = r]
      /\ thread' = Registry!Overlapped
  BY <1>6 DEF Registry!Create
<1>9. /\ profile' \in [Agents -> Registry!Profile] /\ row' \in [Agents -> Registry!Row]
      /\ chosen' \in [Agents -> Registry!Bound]
  BY <1>4, <1>5, <1>7, <1>8 DEF RegistryInv, RegistryTypes
<1>10. ASSUME NEW b \in Agents  PROVE AgentStep(b)
  <2>1. CASE b = a
    BY <2>1, <1>4, <1>5, <1>8 DEF RegistryInv, RegistryTypes, AgentStep
  <2>2. CASE b # a
    <3>1. profile'[b] = profile[b] /\ row'[b] = row[b] /\ chosen'[b] = chosen[b]
      BY <2>2, <1>5, <1>8 DEF RegistryInv, RegistryTypes
    <3>2. QED  BY <3>1 DEF RegistryInv, NeverBound, AgentStep
  <2>3. QED  BY <2>1, <2>2
<1>11. QED  BY <1>8, <1>9, <1>10, WriteKeeps

LEMMA RebindKeeps ==
  ASSUME Registry!AgentRowsAssumption, RegistryInv, NEW a \in Agents, NEW r \in Runtimes,
         Registry!Rebind(a, r)
  PROVE  RegistryInv'
<1>1. PICK p \in Registry!Profile : p = profile[a]
  BY DEF RegistryInv, RegistryTypes
<1>2. PICK v \in Registry!Row : v = row[a]
  BY DEF RegistryInv, RegistryTypes
<1>3. PICK q, w : q = [p EXCEPT !.runtime = r] /\ w = [v EXCEPT !.runtime = r]
  OBVIOUS
<1>4. /\ q \in Registry!Profile /\ q.runtime = r /\ r \in Registry!Bound /\ r # NoRuntime
      /\ w \in Registry!Row /\ w.runtime = r
  BY <1>1, <1>2, <1>3 DEF Registry!Profile, Registry!Row, Registry!Bound, Registry!AgentRowsAssumption
<1>5. /\ profile' = [profile EXCEPT ![a] = q] /\ row' = [row EXCEPT ![a] = w]
      /\ chosen' = [chosen EXCEPT ![a] = r] /\ thread' = Registry!Overlapped
  BY <1>1, <1>2, <1>3 DEF Registry!Rebind, Registry!ProfileBound
<1>6. /\ profile' \in [Agents -> Registry!Profile] /\ row' \in [Agents -> Registry!Row]
      /\ chosen' \in [Agents -> Registry!Bound]
  BY <1>4, <1>5 DEF RegistryInv, RegistryTypes
<1>7. ASSUME NEW b \in Agents  PROVE AgentStep(b)
  <2>1. CASE b = a
    BY <2>1, <1>4, <1>5 DEF RegistryInv, RegistryTypes, AgentStep
  <2>2. CASE b # a
    <3>1. profile'[b] = profile[b] /\ row'[b] = row[b] /\ chosen'[b] = chosen[b]
      BY <2>2, <1>5 DEF RegistryInv, RegistryTypes
    <3>2. QED  BY <3>1 DEF RegistryInv, NeverBound, AgentStep
  <2>3. QED  BY <2>1, <2>2
<1>8. QED  BY <1>5, <1>6, <1>7, WriteKeeps

LEMMA ArchiveKeeps ==
  ASSUME RegistryInv, NEW a \in Agents, Registry!Archive(a)  PROVE RegistryInv'
<1>1. PICK p \in Registry!Profile : p = profile[a]
  BY DEF RegistryInv, RegistryTypes
<1>2. PICK v \in Registry!Row : v = row[a]
  BY DEF RegistryInv, RegistryTypes
<1>3. PICK q, w : q = [p EXCEPT !.archived = TRUE, !.key = FALSE, !.runtime = NoRuntime]
                  /\ w = [v EXCEPT !.runtime = NoRuntime]
  OBVIOUS
<1>4. /\ q \in Registry!Profile /\ q.archived /\ q.runtime = NoRuntime /\ NoRuntime \in Registry!Bound
      /\ w \in Registry!Row /\ w.runtime = NoRuntime
  BY <1>1, <1>2, <1>3 DEF Registry!Profile, Registry!Row, Registry!Bound
<1>5. /\ profile' = [profile EXCEPT ![a] = q] /\ row' = [row EXCEPT ![a] = w]
      /\ chosen' = [chosen EXCEPT ![a] = NoRuntime] /\ thread' = Registry!Overlapped
  BY <1>1, <1>2, <1>3 DEF Registry!Archive
<1>6. /\ profile' \in [Agents -> Registry!Profile] /\ row' \in [Agents -> Registry!Row]
      /\ chosen' \in [Agents -> Registry!Bound]
  BY <1>4, <1>5 DEF RegistryInv, RegistryTypes
<1>7. ASSUME NEW b \in Agents  PROVE AgentStep(b)
  <2>1. CASE b = a
    BY <2>1, <1>4, <1>5 DEF RegistryInv, RegistryTypes, AgentStep
  <2>2. CASE b # a
    <3>1. profile'[b] = profile[b] /\ row'[b] = row[b] /\ chosen'[b] = chosen[b]
      BY <2>2, <1>5 DEF RegistryInv, RegistryTypes
    <3>2. QED  BY <3>1 DEF RegistryInv, NeverBound, AgentStep
  <2>3. QED  BY <2>1, <2>2
<1>8. QED  BY <1>5, <1>6, <1>7, WriteKeeps

(* A step of one thread that writes to no agent.                           *)
LEMMA ReadKeeps ==
  ASSUME RegistryInv, UNCHANGED <<profile, row, chosen>>, NEW t \in Threads, NEW x, IsThread(x),
         thread' = [thread EXCEPT ![t] = x],
         \/ x.op # "list" /\ x.bots \in {{}, thread[t].bots}
         \/ x.op = "list" /\ x.bots = Registry!Bots
  PROVE  RegistryInv'
<1>1. thread = [u \in Threads |-> thread[u]] /\ \A u \in Threads : IsThread(thread[u])
  BY DEF RegistryInv, RegistryTypes
<1>2. /\ thread' = [u \in Threads |-> thread'[u]] /\ \A u \in Threads : IsThread(thread'[u])
      /\ thread'[t] = x /\ \A u \in Threads : u # t => thread'[u] = thread[u]
  BY <1>1, ThreadTyped
<1>3. RegistryTypes'
  BY <1>2 DEF RegistryInv, RegistryTypes
<1>4. \A u \in Threads : ThreadStep(u)
  <2>1. Registry!Bots' = Registry!Bots
    BY DEF Registry!Bots
  <2>2. QED  BY <1>2, <2>1 DEF ThreadStep
<1>5. \A a \in Agents : AgentStep(a)
  BY DEF AgentStep, RegistryInv, NeverBound
<1>6. QED  BY <1>3, <1>4, <1>5, RegistryStep

LEMMA IdleThread ==
  /\ IsThread(Registry!Idle) /\ Registry!Idle.op = "idle" /\ Registry!Idle.bots = {}
  /\ ~Registry!Idle.late
BY DEF IsThread, Registry!Idle

LEMMA ListBeginsKeeps ==
  ASSUME RegistryInv, NEW t \in Threads, Registry!ListBegins(t)  PROVE RegistryInv'
<1>1. PICK x : x = [Registry!Idle EXCEPT !.op = "list", !.bots = Registry!Bots]
  OBVIOUS
<1>2. IsThread(x) /\ x.op = "list" /\ x.bots = Registry!Bots
  <2>1. Registry!Bots \subseteq [agent : Agents, runtime : Registry!Bound]
    <3>1. ASSUME NEW a \in Agents  PROVE profile[a].runtime \in Registry!Bound
      BY DEF RegistryInv, RegistryTypes, Registry!Profile
    <3>2. QED  BY <3>1 DEF Registry!Bots
  <2>2. QED  BY <2>1, <1>1 DEF IsThread, Registry!Idle
<1>3. thread' = [thread EXCEPT ![t] = x] /\ UNCHANGED <<profile, row, chosen>>
  BY <1>1 DEF Registry!ListBegins
<1>4. QED  BY <1>2, <1>3, ReadKeeps

LEMMA CheckAskedKeeps ==
  ASSUME RegistryInv, NEW t \in Threads, NEW a \in Agents, Registry!CheckAsked(t, a)
  PROVE  RegistryInv'
<1>1. PICK x : x = [Registry!Idle EXCEPT !.op = "check", !.agent = a]
  OBVIOUS
<1>2. IsThread(x) /\ x.op = "check" /\ x.bots = {}
  BY <1>1 DEF IsThread, Registry!Idle
<1>3. thread' = [thread EXCEPT ![t] = x] /\ UNCHANGED <<profile, row, chosen>>
  BY <1>1 DEF Registry!CheckAsked
<1>4. QED  BY <1>2, <1>3, ReadKeeps

LEMMA ThreadIdlesKeeps ==
  ASSUME RegistryInv, NEW t \in Threads, Registry!CheckServed(t) \/ Registry!CheckEnds(t)
  PROVE  RegistryInv'
<1>1. thread' = [thread EXCEPT ![t] = Registry!Idle] /\ UNCHANGED <<profile, row, chosen>>
  BY DEF Registry!CheckServed, Registry!CheckEnds
<1>2. QED  BY <1>1, IdleThread, ReadKeeps

LEMMA CheckBeginsKeeps ==
  ASSUME RegistryInv, NEW t \in Threads, Registry!CheckBegins(t)  PROVE RegistryInv'
<1>1. PICK y : y = thread[t] /\ IsThread(y)
  BY DEF RegistryInv, RegistryTypes
<1>2. PICK o, b, l, a, s : y = [op |-> o, agent |-> a, bots |-> b, sig |-> s, late |-> l]
                           /\ l \in BOOLEAN
  BY <1>1 DEF IsThread
<1>3. PICK g : g = Registry!Signature(y.agent)
  OBVIOUS
<1>4. PICK c, x : c = "compute" /\ x = [op |-> c, agent |-> a, bots |-> b, sig |-> g, late |-> l]
  OBVIOUS
<1>5. x.op = "compute" /\ x.agent = a /\ x.bots = b /\ x.sig = g /\ x.late = l /\ y.bots = b
  BY <1>2, <1>4
<1>6. IsThread(x)
  BY <1>1, <1>2, <1>4, <1>5 DEF IsThread
<1>7. thread' = [thread EXCEPT ![t] = x]
  <2>1. thread' = [thread EXCEPT ![t].op = "compute", ![t].sig = g]
    BY <1>1, <1>3 DEF Registry!CheckBegins
  <2>2. thread = [u \in Threads |-> thread[u]]
    BY DEF RegistryInv, RegistryTypes
  <2>3. [y EXCEPT !.op = c, !.sig = g] = x
    <3>1. PICK z : z = [op |-> c, agent |-> a, bots |-> b, sig |-> s, late |-> l]
      OBVIOUS
    <3>2. [y EXCEPT !.op = c] = z
      BY <1>2, <3>1
    <3>3. [z EXCEPT !.sig = g] = x
      BY <1>4, <3>1
    <3>4. [y EXCEPT !.op = c, !.sig = g] = [[y EXCEPT !.op = c] EXCEPT !.sig = g]
      OBVIOUS
    <3>5. QED  BY <3>2, <3>3, <3>4
  <2>4. thread' = [u \in Threads |->
                     IF u = t THEN [thread[t] EXCEPT !.op = c, !.sig = g] ELSE thread[u]]
    BY <2>1, <2>2, <1>4
  <2>5. QED  BY <2>2, <2>3, <2>4, <1>1
<1>8. UNCHANGED <<profile, row, chosen>>
  BY DEF Registry!CheckBegins
<1>9. x.op # "list" /\ x.bots \in {{}, thread[t].bots}
  BY <1>1, <1>5
<1>10. QED  BY <1>6, <1>7, <1>8, <1>9, ReadKeeps

(* What a listing writes: the runtime that it read, to the row that has it.*)
LEMMA MirroredIs ==
  ASSUME RegistryInv, NEW a \in Agents, NEW bots, bots \subseteq [agent : Agents, runtime : Registry!Bound]
  PROVE  /\ Registry!Mirrored(bots, a) \in Registry!Row
         /\ UnboundIn(a, bots) /\ row[a].runtime = NoRuntime =>
              Registry!Mirrored(bots, a).runtime = NoRuntime
<1>1. row[a] \in Registry!Row
  BY DEF RegistryInv, RegistryTypes
<1>2. CASE \E b \in bots : b.agent = a
  <2>1. PICK bot \in bots : bot.agent = a /\ bot = CHOOSE b \in bots : b.agent = a
    BY <1>2
  <2>2. PICK rt : rt = IF bot.runtime = NoRuntime THEN row[a].runtime ELSE bot.runtime
    OBVIOUS
  <2>3. rt \in Registry!Bound
    BY <2>1, <2>2, <1>1 DEF Registry!Row
  <2>4. Registry!Mirrored(bots, a) = [made |-> TRUE, runtime |-> rt]
    BY <1>2, <2>1, <2>2, Zenon DEF Registry!Mirrored
  <2>5. UnboundIn(a, bots) /\ row[a].runtime = NoRuntime => rt = NoRuntime
    BY <2>1, <2>2 DEF UnboundIn
  <2>6. QED  BY <2>3, <2>4, <2>5 DEF Registry!Row
<1>3. CASE ~\E b \in bots : b.agent = a
  BY <1>1, <1>3 DEF Registry!Mirrored
<1>4. QED  BY <1>2, <1>3

LEMMA ListEndsKeeps ==
  ASSUME RegistryInv, NEW t \in Threads, Registry!ListEnds(t)  PROVE RegistryInv'
<1>1. /\ thread' = [thread EXCEPT ![t] = Registry!Idle] /\ UNCHANGED <<profile, chosen>>
      /\ row' = [a \in Agents |-> Registry!Mirrored(thread[t].bots, a)]
  BY DEF Registry!ListEnds
<1>2. thread = [u \in Threads |-> thread[u]] /\ \A u \in Threads : IsThread(thread[u])
  BY DEF RegistryInv, RegistryTypes
<1>3. /\ thread' = [u \in Threads |-> thread'[u]] /\ \A u \in Threads : IsThread(thread'[u])
      /\ thread'[t] = Registry!Idle /\ \A u \in Threads : u # t => thread'[u] = thread[u]
  BY <1>1, <1>2, IdleThread, ThreadTyped
<1>4. \A u \in Threads : ThreadStep(u)
  <2>1. Registry!Bots' = Registry!Bots
    BY <1>1 DEF Registry!Bots
  <2>2. QED  BY <1>3, <2>1, IdleThread DEF ThreadStep
<1>5. PICK bots : bots = thread[t].bots /\ bots \subseteq [agent : Agents, runtime : Registry!Bound]
  BY <1>2 DEF IsThread
<1>6. ASSUME NEW a \in Agents  PROVE row'[a] \in Registry!Row /\ AgentStep(a)
  <2>1. row'[a] = Registry!Mirrored(bots, a)
    BY <1>1, <1>5
  <2>2. /\ Registry!Mirrored(bots, a) \in Registry!Row
        /\ UnboundIn(a, bots) /\ row[a].runtime = NoRuntime =>
             Registry!Mirrored(bots, a).runtime = NoRuntime
    BY <1>5, MirroredIs
  <2>3. ~profile[a].archived /\ profile[a].runtime = NoRuntime =>
          UnboundIn(a, bots) /\ row[a].runtime = NoRuntime
    BY <1>5 DEF RegistryInv, NeverBound
  <2>4. QED  BY <2>1, <2>2, <2>3, <1>1 DEF AgentStep, RegistryInv
<1>7. RegistryTypes'
  BY <1>1, <1>3, <1>6 DEF RegistryInv, RegistryTypes
<1>8. QED  BY <1>4, <1>6, <1>7, RegistryStep

LEMMA SeedBeginsKeeps ==
  ASSUME RegistryInv, NEW t \in Threads, NEW a \in Agents, Registry!SeedBegins(t, a)
  PROVE  RegistryInv'
<1>1. PICK p \in Registry!Profile : p = profile[a]
  BY DEF RegistryInv, RegistryTypes
<1>2. PICK key : key = (profile[a].made => profile[a].key) /\ key \in BOOLEAN
  OBVIOUS
<1>3. PICK q : q = [p EXCEPT !.made = TRUE, !.key = key]
  OBVIOUS
<1>4. q \in Registry!Profile /\ q.runtime = p.runtime /\ q.archived = p.archived
  BY <1>1, <1>2, <1>3 DEF Registry!Profile
<1>5. profile' = [profile EXCEPT ![a] = q]
  <2>1. profile' = [profile EXCEPT ![a] =
                      [profile[a] EXCEPT !.made = TRUE, !.key = (profile[a].made => profile[a].key)]]
    BY Zenon DEF Registry!SeedBegins
  <2>2. QED  BY <1>1, <1>2, <1>3, <2>1, Zenon
<1>6. PICK x : x = [Registry!Idle EXCEPT !.op = "seed", !.agent = a]
  OBVIOUS
<1>7. IsThread(x) /\ x.op = "seed" /\ x.bots = {}
  BY <1>6 DEF IsThread, Registry!Idle
<1>8. PICK f : f = IF profile[a].made THEN thread ELSE Registry!Overlapped
  OBVIOUS
<1>9. thread' = [f EXCEPT ![t] = x] /\ UNCHANGED <<row, chosen>>
  BY <1>6, <1>8 DEF Registry!SeedBegins
<1>10. f = [u \in Threads |-> f[u]] /\ \A u \in Threads : IsThread(f[u])
  <2>1. CASE profile[a].made
    BY <2>1, <1>8 DEF RegistryInv, RegistryTypes
  <2>2. CASE ~profile[a].made
    BY <2>2, <1>8, OverlappedIs DEF RegistryInv
  <2>3. QED  BY <2>1, <2>2
<1>11. /\ thread' = [u \in Threads |-> thread'[u]] /\ \A u \in Threads : IsThread(thread'[u])
       /\ thread'[t] = x /\ \A u \in Threads : u # t => thread'[u] = f[u]
  BY <1>7, <1>9, <1>10, ThreadTyped
<1>12. RegistryTypes'
  BY <1>4, <1>5, <1>9, <1>11 DEF RegistryInv, RegistryTypes
<1>13. ASSUME profile[a].made  PROVE Registry!Bots' = Registry!Bots
  <2>1. q.made
    BY <1>1, <1>2, <1>3 DEF Registry!Profile
  <2>2. ASSUME NEW b \in Agents
        PROVE  /\ profile'[b].made <=> profile[b].made
               /\ profile'[b].archived = profile[b].archived
               /\ profile'[b].runtime = profile[b].runtime
    BY <2>1, <1>1, <1>4, <1>5, <1>13 DEF RegistryInv, RegistryTypes
  <2>3. QED  BY <2>2 DEF Registry!Bots
<1>14. ASSUME NEW u \in Threads  PROVE ThreadStep(u)
  <2>1. CASE u = t
    BY <2>1, <1>7, <1>11 DEF ThreadStep
  <2>2. CASE u # t /\ profile[a].made
    BY <2>2, <1>8, <1>11, <1>13 DEF ThreadStep
  <2>3. CASE u # t /\ ~profile[a].made
    <3>1. thread'[u] = Registry!Overlapped[u]
      BY <2>3, <1>8, <1>11
    <3>2. thread'[u].op = thread[u].op /\ thread'[u].bots = thread[u].bots
          /\ (thread[u].op = "list" => thread'[u].late)
      BY <3>1, OverlappedIs DEF RegistryInv
    <3>3. QED  BY <3>2 DEF ThreadStep
  <2>4. QED  BY <2>1, <2>2, <2>3
<1>15. ASSUME NEW b \in Agents  PROVE AgentStep(b)
  <2>1. profile'[b].runtime = profile[b].runtime /\ profile'[b].archived = profile[b].archived
    BY <1>1, <1>4, <1>5 DEF RegistryInv, RegistryTypes
  <2>2. QED  BY <2>1, <1>9 DEF RegistryInv, NeverBound, AgentStep
<1>16. QED  BY <1>12, <1>14, <1>15, RegistryStep

LEMMA SeedEndsKeeps ==
  ASSUME Registry!AgentRowsAssumption, RegistryInv, NEW t \in Threads, Registry!SeedEnds(t)
  PROVE  RegistryInv'
<1>1. PICK a \in Agents : a = thread[t].agent
  BY DEF Registry!SeedEnds, RegistryInv, RegistryTypes, IsThread
<1>2. PICK r \in IF Registry!Live = {} THEN {NoRuntime} ELSE Registry!Live :
        /\ profile' = [profile EXCEPT ![a] =
             [profile[a] EXCEPT !.system = TRUE, !.runtime = Registry!OrBound(profile[a].runtime, r)]]
        /\ row' = [row EXCEPT ![a] =
             [made |-> TRUE, runtime |-> Registry!OrBound(row[a].runtime, r)]]
        /\ chosen' = [chosen EXCEPT ![a] = Registry!OrBound(chosen[a], r)]
        /\ thread' = [(IF profile' = profile /\ row' = row THEN thread ELSE Registry!Overlapped)
                        EXCEPT ![t] = Registry!Idle]
  BY <1>1 DEF Registry!SeedEnds
<1>3. r \in Registry!Bound
  BY DEF Registry!Live, Registry!Bound
<1>4. PICK p \in Registry!Profile : p = profile[a]
  BY DEF RegistryInv, RegistryTypes
<1>5. PICK v \in Registry!Row : v = row[a]
  BY DEF RegistryInv, RegistryTypes
<1>6. PICK pr, rr : pr = Registry!OrBound(p.runtime, r) /\ rr = Registry!OrBound(v.runtime, r)
  OBVIOUS
<1>7. /\ pr \in Registry!Bound /\ rr \in Registry!Bound
      /\ pr = NoRuntime => p.runtime = NoRuntime /\ r = NoRuntime
      /\ v.runtime = NoRuntime /\ r = NoRuntime => rr = NoRuntime
  BY <1>3, <1>4, <1>5, <1>6 DEF Registry!OrBound, Registry!Profile, Registry!Row
<1>8. PICK q, w : q = [p EXCEPT !.system = TRUE, !.runtime = pr] /\ w = [made |-> TRUE, runtime |-> rr]
  OBVIOUS
<1>9. /\ q \in Registry!Profile /\ q.runtime = pr /\ q.archived = p.archived
      /\ w \in Registry!Row /\ w.runtime = rr
  BY <1>4, <1>7, <1>8 DEF Registry!Profile, Registry!Row
<1>10. chosen[a] = p.runtime
  BY <1>4 DEF RegistryInv
<1>11. /\ profile' = [profile EXCEPT ![a] = q] /\ row' = [row EXCEPT ![a] = w]
       /\ chosen' = [chosen EXCEPT ![a] = pr]
  BY <1>2, <1>4, <1>5, <1>6, <1>8, <1>10
<1>12. PICK f : f = IF profile' = profile /\ row' = row THEN thread ELSE Registry!Overlapped
  OBVIOUS
<1>13. thread' = [f EXCEPT ![t] = Registry!Idle]
  BY <1>2, <1>12
<1>14. f = [u \in Threads |-> f[u]] /\ \A u \in Threads : IsThread(f[u])
  BY <1>12, OverlappedIs DEF RegistryInv, RegistryTypes
<1>15. /\ thread' = [u \in Threads |-> thread'[u]] /\ \A u \in Threads : IsThread(thread'[u])
       /\ thread'[t] = Registry!Idle /\ \A u \in Threads : u # t => thread'[u] = f[u]
  BY <1>13, <1>14, IdleThread, ThreadTyped
<1>16. RegistryTypes'
  BY <1>7, <1>9, <1>11, <1>15 DEF RegistryInv, RegistryTypes
<1>17. ASSUME NEW u \in Threads  PROVE ThreadStep(u)
  <2>1. CASE u = t
    BY <2>1, <1>15, IdleThread DEF ThreadStep
  <2>2. CASE u # t /\ profile' = profile /\ row' = row
    <3>1. Registry!Bots' = Registry!Bots
      BY <2>2 DEF Registry!Bots
    <3>2. QED  BY <3>1, <2>2, <1>12, <1>15 DEF ThreadStep
  <2>3. CASE u # t /\ ~(profile' = profile /\ row' = row)
    <3>1. thread'[u] = Registry!Overlapped[u]
      BY <2>3, <1>12, <1>15
    <3>2. thread'[u].op = thread[u].op /\ thread'[u].bots = thread[u].bots
          /\ (thread[u].op = "list" => thread'[u].late)
      BY <3>1, OverlappedIs DEF RegistryInv
    <3>3. QED  BY <3>2 DEF ThreadStep
  <2>4. QED  BY <2>1, <2>2, <2>3
<1>18. ASSUME NEW b \in Agents  PROVE AgentStep(b)
  <2>1. CASE b = a
    <3>1. profile'[a] = q /\ row'[a] = w /\ chosen'[a] = pr
      BY <1>11 DEF RegistryInv, RegistryTypes
    <3>2. ~p.archived /\ p.runtime = NoRuntime => v.runtime = NoRuntime
      BY <1>4, <1>5 DEF RegistryInv, NeverBound
    <3>3. QED  BY <2>1, <3>1, <3>2, <1>4, <1>7, <1>9 DEF AgentStep
  <2>2. CASE b # a
    <3>1. profile'[b] = profile[b] /\ row'[b] = row[b] /\ chosen'[b] = chosen[b]
      BY <2>2, <1>11 DEF RegistryInv, RegistryTypes
    <3>2. QED  BY <3>1 DEF RegistryInv, NeverBound, AgentStep
  <2>3. QED  BY <2>1, <2>2
<1>19. QED  BY <1>16, <1>17, <1>18, RegistryStep

LEMMA RegistryNext ==
  Registry!AgentRowsAssumption /\ RegistryInv /\ [Registry!Next]_(Registry!vars) => RegistryInv'
<1> SUFFICES ASSUME Registry!AgentRowsAssumption, RegistryInv, [Registry!Next]_(Registry!vars)
             PROVE  RegistryInv'
  OBVIOUS
<1>1. ASSUME UNCHANGED <<profile, row, thread, chosen>>  PROVE RegistryInv'
  BY <1>1 DEF RegistryInv, RegistryTypes, ListingsAreRead, NeverBound, UnboundIn, Registry!Bots
<1>2. CASE UNCHANGED Registry!vars
  BY <1>1, <1>2 DEF Registry!vars
<1>3. CASE Registry!EditProject
  BY <1>1, <1>3 DEF Registry!EditProject
<1>4. ASSUME NEW r \in Runtimes, Registry!Registers(r) \/ Registry!Connects(r) \/ Registry!Disconnects(r)
      PROVE  RegistryInv'
  BY <1>1, <1>4 DEF Registry!Registers, Registry!Connects, Registry!Disconnects
<1>5. ASSUME NEW a \in Agents, Registry!Archive(a)  PROVE RegistryInv'
  BY <1>5, ArchiveKeeps
<1>6. ASSUME NEW a \in Agents, NEW r \in Runtimes, Registry!Create(a, r)  PROVE RegistryInv'
  BY <1>6, CreatesKeeps
<1>7. ASSUME NEW a \in Agents, NEW r \in Runtimes, Registry!Rebind(a, r)  PROVE RegistryInv'
  BY <1>7, RebindKeeps
<1>8. ASSUME NEW t \in Threads, Registry!ListBegins(t)  PROVE RegistryInv'
  BY <1>8, ListBeginsKeeps
<1>9. ASSUME NEW t \in Threads, Registry!ListEnds(t)  PROVE RegistryInv'
  BY <1>9, ListEndsKeeps
<1>10. ASSUME NEW t \in Threads, NEW a \in Agents, Registry!SeedBegins(t, a)  PROVE RegistryInv'
  BY <1>10, SeedBeginsKeeps
<1>11. ASSUME NEW t \in Threads, Registry!SeedEnds(t)  PROVE RegistryInv'
  BY <1>11, SeedEndsKeeps
<1>12. ASSUME NEW t \in Threads, NEW a \in Agents, Registry!CheckAsked(t, a)  PROVE RegistryInv'
  BY <1>12, CheckAskedKeeps
<1>13. ASSUME NEW t \in Threads, Registry!CheckBegins(t)  PROVE RegistryInv'
  BY <1>13, CheckBeginsKeeps
<1>14. ASSUME NEW t \in Threads, Registry!CheckServed(t) \/ Registry!CheckEnds(t)  PROVE RegistryInv'
  BY <1>14, ThreadIdlesKeeps
<1>15. QED  BY <1>2, <1>3, <1>4, <1>5, <1>6, <1>7, <1>8, <1>9, <1>10, <1>11, <1>12, <1>13, <1>14
            DEF Registry!Next

(* A listing and a check end by the step that ends them.                   *)
EndsOrStays(t) ==
  \/ thread'[t].op = thread[t].op \/ thread'[t].op # "idle"
  \/ thread[t].op \notin {"list", "check"}
  \/ Registry!ListEnds(t) \/ Registry!CheckServed(t)

LEMMA ThreadsEnd ==
  ASSUME RegistryInv, [Registry!Next]_(Registry!vars), NEW t \in Threads
  PROVE  EndsOrStays(t)
<1> USE DEF EndsOrStays
<1>1. ASSUME thread' = thread  PROVE EndsOrStays(t)
  BY <1>1
<1>2. ASSUME thread' = Registry!Overlapped  PROVE EndsOrStays(t)
  BY <1>2, OverlappedIs DEF RegistryInv
<1>3. ASSUME NEW u \in Threads, NEW x, thread' = [thread EXCEPT ![u] = x], t # u
      PROVE  EndsOrStays(t)
  BY <1>3
<1>4. ASSUME NEW u \in Threads, NEW x, thread' = [Registry!Overlapped EXCEPT ![u] = x], t # u
      PROVE  EndsOrStays(t)
  BY <1>4, OverlappedIs DEF RegistryInv
<1>5. CASE UNCHANGED Registry!vars
  BY <1>1, <1>5 DEF Registry!vars
<1>6. CASE Registry!EditProject
  BY <1>1, <1>6 DEF Registry!EditProject
<1>7. ASSUME NEW r \in Runtimes, Registry!Registers(r) \/ Registry!Connects(r) \/ Registry!Disconnects(r)
      PROVE  EndsOrStays(t)
  BY <1>1, <1>7 DEF Registry!Registers, Registry!Connects, Registry!Disconnects
<1>8. ASSUME NEW a \in Agents, Registry!Archive(a)  PROVE EndsOrStays(t)
  BY <1>2, <1>8 DEF Registry!Archive
<1>9. ASSUME NEW a \in Agents, NEW r \in Runtimes, Registry!Create(a, r) \/ Registry!Rebind(a, r)
      PROVE  EndsOrStays(t)
  BY <1>2, <1>9 DEF Registry!Create, Registry!Rebind
<1>10. ASSUME NEW u \in Threads, Registry!ListBegins(u)  PROVE EndsOrStays(t)
  <2>1. CASE u = t
    BY <2>1, <1>10 DEF Registry!ListBegins
  <2>2. CASE u # t
    BY <2>2, <1>3, <1>10 DEF Registry!ListBegins
  <2>3. QED  BY <2>1, <2>2
<1>11. ASSUME NEW u \in Threads, Registry!ListEnds(u)  PROVE EndsOrStays(t)
  BY <1>3, <1>11 DEF Registry!ListEnds
<1>12. ASSUME NEW u \in Threads, NEW a \in Agents, Registry!SeedBegins(u, a)  PROVE EndsOrStays(t)
  <2>1. CASE u = t
    BY <2>1, <1>12 DEF Registry!SeedBegins
  <2>2. CASE u # t
    BY <2>2, <1>3, <1>4, <1>12 DEF Registry!SeedBegins
  <2>3. QED  BY <2>1, <2>2
<1>13. ASSUME NEW u \in Threads, Registry!SeedEnds(u)  PROVE EndsOrStays(t)
  <2>1. CASE u = t
    BY <2>1, <1>13 DEF Registry!SeedEnds
  <2>2. CASE u # t
    <3>1. \/ thread' = [thread EXCEPT ![u] = Registry!Idle]
          \/ thread' = [Registry!Overlapped EXCEPT ![u] = Registry!Idle]
      BY <1>13 DEF Registry!SeedEnds
    <3>2. QED  BY <3>1, <2>2, <1>3, <1>4
  <2>3. QED  BY <2>1, <2>2
<1>14. ASSUME NEW u \in Threads, NEW a \in Agents, Registry!CheckAsked(u, a)  PROVE EndsOrStays(t)
  <2>1. CASE u = t
    BY <2>1, <1>14 DEF Registry!CheckAsked
  <2>2. CASE u # t
    BY <2>2, <1>3, <1>14 DEF Registry!CheckAsked
  <2>3. QED  BY <2>1, <2>2
<1>15. ASSUME NEW u \in Threads, Registry!CheckBegins(u)  PROVE EndsOrStays(t)
  <2>1. PICK y : y = thread[u] /\ IsThread(y)
    BY DEF RegistryInv, RegistryTypes
  <2>2. PICK x : x = [y EXCEPT !.op = "compute", !.sig = Registry!Signature(y.agent)]
    OBVIOUS
  <2>3. x.op = "compute"
    BY <2>1, <2>2 DEF IsThread
  <2>4. thread = [v \in Threads |-> thread[v]]
    BY DEF RegistryInv, RegistryTypes
  <2>5. thread' = [thread EXCEPT ![u] = x]
    BY <2>1, <2>2, <2>4, <1>15 DEF Registry!CheckBegins
  <2>6. thread'[u] = x
    BY <2>4, <2>5
  <2>7. QED  BY <2>3, <2>5, <2>6, <1>3
<1>16. ASSUME NEW u \in Threads, Registry!CheckServed(u) \/ Registry!CheckEnds(u)  PROVE EndsOrStays(t)
  <2>1. CASE u = t
    BY <2>1, <1>16 DEF Registry!CheckEnds
  <2>2. CASE u # t
    BY <2>2, <1>3, <1>16 DEF Registry!CheckServed, Registry!CheckEnds
  <2>3. QED  BY <2>1, <2>2
<1>17. QED  BY <1>5, <1>6, <1>7, <1>8, <1>9, <1>10, <1>11, <1>12, <1>13, <1>14, <1>15, <1>16
            DEF Registry!Next

(* ListingKeepsBinding: a listing that no write overlapped leaves every    *)
(* agent that is not archived bound, in both tables, to the runtime that   *)
(* it was last given.                                                      *)
THEOREM ListingsKeepBindings == ServicesSpec => ListingKeepsBinding
<1>1. RegistryInv /\ [Registry!Next]_(Registry!vars) => Registry!ListingStep
  <2> SUFFICES ASSUME RegistryInv, [Registry!Next]_(Registry!vars), NEW t \in Threads,
                      thread[t].op = "list", thread'[t].op = "idle", ~thread[t].late,
                      NEW a \in Agents, profile[a].made, ~profile[a].archived
               PROVE  /\ row'[a] = [made |-> TRUE, runtime |-> chosen[a]]
                      /\ profile'[a].runtime = chosen[a]
    BY DEF Registry!ListingStep
  <2>1. Registry!ListEnds(t)
    BY ThreadsEnd DEF EndsOrStays, Registry!CheckServed
  <2>2. /\ profile' = profile /\ profile[a].runtime = chosen[a]
        /\ thread[t].bots = Registry!Bots
        /\ chosen[a] = NoRuntime => row[a].runtime = NoRuntime
    BY <2>1 DEF Registry!ListEnds, RegistryInv, ListingsAreRead, NeverBound
  <2>3. row'[a] = Registry!Mirrored(Registry!Bots, a)
    BY <2>1, <2>2 DEF Registry!ListEnds
  <2>4. [agent |-> a, runtime |-> profile[a].runtime] \in Registry!Bots
    BY DEF Registry!Bots
  <2>5. \A b \in Registry!Bots : b.agent = a => b.runtime = chosen[a]
    BY <2>2 DEF Registry!Bots
  <2>6. PICK bot \in Registry!Bots : bot.agent = a /\ bot = CHOOSE b \in Registry!Bots : b.agent = a
    BY <2>4
  <2>7. bot.runtime = chosen[a]
    BY <2>5, <2>6
  <2>8. PICK rt : rt = IF bot.runtime = NoRuntime THEN row[a].runtime ELSE bot.runtime
    OBVIOUS
  <2>9. row'[a] = [made |-> TRUE, runtime |-> rt]
    BY <2>3, <2>6, <2>8, Zenon DEF Registry!Mirrored
  <2>10. rt = chosen[a]
    BY <2>2, <2>7, <2>8
  <2>11. QED  BY <2>2, <2>9, <2>10
<1> DEFINE Inv == part = "agents" => RegistryInv
<1>2. ServicesInit => Inv
  BY RegistryMoves, RegistryStarts
<1>3. Inv /\ [ServicesNext]_servicesVars => Inv'
  BY RegistryMoves, RegistryNext, ServicesAssumption
<1>4. Inv /\ [ServicesNext]_servicesVars => (part = "agents" => Registry!ListingStep)
  BY <1>1, RegistryMoves
<1>5. Inv /\ [ServicesNext]_servicesVars => [part = "agents" => Registry!ListingStep]_servicesVars
  BY <1>4
<1> HIDE DEF Inv
<1>6. QED  BY <1>2, <1>3, <1>5, PTL DEF ServicesSpec, ListingKeepsBinding

(* ServedChecksAreCurrent: the checks of a run that are served from the    *)
(* cache tell what is true now, except where they were stored under a      *)
(* signature that contradicts them.                                        *)
THEOREM ServedChecksTellTheTruth == ServicesSpec => ServedChecksAreCurrent
<1>1. RegistryInv /\ [Registry!Next]_(Registry!vars) => Registry!ServedStep
  <2> SUFFICES ASSUME RegistryInv, [Registry!Next]_(Registry!vars), NEW t \in Threads,
                      thread[t].op = "check", thread'[t].op = "idle"
               PROVE  \/ cache[thread[t].agent].checks = Registry!Current(thread[t].agent)
                      \/ cache[thread[t].agent].sig # cache[thread[t].agent].checks
    BY DEF Registry!ServedStep
  <2>1. Registry!CheckServed(t)
    BY ThreadsEnd DEF EndsOrStays, Registry!ListEnds
  <2>2. cache[thread[t].agent].sig = Registry!Current(thread[t].agent)
    BY <2>1 DEF Registry!CheckServed, Registry!Signature
  <2>3. QED  BY <2>2
<1> DEFINE Inv == part = "agents" => RegistryInv
<1>2. ServicesInit => Inv
  BY RegistryMoves, RegistryStarts
<1>3. Inv /\ [ServicesNext]_servicesVars => Inv'
  BY RegistryMoves, RegistryNext, ServicesAssumption
<1>4. Inv /\ [ServicesNext]_servicesVars => (part = "agents" => Registry!ServedStep)
  BY <1>1, RegistryMoves
<1>5. Inv /\ [ServicesNext]_servicesVars => [part = "agents" => Registry!ServedStep]_servicesVars
  BY <1>4
<1> HIDE DEF Inv
<1>6. QED  BY <1>2, <1>3, <1>5, PTL DEF ServicesSpec, ServedChecksAreCurrent

-----------------------------------------------------------------------------
(* Previews.                                                               *)

(* A sequence of rows, each with a key of its own.                         *)
Keyed(s) ==
  /\ \A i \in DOMAIN s : s[i].key \in 1..Len(s)
  /\ \A i, k \in DOMAIN s : s[i].key = s[k].key => i = k

Listed(s) == (\E S : s \in Seq(S)) /\ Keyed(s)

NewestOf(s) == IF s = <<>> THEN Mirror!NoRow ELSE s[Len(s)]

(* What a request has read of the rows rs is a row that is there, and the  *)
(* newest one where it is a listing that no write overlapped.              *)
HasRead(x, rs) ==
  /\ \A b \in Branches : \/ x.row[b] = Mirror!NoRow
                         \/ /\ x.row[b].key # 0
                            /\ \E j \in DOMAIN rs[b] : rs[b][j].key = x.row[b].key
  /\ x.op = "stop" => x.row[x.branch] # Mirror!NoRow
  /\ x.op \in {"list", "told"} /\ ~x.late => \A b \in Branches : x.row[b] = NewestOf(rs[b])

IsRequest(x) ==
  /\ x = [op |-> x.op, branch |-> x.branch, row |-> x.row, found |-> x.found, late |-> x.late]
  /\ x.branch \in Branches /\ x.row = [b \in Branches |-> x.row[b]]

MirrorInv ==
  /\ rows = [b \in Branches |-> rows[b]] /\ \A b \in Branches : Listed(rows[b])
  /\ thread = [t \in Threads |-> thread[t]]
  /\ \A t \in Threads : IsRequest(thread[t]) /\ HasRead(thread[t], rows)

Holds(m, s) == \A j \in DOMAIN s : \E k \in DOMAIN m : m[k].key = s[j].key

LEMMA ListedIs ==
  ASSUME NEW s, Listed(s)
  PROVE  Len(s) \in Nat /\ DOMAIN s = 1..Len(s)
BY LenProperties DEF Listed

(* A row that is written keeps its key and becomes the last one.           *)
LEMMA ListedMoved ==
  ASSUME NEW s, Listed(s), NEW p \in DOMAIN s, NEW r, r.key = s[p].key,
         NEW m, m = Append(RemoveAt(s, p), r)
  PROVE  Listed(m) /\ Len(m) = Len(s) /\ Len(s) \in Nat \ {0} /\ m[Len(s)] = r /\ Holds(m, s)
<1>1. PICK n : n = Len(s)
  OBVIOUS
<1>2. n \in Nat /\ DOMAIN s = 1..n /\ p \in 1..n
  BY <1>1, ListedIs
<1>3. PICK S : s \in Seq(S)
  BY DEF Listed
<1>4. s \in Seq(S \cup {r})
  BY <1>3, SeqMonotonic
<1>5. MovedTo(m, s, p, r) /\ m \in Seq(S \cup {r})
  BY <1>4, Moved
<1>6. /\ Len(m) = n /\ m[n] = r
      /\ \A j \in 1..n - 1 : m[j] = IF j < p THEN s[j] ELSE s[j + 1]
  BY <1>1, <1>5 DEF MovedTo
<1>7. DOMAIN m = 1..n
  BY <1>5, <1>6, LenProperties
<1>8. PICK from : from = Indices(n, p)
  OBVIOUS
<1>9. Permutes(from, n, p)
  BY <1>2, <1>8, IndicesPermuted
<1>10. ASSUME NEW j \in 1..n  PROVE m[j].key = s[from[j]].key /\ from[j] \in 1..n
  <2>1. from[j] \in 1..n
    BY <1>9 DEF Permutes
  <2>2. CASE j = n
    BY <2>1, <2>2, <1>6, <1>9 DEF Permutes
  <2>3. CASE j # n /\ j < p
    <3>1. j \in 1..n - 1
      BY <2>3, <1>2
    <3>2. QED  BY <2>1, <2>3, <3>1, <1>6, <1>9 DEF Permutes
  <2>4. CASE j # n /\ ~(j < p)
    <3>1. j \in 1..n - 1
      BY <2>4, <1>2
    <3>2. m[j] = s[j + 1]
      BY <2>4, <3>1, <1>6
    <3>3. from[j] = j + 1
      BY <2>4, <3>1, <1>9 DEF Permutes
    <3>4. QED  BY <2>1, <3>2, <3>3
  <2>5. QED  BY <2>2, <2>3, <2>4
<1>11. Keyed(m)
  <2>1. ASSUME NEW j \in 1..n  PROVE m[j].key \in 1..n
    BY <1>1, <1>2, <1>10 DEF Listed, Keyed
  <2>2. ASSUME NEW i \in 1..n, NEW k \in 1..n, m[i].key = m[k].key  PROVE i = k
    <3>1. PICK u, v : u = from[i] /\ v = from[k]
      OBVIOUS
    <3>2. u \in 1..n /\ v \in 1..n /\ s[u].key = s[v].key
      BY <2>2, <3>1, <1>10
    <3>3. u = v
      BY <3>2, <1>2 DEF Listed, Keyed
    <3>4. QED  BY <3>1, <3>3, <1>9 DEF Permutes
  <2>3. QED  BY <2>1, <2>2, <1>6, <1>7 DEF Keyed
<1>12. Holds(m, s)
  <2> SUFFICES ASSUME NEW j \in 1..n  PROVE \E k \in 1..n : m[k].key = s[j].key
    BY <1>2, <1>7 DEF Holds
  <2>1. PICK k \in 1..n : from[k] = j
    BY <1>9 DEF Permutes
  <2>2. QED  BY <2>1, <1>10
<1>13. n \in Nat \ {0}
  BY <1>2
<1>14. QED  BY <1>1, <1>5, <1>6, <1>11, <1>12, <1>13 DEF Listed

(* A row that is added gets the next key.                                  *)
LEMMA ListedAdded ==
  ASSUME NEW s, Listed(s), NEW r, r.key = Len(s) + 1, NEW m, m = Append(s, r)
  PROVE  Listed(m) /\ Len(m) = Len(s) + 1 /\ Len(s) \in Nat /\ m[Len(s) + 1] = r /\ Holds(m, s)
<1>1. PICK n : n = Len(s)
  OBVIOUS
<1>2. n \in Nat /\ DOMAIN s = 1..n
  BY <1>1, ListedIs
<1>3. PICK S : s \in Seq(S)
  BY DEF Listed
<1>4. PICK T : T = S \cup {r}
  OBVIOUS
<1>5. s \in Seq(T) /\ r \in T
  BY <1>3, <1>4, SeqMonotonic
<1>6. m \in Seq(T) /\ Len(m) = n + 1 /\ m[n + 1] = r /\ \A j \in 1..n : m[j] = s[j]
  BY <1>1, <1>2, <1>5
<1>7. DOMAIN m = 1..n + 1
  BY <1>6, LenProperties
<1>8. \A j \in 1..n : s[j].key \in 1..n
  BY <1>1, <1>2 DEF Listed, Keyed
<1>9. Keyed(m)
  <2>1. ASSUME NEW j \in 1..n + 1  PROVE m[j].key \in 1..n + 1
    <3>1. CASE j = n + 1
      BY <3>1, <1>1, <1>2, <1>6
    <3>2. CASE j \in 1..n
      <4>1. m[j].key \in 1..n
        BY <3>2, <1>6, <1>8
      <4>2. QED  BY <4>1, <1>2
    <3>3. QED  BY <3>1, <3>2, <1>2
  <2>2. ASSUME NEW i \in 1..n + 1, NEW k \in 1..n + 1, m[i].key = m[k].key  PROVE i = k
    <3>1. CASE i \in 1..n /\ k \in 1..n
      BY <2>2, <3>1, <1>2, <1>6 DEF Listed, Keyed
    <3>2. CASE i = n + 1 /\ k \in 1..n
      <4>1. m[k].key \in 1..n /\ m[i].key = n + 1
        BY <3>2, <1>1, <1>6, <1>8
      <4>2. QED  BY <4>1, <2>2, <1>2
    <3>3. CASE i \in 1..n /\ k = n + 1
      <4>1. m[i].key \in 1..n /\ m[k].key = n + 1
        BY <3>3, <1>1, <1>6, <1>8
      <4>2. QED  BY <4>1, <2>2, <1>2
    <3>4. QED  BY <3>1, <3>2, <3>3, <1>2
  <2>3. QED  BY <2>1, <2>2, <1>6, <1>7 DEF Keyed
<1>10. Holds(m, s)
  <2>1. \A j \in 1..n : j \in 1..n + 1
    BY <1>2
  <2>2. QED  BY <2>1, <1>2, <1>6, <1>7 DEF Holds
<1>11. QED  BY <1>1, <1>2, <1>6, <1>9, <1>10 DEF Listed

LEMMA CreatedRow ==
  ASSUME NEW b \in Branches, Listed(rows[b]), NEW id, NEW status,
         NEW m, m = Mirror!Created(b, id, status)
  PROVE  /\ Listed(m) /\ Holds(m, rows[b]) /\ Len(m) \in Nat \ {0}
         /\ m[Len(m)].id = id /\ m[Len(m)].status = status
<1>1. PICK r : r = [key |-> Len(rows[b]) + 1, id |-> id, status |-> status]
  OBVIOUS
<1>2. r.key = Len(rows[b]) + 1 /\ r.id = id /\ r.status = status
  BY <1>1
<1>3. PICK s : s = rows[b]
  OBVIOUS
<1>4. m = Append(s, r)
  BY <1>1, <1>3 DEF Mirror!Created
<1>5. Listed(s) /\ r.key = Len(s) + 1
  BY <1>2, <1>3
<1>6. Listed(m) /\ Len(m) = Len(s) + 1 /\ Len(s) \in Nat /\ m[Len(s) + 1] = r /\ Holds(m, s)
  BY <1>4, <1>5, ListedAdded
<1>7. QED  BY <1>2, <1>3, <1>6

(* m is s with what changed written to the row at p.                       *)
WrittenTo(m, s, p, old, id, status) ==
  /\ Listed(m) /\ Holds(m, s) /\ Len(m) \in Nat \ {0}
  /\ m[Len(m)].id = (IF id = old.id THEN s[p].id ELSE id)
  /\ m[Len(m)].status = (IF status = old.status THEN s[p].status ELSE status)

LEMMA UpdatedRow ==
  ASSUME NEW b \in Branches, Listed(rows[b]), NEW p \in DOMAIN rows[b],
         NEW key, rows[b][p].key = key, NEW old, NEW id, NEW status,
         NEW m, m = Mirror!Updated(b, key, old, id, status)
  PROVE  WrittenTo(m, rows[b], p, old, id, status)
<1> DEFINE i == CHOOSE j \in DOMAIN rows[b] : rows[b][j].key = key
<1>1. m = Append(Mirror!RemoveAt(rows[b], i),
                 [key |-> key,
                  id     |-> IF id = old.id THEN rows[b][i].id ELSE id,
                  status |-> IF status = old.status THEN rows[b][i].status ELSE status])
  BY DEF Mirror!Updated
<1>2. i \in DOMAIN rows[b] /\ rows[b][i].key = key
  OBVIOUS
<1> HIDE DEF i
<1>3. PICK s : s = rows[b]
  OBVIOUS
<1>4. i = p
  <2>1. PICK j : j = i
    OBVIOUS
  <2>2. j \in DOMAIN s /\ s[j].key = key /\ p \in DOMAIN s /\ s[p].key = key
    BY <1>2, <1>3, <2>1
  <2>3. QED  BY <2>1, <2>2, <1>3 DEF Listed, Keyed
<1>5. PICK nid, nst : /\ nid = (IF id = old.id THEN s[p].id ELSE id)
                      /\ nst = (IF status = old.status THEN s[p].status ELSE status)
  OBVIOUS
<1>6. PICK r : r = [key |-> key, id |-> nid, status |-> nst]
  OBVIOUS
<1>7. r.key = key /\ s[p].key = key /\ r.id = nid /\ r.status = nst
  BY <1>3, <1>6
<1>8. m = Append(Mirror!RemoveAt(s, p), r)
  BY <1>1, <1>3, <1>4, <1>5, <1>6
<1>9. m = Append(RemoveAt(s, p), r) /\ Listed(s) /\ p \in DOMAIN s
  BY <1>3, <1>8 DEF Mirror!RemoveAt, RemoveAt
<1>10. Listed(m) /\ Len(m) = Len(s) /\ Len(s) \in Nat \ {0} /\ m[Len(s)] = r /\ Holds(m, s)
  BY <1>7, <1>9, ListedMoved
<1>11. QED  BY <1>3, <1>5, <1>7, <1>10 DEF WrittenTo

LEMMA NewestIs ==
  ASSUME NEW s, Listed(s), s # <<>>
  PROVE  Len(s) \in DOMAIN s /\ NewestOf(s) = s[Len(s)] /\ s[Len(s)].key # 0
<1>1. PICK S : s \in Seq(S)
  BY DEF Listed
<1>2. Len(s) \in Nat /\ DOMAIN s = 1..Len(s)
  BY ListedIs
<1>3. Len(s) # 0
  BY <1>1, EmptySeq
<1>4. Len(s) \in DOMAIN s
  BY <1>2, <1>3
<1>5. PICK n, k : n = Len(s) /\ k = s[n].key
  OBVIOUS
<1>6. k \in 1..n /\ n \in Nat
  BY <1>2, <1>4, <1>5 DEF Listed, Keyed
<1>7. k # 0
  BY <1>6
<1>8. QED  BY <1>4, <1>5, <1>7 DEF NewestOf

LEMMA IdleRequestIs ==
  ASSUME Mirror!PreviewsAssumption, NEW rs
  PROVE  /\ IsRequest(Mirror!Idle) /\ HasRead(Mirror!Idle, rs)
         /\ Mirror!Idle.op = "idle" /\ ~Mirror!Idle.late
         /\ Mirror!Idle.row = [b \in Branches |-> Mirror!NoRow]
BY DEF Mirror!PreviewsAssumption, Mirror!Idle, IsRequest, HasRead

LEMMA MirrorStarts ==
  ASSUME Mirror!PreviewsAssumption, Mirror!Init
  PROVE  MirrorInv
<1>1. PICK e : e = << >>
  OBVIOUS
<1>2. Listed(e)
  <2>1. e \in Seq({}) /\ Len(e) = 0
    BY <1>1
  <2>2. DOMAIN e = {}
    BY <2>1, LenProperties
  <2>3. QED  BY <2>1, <2>2 DEF Listed, Keyed
<1>3. rows = [b \in Branches |-> e] /\ thread = [t \in Threads |-> Mirror!Idle]
  BY <1>1 DEF Mirror!Init
<1>4. \A t \in Threads : IsRequest(thread[t]) /\ HasRead(thread[t], rows)
  BY <1>3, IdleRequestIs
<1>5. QED  BY <1>2, <1>3, <1>4 DEF MirrorInv

(* The others wrote: what was read is still there, but no longer new.      *)
LEMMA OverlapKeeps ==
  ASSUME NEW rs, NEW ns, \A b \in Branches : Holds(ns[b], rs[b]),
         NEW x, IsRequest(x), HasRead(x, rs), NEW y, y = [x EXCEPT !.late = x.op # "idle"]
  PROVE  IsRequest(y) /\ HasRead(y, ns) /\ y.op = x.op
<1>1. PICK e : e = (x.op # "idle")
  OBVIOUS
<1>2. y = [op |-> x.op, branch |-> x.branch, row |-> x.row, found |-> x.found, late |-> e]
  <2>1. y = [x EXCEPT !.late = e]
    BY <1>1, Zenon
  <2>2. QED  BY <2>1 DEF IsRequest
<1>3. /\ y.op = x.op /\ y.branch = x.branch /\ y.row = x.row /\ y.found = x.found
      /\ y.late = e
  BY <1>2
<1>4. IsRequest(y)
  BY <1>2, <1>3 DEF IsRequest
<1>5. ASSUME NEW b \in Branches, x.row[b] # Mirror!NoRow
      PROVE  x.row[b].key # 0 /\ \E k \in DOMAIN ns[b] : ns[b][k].key = x.row[b].key
  <2>1. x.row[b].key # 0 /\ \E j \in DOMAIN rs[b] : rs[b][j].key = x.row[b].key
    BY <1>5 DEF HasRead
  <2>2. PICK j \in DOMAIN rs[b] : rs[b][j].key = x.row[b].key
    BY <2>1
  <2>3. PICK k \in DOMAIN ns[b] : ns[b][k].key = rs[b][j].key
    BY DEF Holds
  <2>4. QED  BY <2>1, <2>2, <2>3
<1>6. x.op \in {"list", "told"} => y.late
  BY <1>1, <1>3
<1>7. x.op = "stop" => x.row[x.branch] # Mirror!NoRow
  BY DEF HasRead
<1>8. HasRead(y, ns)
  BY <1>3, <1>5, <1>6, <1>7 DEF HasRead
<1>9. QED  BY <1>3, <1>4, <1>8

(* One request goes on, and no row is written.                             *)
LEMMA RequestMoves ==
  ASSUME MirrorInv, UNCHANGED rows, NEW t \in Threads, NEW x, IsRequest(x), HasRead(x, rows),
         thread' = [thread EXCEPT ![t] = x]
  PROVE  MirrorInv'
<1>1. thread' = [u \in Threads |-> IF u = t THEN x ELSE thread[u]]
  BY DEF MirrorInv
<1>2. \A u \in Threads : IsRequest(thread'[u]) /\ HasRead(thread'[u], rows)
  BY <1>1 DEF MirrorInv
<1>3. QED  BY <1>1, <1>2 DEF MirrorInv

(* One request writes and is over.                                         *)
LEMMA RequestWrites ==
  ASSUME Mirror!PreviewsAssumption, MirrorInv, NEW t \in Threads,
         rows' = [b \in Branches |-> rows'[b]],
         \A b \in Branches : Listed(rows'[b]) /\ Holds(rows'[b], rows[b]),
         thread' = Mirror!Done(t)
  PROVE  MirrorInv' /\ \A u \in Threads \ {t} : thread'[u].op = thread[u].op
<1>1. PICK rs, ns : rs = rows /\ ns = rows'
  OBVIOUS
<1>2. \A b \in Branches : Holds(ns[b], rs[b])
  BY <1>1
<1>3. ASSUME NEW u \in Threads \ {t}
      PROVE  IsRequest(thread'[u]) /\ HasRead(thread'[u], ns) /\ thread'[u].op = thread[u].op
  <2>1. PICK x, y : x = thread[u] /\ y = thread'[u]
    OBVIOUS
  <2>2. y = [x EXCEPT !.late = x.op # "idle"]
    BY <2>1, <1>3, Zenon DEF Mirror!Done
  <2>3. IsRequest(x) /\ HasRead(x, rs)
    BY <2>1, <1>1 DEF MirrorInv
  <2>4. IsRequest(y) /\ HasRead(y, ns) /\ y.op = x.op
    BY <2>2, <2>3, <1>2, OverlapKeeps
  <2>5. QED  BY <2>1, <2>4
<1>4. thread'[t] = Mirror!Idle
  BY DEF Mirror!Done
<1>5. IsRequest(thread'[t]) /\ HasRead(thread'[t], ns)
  BY <1>4, IdleRequestIs
<1>6. thread' = [u \in Threads |-> thread'[u]]
  BY DEF Mirror!Done
<1>7. QED  BY <1>1, <1>3, <1>5, <1>6 DEF MirrorInv

LEMMA HoldsItself ==
  ASSUME NEW s
  PROVE  Holds(s, s)
BY DEF Holds

(* What ListingStep asks of a branch: m are its rows after the listing,    *)
(* s those before, and f is what Railway told.                             *)
Shows(m, s, f) ==
  IF f.id # 0 THEN m[Len(m)].id = f.id /\ m[Len(m)].status = f.status
  ELSE m # s => m[Len(m)].status = build[m[Len(m)].id].status

LEMMA SyncedRow ==
  ASSUME MirrorInv, NEW t \in Threads, NEW b \in Branches, NEW answered, thread[t].op = "told",
         NEW m, m = Mirror!Synced(t, b, answered)
  PROVE  /\ Listed(m) /\ Holds(m, rows[b])
         /\ ~thread[t].late => Shows(m, rows[b], thread[t].found[b])
<1>1. PICK s, r, f : s = rows[b] /\ r = thread[t].row[b] /\ f = thread[t].found[b]
  OBVIOUS
<1>2. Listed(s) /\ Holds(s, s)
  BY <1>1, HoldsItself DEF MirrorInv
<1>3. r = Mirror!NoRow \/ (\E j \in DOMAIN s : s[j].key = r.key)
  BY <1>1 DEF MirrorInv, HasRead
<1>4. ASSUME ~thread[t].late, r.id # 0
      PROVE  Len(s) \in DOMAIN s /\ r = s[Len(s)]
  <2>1. r = NewestOf(s)
    BY <1>1, <1>4 DEF MirrorInv, HasRead
  <2>2. s # <<>>
    BY <1>4, <2>1 DEF NewestOf, Mirror!NoRow
  <2>3. QED  BY <1>2, <2>1, <2>2, NewestIs
<1>5. ASSUME NEW p \in DOMAIN s, s[p].key = r.key, NEW id, NEW status,
             m = Mirror!Updated(b, r.key, r, id, status)
      PROVE  WrittenTo(m, s, p, r, id, status)
  <2>1. p \in DOMAIN rows[b] /\ Listed(rows[b]) /\ rows[b][p].key = r.key
    BY <1>1, <1>2, <1>5
  <2>2. WrittenTo(m, rows[b], p, r, id, status)
    BY <1>5, <2>1, UpdatedRow
  <2>3. QED  BY <1>1, <2>2
<1>6. CASE f.id # 0
  <2>1. m = Mirror!Recorded(b, r, f)
    BY <1>1, <1>6 DEF Mirror!Synced
  <2>2. CASE f.id # r.id
    <3>1. m = Mirror!Created(b, f.id, f.status)
      BY <2>1, <2>2 DEF Mirror!Recorded
    <3>2. /\ Listed(m) /\ Holds(m, s) /\ m[Len(m)].id = f.id /\ m[Len(m)].status = f.status
      <4>1. PICK id, status : id = f.id /\ status = f.status
        OBVIOUS
      <4>2. Listed(rows[b]) /\ m = Mirror!Created(b, id, status)
        BY <1>1, <1>2, <3>1, <4>1
      <4>3. /\ Listed(m) /\ Holds(m, rows[b])
            /\ m[Len(m)].id = id /\ m[Len(m)].status = status
        BY <4>2, CreatedRow
      <4>4. QED  BY <1>1, <4>1, <4>3
    <3>3. QED  BY <1>1, <1>6, <3>2 DEF Shows
  <2>3. CASE f.id = r.id /\ f.status # r.status
    <3>1. m = Mirror!Updated(b, r.key, r, f.id, f.status)
      BY <2>1, <2>3 DEF Mirror!Recorded
    <3>2. r # Mirror!NoRow
      BY <1>6, <2>3 DEF Mirror!NoRow
    <3>3. PICK j \in DOMAIN s : s[j].key = r.key
      BY <1>3, <3>2
    <3>4. Listed(m) /\ Holds(m, s) /\ m[Len(m)].status = f.status
      BY <3>1, <3>3, <1>5, <2>3 DEF WrittenTo
    <3>5. ASSUME ~thread[t].late  PROVE m[Len(m)].id = f.id
      <4>1. Len(s) \in DOMAIN s /\ r = s[Len(s)]
        BY <3>5, <1>4, <1>6, <2>3
      <4>2. PICK p : p = Len(s)
        OBVIOUS
      <4>3. p \in DOMAIN s /\ s[p].key = r.key /\ s[p].id = f.id
        BY <4>1, <4>2, <2>3
      <4>4. m[Len(m)].id = (IF f.id = r.id THEN s[p].id ELSE f.id)
        BY <3>1, <4>3, <1>5 DEF WrittenTo
      <4>5. QED  BY <4>3, <4>4
    <3>6. QED  BY <1>1, <1>6, <3>4, <3>5 DEF Shows
  <2>4. CASE f.id = r.id /\ f.status = r.status
    <3>1. m = s
      BY <1>1, <2>1, <2>4 DEF Mirror!Recorded
    <3>2. ASSUME ~thread[t].late  PROVE m[Len(m)].id = f.id /\ m[Len(m)].status = f.status
      BY <3>1, <3>2, <1>4, <1>6, <2>4
    <3>3. QED  BY <1>1, <1>2, <1>6, <3>1, <3>2 DEF Shows
  <2>5. QED  BY <2>2, <2>3, <2>4
<1>7. CASE f.id = 0
  <2>1. m = Mirror!Observed(b, r, answered)
    BY <1>1, <1>7 DEF Mirror!Synced
  <2>2. CASE /\ r.status = "building" /\ r.id # 0 /\ answered
             /\ build[r.id].status # r.status
    <3>1. m = Mirror!Updated(b, r.key, r, r.id, build[r.id].status)
      BY <2>1, <2>2 DEF Mirror!Observed
    <3>2. r # Mirror!NoRow
      BY <2>2 DEF Mirror!NoRow
    <3>3. PICK j \in DOMAIN s : s[j].key = r.key
      BY <1>3, <3>2
    <3>4. Listed(m) /\ Holds(m, s) /\ m[Len(m)].status = build[r.id].status
      BY <3>1, <3>3, <1>5, <2>2 DEF WrittenTo
    <3>5. ASSUME ~thread[t].late  PROVE m[Len(m)].id = r.id
      <4>1. Len(s) \in DOMAIN s /\ r = s[Len(s)]
        BY <3>5, <1>4, <2>2
      <4>2. PICK p : p = Len(s)
        OBVIOUS
      <4>3. p \in DOMAIN s /\ s[p].key = r.key /\ s[p].id = r.id
        BY <4>1, <4>2
      <4>4. m[Len(m)].id = (IF r.id = r.id THEN s[p].id ELSE r.id)
        BY <3>1, <4>3, <1>5 DEF WrittenTo
      <4>5. QED  BY <4>3, <4>4
    <3>6. QED  BY <1>1, <1>7, <3>4, <3>5 DEF Shows
  <2>3. CASE ~(/\ r.status = "building" /\ r.id # 0 /\ answered
               /\ build[r.id].status # r.status)
    <3>1. m = s
      BY <1>1, <2>1, <2>3 DEF Mirror!Observed, Mirror!Unanswered
    <3>2. QED  BY <1>1, <1>2, <1>7, <3>1 DEF Shows
  <2>4. QED  BY <2>2, <2>3
<1>8. QED  BY <1>6, <1>7

LEMMA SyncsRows ==
  ASSUME Mirror!PreviewsAssumption, MirrorInv, NEW t \in Threads, Mirror!Syncs(t)
  PROVE  /\ MirrorInv' /\ \A u \in Threads \ {t} : thread'[u].op = thread[u].op
         /\ ~thread[t].late => \A b \in Branches : Shows(rows'[b], rows[b], thread[t].found[b])
<1>1. PICK answered \in BOOLEAN : rows' = [b \in Branches |-> Mirror!Synced(t, b, answered)]
  BY DEF Mirror!Syncs
<1>2. ASSUME NEW b \in Branches
      PROVE  /\ Listed(rows'[b]) /\ Holds(rows'[b], rows[b])
             /\ ~thread[t].late => Shows(rows'[b], rows[b], thread[t].found[b])
  <2>1. PICK m : m = Mirror!Synced(t, b, answered)
    OBVIOUS
  <2>2. rows'[b] = m
    BY <1>1, <2>1
  <2>3. /\ Listed(m) /\ Holds(m, rows[b])
        /\ ~thread[t].late => Shows(m, rows[b], thread[t].found[b])
    BY <2>1, SyncedRow DEF Mirror!Syncs
  <2>4. QED  BY <2>2, <2>3
<1>3. CASE rows' = rows
  <2>1. thread' = [thread EXCEPT ![t] = Mirror!Idle]
    BY <1>3 DEF Mirror!Syncs
  <2>2. MirrorInv'
    BY <1>3, <2>1, IdleRequestIs, RequestMoves
  <2>3. QED  BY <1>2, <2>1, <2>2 DEF MirrorInv
<1>4. CASE rows' # rows
  <2>1. thread' = Mirror!Done(t) /\ rows' = [b \in Branches |-> rows'[b]]
    BY <1>1, <1>4 DEF Mirror!Syncs
  <2>2. MirrorInv' /\ \A u \in Threads \ {t} : thread'[u].op = thread[u].op
    BY <1>2, <2>1, RequestWrites
  <2>3. QED  BY <1>2, <2>2
<1>5. QED  BY <1>3, <1>4

(* A request that took a row: to redeploy it or to stop it.                *)
LEMMA RequestTakes ==
  ASSUME Mirror!PreviewsAssumption, MirrorInv, UNCHANGED rows, NEW t \in Threads,
         NEW b \in Branches, NEW op \in {"deploy", "stop"},
         \E j \in DOMAIN rows[b] :
           thread' = [thread EXCEPT ![t] =
             [Mirror!Idle EXCEPT !.op = op, !.branch = b, !.row[b] = rows[b][j]]]
  PROVE  MirrorInv' /\ \A u \in Threads \ {t} : thread'[u].op = thread[u].op
<1>1. PICK j \in DOMAIN rows[b] :
           thread' = [thread EXCEPT ![t] =
             [Mirror!Idle EXCEPT !.op = op, !.branch = b, !.row[b] = rows[b][j]]]
  OBVIOUS
<1>2. PICK r, s : r = rows[b][j] /\ s = rows[b]
  OBVIOUS
<1>3. PICK x : x = [Mirror!Idle EXCEPT !.op = op, !.branch = b, !.row[b] = r]
  OBVIOUS
<1>4. /\ x = [op |-> x.op, branch |-> x.branch, row |-> x.row, found |-> x.found, late |-> x.late]
      /\ x.op = op /\ x.branch = b /\ x.row = [c \in Branches |-> IF c = b THEN r ELSE Mirror!NoRow]
  BY <1>3 DEF Mirror!Idle
<1>5. r.key # 0 /\ r # Mirror!NoRow
  <2>1. Listed(s) /\ j \in DOMAIN s
    BY <1>2 DEF MirrorInv
  <2>2. PICK n, k : n = Len(s) /\ k = r.key
    OBVIOUS
  <2>3. n \in Nat /\ k \in 1..n
    BY <1>2, <2>1, <2>2, ListedIs DEF Listed, Keyed
  <2>4. r.key # 0
    BY <2>2, <2>3
  <2>5. QED  BY <2>4 DEF Mirror!NoRow
<1>6. IsRequest(x)
  BY <1>4 DEF IsRequest
<1>7. HasRead(x, rows)
  BY <1>2, <1>4, <1>5 DEF HasRead
<1>8. thread' = [thread EXCEPT ![t] = x]
  BY <1>1, <1>2, <1>3, Zenon
<1>9. QED  BY <1>6, <1>7, <1>8, RequestMoves DEF MirrorInv

LEMMA CreatePromises ==
  ASSUME Mirror!PreviewsAssumption, MirrorInv, NEW t \in Threads, NEW b \in Branches,
         Mirror!Create(t, b)
  PROVE  MirrorInv' /\ \A u \in Threads \ {t} : thread'[u].op = thread[u].op
<1>1. PICK x : x = [Mirror!Idle EXCEPT !.op = "deploy", !.branch = b]
  OBVIOUS
<1>2. /\ x = [op |-> x.op, branch |-> x.branch, row |-> x.row, found |-> x.found, late |-> x.late]
      /\ x.op = "deploy" /\ x.branch = b /\ x.row = [c \in Branches |-> Mirror!NoRow]
  BY <1>1 DEF Mirror!Idle
<1>3. IsRequest(x) /\ HasRead(x, rows)
  BY <1>2 DEF IsRequest, HasRead
<1>4. thread' = [thread EXCEPT ![t] = x] /\ UNCHANGED rows
  BY <1>1 DEF Mirror!Create
<1>5. QED  BY <1>3, <1>4, RequestMoves DEF MirrorInv

LEMMA ListsKeeps ==
  ASSUME Mirror!PreviewsAssumption, MirrorInv, NEW t \in Threads, Mirror!Lists(t)
  PROVE  MirrorInv' /\ \A u \in Threads \ {t} : thread'[u].op = thread[u].op
<1>1. PICK rs : rs = rows
  OBVIOUS
<1>2. PICK x : x = [Mirror!Idle EXCEPT !.op = "list", !.row = [b \in Branches |-> Mirror!Newest(b)]]
  OBVIOUS
<1>3. /\ x = [op |-> x.op, branch |-> x.branch, row |-> x.row, found |-> x.found, late |-> x.late]
      /\ x.op = "list" /\ x.branch = Main /\ x.row = [b \in Branches |-> Mirror!Newest(b)]
  BY <1>2 DEF Mirror!Idle
<1>4. \A b \in Branches : Mirror!Newest(b) = NewestOf(rs[b])
  BY <1>1 DEF Mirror!Newest, Mirror!Last, NewestOf
<1>5. IsRequest(x)
  BY <1>3 DEF IsRequest, Mirror!PreviewsAssumption
<1>6. ASSUME NEW b \in Branches, x.row[b] # Mirror!NoRow
      PROVE  x.row[b].key # 0 /\ \E j \in DOMAIN rs[b] : rs[b][j].key = x.row[b].key
  <2>1. PICK s : s = rs[b]
    OBVIOUS
  <2>2. Listed(s) /\ x.row[b] = NewestOf(s)
    BY <1>1, <1>3, <1>4, <2>1 DEF MirrorInv
  <2>3. s # <<>>
    BY <1>6, <2>2 DEF NewestOf
  <2>4. QED  BY <2>1, <2>2, <2>3, NewestIs
<1>7. HasRead(x, rs)
  BY <1>3, <1>4, <1>6 DEF HasRead
<1>8. thread' = [thread EXCEPT ![t] = x] /\ UNCHANGED rows
  BY <1>2 DEF Mirror!Lists
<1>9. QED  BY <1>1, <1>5, <1>7, <1>8, RequestMoves DEF MirrorInv

(* A request that Railway has answered, or not.                            *)
LEMMA RequestTold ==
  ASSUME MirrorInv, UNCHANGED rows, NEW t \in Threads,
         NEW x, IsRequest(x), x.row = thread[t].row, x.late = thread[t].late,
         x.op # "stop", x.op \in {"list", "told"} => thread[t].op = "list",
         thread' = [thread EXCEPT ![t] = x]
  PROVE  MirrorInv' /\ \A u \in Threads \ {t} : thread'[u].op = thread[u].op
<1>1. PICK rs, y : rs = rows /\ y = thread[t]
  OBVIOUS
<1>2. HasRead(y, rs)
  BY <1>1 DEF MirrorInv
<1>3. HasRead(x, rs)
  BY <1>1, <1>2 DEF HasRead
<1>4. QED  BY <1>1, <1>3, RequestMoves DEF MirrorInv

LEMMA ToldIs ==
  ASSUME MirrorInv, NEW t \in Threads, NEW id, NEW status, Mirror!Told(t, id, status)
  PROVE  \E x : /\ IsRequest(x) /\ x.row = thread[t].row /\ x.late = thread[t].late
                /\ x.op = "commit" /\ thread' = [thread EXCEPT ![t] = x]
<1>1. PICK y : y = thread[t]
  OBVIOUS
<1>2. PICK x : x = [y EXCEPT !.op = "commit", !.found[y.branch] = [id |-> id, status |-> status]]
  OBVIOUS
<1>3. IsRequest(y)
  BY <1>1 DEF MirrorInv
<1>4. PICK z : z = [y EXCEPT !.op = "commit"]
  OBVIOUS
<1>5. z = [op |-> "commit", branch |-> y.branch, row |-> y.row, found |-> y.found, late |-> y.late]
  BY <1>3, <1>4 DEF IsRequest
<1>6. PICK g : g = [z.found EXCEPT ![y.branch] = [id |-> id, status |-> status]]
  OBVIOUS
<1>7. x = [z EXCEPT !.found = g]
  BY <1>2, <1>4, <1>6
<1>8. x = [op |-> "commit", branch |-> y.branch, row |-> y.row, found |-> g, late |-> y.late]
  BY <1>5, <1>7
<1>9. IsRequest(x) /\ x.row = y.row /\ x.late = y.late /\ x.op = "commit"
  BY <1>3, <1>8 DEF IsRequest
<1>10. thread' = [thread EXCEPT ![t] = x]
  BY <1>1, <1>2, Zenon DEF Mirror!Told
<1>11. QED  BY <1>1, <1>9, <1>10

LEMMA DeploysKeeps ==
  ASSUME Mirror!PreviewsAssumption, MirrorInv, NEW t \in Threads, Mirror!Deploys(t)
  PROVE  MirrorInv' /\ \A u \in Threads \ {t} : thread'[u].op = thread[u].op
<1>1. UNCHANGED rows
  BY DEF Mirror!Deploys
<1>2. \/ thread' = [thread EXCEPT ![t] = Mirror!Idle]
      \/ \E id, status : Mirror!Told(t, id, status)
  BY DEF Mirror!Deploys
<1>3. CASE thread' = [thread EXCEPT ![t] = Mirror!Idle]
  BY <1>1, <1>3, IdleRequestIs, RequestMoves DEF MirrorInv
<1>4. CASE \E id, status : Mirror!Told(t, id, status)
  <2>1. PICK x : /\ IsRequest(x) /\ x.row = thread[t].row /\ x.late = thread[t].late
                 /\ x.op = "commit" /\ thread' = [thread EXCEPT ![t] = x]
    BY <1>4, ToldIs
  <2>2. QED  BY <1>1, <2>1, RequestTold
<1>5. QED  BY <1>2, <1>3, <1>4

LEMMA AsksKeeps ==
  ASSUME Mirror!PreviewsAssumption, MirrorInv, NEW t \in Threads, Mirror!AsksPreviews(t)
  PROVE  MirrorInv' /\ \A u \in Threads \ {t} : thread'[u].op = thread[u].op
<1>1. UNCHANGED rows /\ thread[t].op = "list"
  BY DEF Mirror!AsksPreviews
<1>2. PICK y, g : y = thread[t] /\ g = [b \in Branches |-> Mirror!Found(b)]
  OBVIOUS
<1>3. IsRequest(y)
  BY <1>2 DEF MirrorInv
<1>4. PICK z : z = [y EXCEPT !.op = "told"]
  OBVIOUS
<1>5. z = [op |-> "told", branch |-> y.branch, row |-> y.row, found |-> y.found, late |-> y.late]
  BY <1>3, <1>4 DEF IsRequest
<1>6. PICK x : x = [z EXCEPT !.found = g]
  OBVIOUS
<1>7. x = [op |-> "told", branch |-> y.branch, row |-> y.row, found |-> g, late |-> y.late]
  BY <1>5, <1>6
<1>8. thread' = [thread EXCEPT ![t] = z] \/ thread' = [thread EXCEPT ![t] = x]
  BY <1>2, <1>4, <1>6 DEF Mirror!AsksPreviews, MirrorInv
<1>9. IsRequest(z) /\ z.row = y.row /\ z.late = y.late /\ z.op = "told"
  BY <1>3, <1>5 DEF IsRequest
<1>10. IsRequest(x) /\ x.row = y.row /\ x.late = y.late /\ x.op = "told"
  BY <1>3, <1>7 DEF IsRequest
<1>11. QED  BY <1>1, <1>2, <1>8, <1>9, <1>10, RequestTold

(* One branch's rows are rewritten.                                        *)
LEMMA BranchWritten ==
  ASSUME Mirror!PreviewsAssumption, MirrorInv, NEW t \in Threads, NEW b \in Branches,
         NEW m, Listed(m), Holds(m, rows[b]), rows' = [rows EXCEPT ![b] = m],
         thread' = Mirror!Done(t)
  PROVE  MirrorInv' /\ \A u \in Threads \ {t} : thread'[u].op = thread[u].op
<1>1. rows' = [c \in Branches |-> IF c = b THEN m ELSE rows[c]]
  BY DEF MirrorInv
<1>2. \A c \in Branches : Listed(rows'[c]) /\ Holds(rows'[c], rows[c])
  BY <1>1, HoldsItself DEF MirrorInv
<1>3. rows' = [c \in Branches |-> rows'[c]]
  BY <1>1
<1>4. QED  BY <1>2, <1>3, RequestWrites

LEMMA TakenRow ==
  ASSUME MirrorInv, NEW t \in Threads, NEW b \in Branches, NEW r, r = thread[t].row[b],
         r # Mirror!NoRow, NEW id, NEW status, NEW m, m = Mirror!Updated(b, r.key, r, id, status)
  PROVE  Listed(m) /\ Holds(m, rows[b])
<1>1. PICK p \in DOMAIN rows[b] : rows[b][p].key = r.key
  BY DEF MirrorInv, HasRead
<1>2. Listed(rows[b])
  BY DEF MirrorInv
<1>3. WrittenTo(m, rows[b], p, r, id, status)
  BY <1>1, <1>2, UpdatedRow
<1>4. QED  BY <1>3 DEF WrittenTo

LEMMA CommitsKeeps ==
  ASSUME Mirror!PreviewsAssumption, MirrorInv, NEW t \in Threads, Mirror!Commits(t)
  PROVE  MirrorInv' /\ \A u \in Threads \ {t} : thread'[u].op = thread[u].op
<1>1. PICK b, f, r : b = thread[t].branch /\ f = thread[t].found[b] /\ r = thread[t].row[b]
  OBVIOUS
<1>2. b \in Branches
  BY <1>1 DEF MirrorInv, IsRequest
<1>3. CASE r.key = 0
  <2>1. PICK m : m = Mirror!Created(b, f.id, f.status)
    OBVIOUS
  <2>2. Listed(m) /\ Holds(m, rows[b])
    BY <1>2, <2>1, CreatedRow DEF MirrorInv
  <2>3. rows' = [rows EXCEPT ![b] = m] /\ thread' = Mirror!Done(t)
    BY <1>1, <1>3, <2>1 DEF Mirror!Commits
  <2>4. QED  BY <1>2, <2>2, <2>3, BranchWritten
<1>4. CASE r.key # 0
  <2>1. PICK m : m = Mirror!Updated(b, r.key, r, f.id, f.status)
    OBVIOUS
  <2>2. r # Mirror!NoRow
    BY <1>4 DEF Mirror!NoRow
  <2>3. Listed(m) /\ Holds(m, rows[b])
    BY <1>1, <1>2, <2>1, <2>2, TakenRow
  <2>4. rows' = [rows EXCEPT ![b] = m] /\ thread' = Mirror!Done(t)
    BY <1>1, <1>4, <2>1 DEF Mirror!Commits
  <2>5. QED  BY <1>2, <2>3, <2>4, BranchWritten
<1>5. QED  BY <1>3, <1>4

LEMMA StopsKeeps ==
  ASSUME Mirror!PreviewsAssumption, MirrorInv, NEW t \in Threads, Mirror!Stops(t)
  PROVE  MirrorInv' /\ \A u \in Threads \ {t} : thread'[u].op = thread[u].op
<1>1. PICK b, r : b = thread[t].branch /\ r = thread[t].row[b]
  OBVIOUS
<1>2. b \in Branches
  BY <1>1 DEF MirrorInv, IsRequest
<1>3. thread' = Mirror!Done(t)
  BY DEF Mirror!Stops
<1>4. CASE r.status = "stopped"
  <2>1. rows' = rows
    BY <1>1, <1>4 DEF Mirror!Stops
  <2>2. \A c \in Branches : Listed(rows'[c]) /\ Holds(rows'[c], rows[c])
    BY <2>1, HoldsItself DEF MirrorInv
  <2>3. rows' = [c \in Branches |-> rows'[c]]
    BY <2>1 DEF MirrorInv
  <2>4. QED  BY <1>3, <2>2, <2>3, RequestWrites
<1>5. CASE r.status # "stopped"
  <2>1. PICK m : m = Mirror!Updated(b, r.key, r, r.id, "stopped")
    OBVIOUS
  <2>2. r # Mirror!NoRow
    BY <1>5 DEF Mirror!NoRow
  <2>3. Listed(m) /\ Holds(m, rows[b])
    BY <1>1, <1>2, <2>1, <2>2, TakenRow
  <2>4. rows' = [rows EXCEPT ![b] = m]
    BY <1>1, <1>5, <2>1 DEF Mirror!Stops
  <2>5. QED  BY <1>2, <1>3, <2>3, <2>4, BranchWritten
<1>6. QED  BY <1>4, <1>5

(* A request that is not a listing, or that Railway has yet to answer.     *)
Quiet(t) ==
  /\ MirrorInv' /\ thread[t].op # "told"
  /\ \A u \in Threads \ {t} : thread'[u].op = thread[u].op

LEMMA QuietStep ==
  ASSUME NEW t \in Threads, Quiet(t)
  PROVE  Mirror!ListingStep
<1> SUFFICES ASSUME NEW u \in Threads, thread[u].op = "told", thread'[u].op = "idle"
             PROVE  FALSE
  BY DEF Mirror!ListingStep
<1>1. CASE u = t
  BY <1>1 DEF Quiet
<1>2. CASE u # t
  BY <1>2 DEF Quiet
<1>3. QED  BY <1>1, <1>2

LEMMA MirrorStep ==
  ASSUME Mirror!PreviewsAssumption, MirrorInv, [Mirror!Next]_(Mirror!vars)
  PROVE  MirrorInv' /\ Mirror!ListingStep
<1>1. CASE UNCHANGED <<rows, thread>>
  <2>1. MirrorInv'
    BY <1>1 DEF MirrorInv
  <2>2. Mirror!ListingStep
    BY <1>1 DEF Mirror!ListingStep
  <2>3. QED  BY <2>1, <2>2
<1>2. ASSUME NEW t \in Threads, Quiet(t)  PROVE MirrorInv' /\ Mirror!ListingStep
  BY <1>2, QuietStep DEF Quiet
<1>3. CASE \E b \in Branches : Mirror!Push(b)
  BY <1>1, <1>3 DEF Mirror!Push
<1>4. CASE \E i \in DOMAIN build : Mirror!BuildEnds(i)
  BY <1>1, <1>4 DEF Mirror!BuildEnds
<1>5. ASSUME NEW t \in Threads, Mirror!Deploys(t)  PROVE Quiet(t)
  BY <1>5, DeploysKeeps DEF Quiet, Mirror!Deploys
<1>6. ASSUME NEW t \in Threads, Mirror!Commits(t)  PROVE Quiet(t)
  BY <1>6, CommitsKeeps DEF Quiet, Mirror!Commits
<1>7. ASSUME NEW t \in Threads, Mirror!Stops(t)  PROVE Quiet(t)
  BY <1>7, StopsKeeps DEF Quiet, Mirror!Stops
<1>8. ASSUME NEW t \in Threads, Mirror!Lists(t)  PROVE Quiet(t)
  BY <1>8, ListsKeeps DEF Quiet, Mirror!Lists
<1>9. ASSUME NEW t \in Threads, Mirror!AsksPreviews(t)  PROVE Quiet(t)
  BY <1>9, AsksKeeps DEF Quiet, Mirror!AsksPreviews
<1>10. ASSUME NEW t \in Threads, NEW b \in Branches, Mirror!Create(t, b)  PROVE Quiet(t)
  BY <1>10, CreatePromises DEF Quiet, Mirror!Create
<1>11. ASSUME NEW t \in Threads, NEW b \in Branches, Mirror!Redeploy(t, b)  PROVE Quiet(t)
  <2>1. UNCHANGED rows /\ thread[t].op = "idle"
        /\ \E j \in DOMAIN rows[b] :
             thread' = [thread EXCEPT ![t] =
               [Mirror!Idle EXCEPT !.op = "deploy", !.branch = b, !.row[b] = rows[b][j]]]
    BY <1>11 DEF Mirror!Redeploy
  <2>2. MirrorInv' /\ \A u \in Threads \ {t} : thread'[u].op = thread[u].op
    BY <2>1, RequestTakes
  <2>3. QED  BY <2>1, <2>2 DEF Quiet
<1>12. ASSUME NEW t \in Threads, NEW b \in Branches, Mirror!StopAsked(t, b)  PROVE Quiet(t)
  <2>1. UNCHANGED rows /\ thread[t].op = "idle"
        /\ \E j \in DOMAIN rows[b] :
             thread' = [thread EXCEPT ![t] =
               [Mirror!Idle EXCEPT !.op = "stop", !.branch = b, !.row[b] = rows[b][j]]]
    BY <1>12 DEF Mirror!StopAsked
  <2>2. MirrorInv' /\ \A u \in Threads \ {t} : thread'[u].op = thread[u].op
    BY <2>1, RequestTakes
  <2>3. QED  BY <2>1, <2>2 DEF Quiet
<1>13. ASSUME NEW t \in Threads, Mirror!Syncs(t)  PROVE MirrorInv' /\ Mirror!ListingStep
  <2>1. /\ MirrorInv' /\ \A u \in Threads \ {t} : thread'[u].op = thread[u].op
        /\ ~thread[t].late => \A b \in Branches : Shows(rows'[b], rows[b], thread[t].found[b])
    BY <1>13, SyncsRows
  <2>2. ASSUME NEW u \in Threads, thread[u].op = "told", thread'[u].op = "idle", ~thread[u].late,
               NEW b \in Branches
        PROVE  LET f == thread[u].found[b]
                   r == Mirror!Last(rows'[b])
               IN  IF f.id # 0 THEN r.id = f.id /\ r.status = f.status
                   ELSE rows'[b] # rows[b] => r.status = build[r.id].status
    <3>1. u = t
      BY <2>1, <2>2
    <3>2. Shows(rows'[b], rows[b], thread[u].found[b])
      BY <2>1, <2>2, <3>1
    <3>3. QED  BY <3>2 DEF Shows, Mirror!Last
  <2>3. Mirror!ListingStep
    BY <2>2 DEF Mirror!ListingStep
  <2>4. QED  BY <2>1, <2>3
<1>14. CASE UNCHANGED Mirror!vars
  BY <1>1, <1>14 DEF Mirror!vars
<1>15. QED
  BY <1>2, <1>3, <1>4, <1>5, <1>6, <1>7, <1>8, <1>9, <1>10, <1>11, <1>12, <1>13, <1>14
     DEF Mirror!Next

(* A listing that no write overlapped shows what Railway said              *)
(* (DeployFlow._sync_with_provider), for every number of branches,         *)
(* builds, rows, server threads and faults.                                *)
THEOREM ListingsShowRailway == ServicesSpec => ListingShowsRailway
<1> DEFINE Inv == part = "previews" => MirrorInv
<1>1. ServicesInit => Inv
  BY MirrorMoves, MirrorStarts, ServicesAssumption
<1>2. Inv /\ [ServicesNext]_servicesVars => Inv'
  BY MirrorMoves, MirrorStep, ServicesAssumption
<1>3. Inv /\ [ServicesNext]_servicesVars => [part = "previews" => Mirror!ListingStep]_servicesVars
  BY MirrorMoves, MirrorStep, ServicesAssumption
<1> HIDE DEF Inv
<1>4. QED  BY <1>1, <1>2, <1>3, PTL DEF ServicesSpec, ListingShowsRailway

-----------------------------------------------------------------------------
(* PlanningTurns.                                                          *)

LEMMA NatMin ==
  ASSUME NEW S, S \subseteq Nat, S # {}
  PROVE  \E h \in S : \A k \in S : h <= k
<1> DEFINE R == {ss \in Nat \X Nat : ss[1] < ss[2]}
<1>1. IsWellFoundedOn(R, Nat)
  BY NatLessThanWellFounded DEF OpToRel
<1> HIDE DEF R
<1>2. PICK h \in S : \A k \in S : ~(<<k, h>> \in R)
  BY <1>1, WFMin
<1>3. ASSUME NEW k \in S  PROVE h <= k
  <2>1. ~(k < h)
    BY <1>2 DEF R
  <2>2. QED  BY <2>1
<1>4. QED  BY <1>3

(* What the planning job may yet write in this interval.                   *)
Ahead(j, p) ==
  2 * Cardinality(j.queue \ {p}) + (IF p \in j.queue THEN 1 ELSE 0)
  + (IF j.pc = "record" THEN 2 ELSE IF j.pc = "fire" THEN 1 ELSE 0)

(* A trigger of p that is n intervals old is among the records s, near     *)
(* enough to the newest one to stay there until it is Interval old: in an  *)
(* interval a project gets a trigger and a turn, and p gets one record as  *)
(* long as it is not due; k were written by other jobs.                    *)
Seen(s, j, n, k, p) ==
  \E i \in DOMAIN s :
    /\ s[i].project = p /\ s[i].kind = "sprint" /\ s[i].age <= n
    /\ i + Ahead(j, p) <= 2 + Others(p) + (1 + Others(p)) * n + k

InOrder(s) == \A i, k \in DOMAIN s : i <= k => s[i].age <= s[k].age

IsLog(s) == s \in Seq(Planning!Turn) /\ InOrder(s) /\ Len(s) <= Scan

IsJob(j) ==
  /\ j \in Planning!Job
  /\ j.pc = "idle" => j.queue = {}
  /\ j.pc \in {"record", "fire", "send"} => j.p \in Projects \ j.queue

PlanInv ==
  /\ IsLog(log) /\ IsJob(job)
  /\ since \in [Projects -> 0..Interval] /\ others \in 0..MaxOther
  /\ job.pc = "record" => since[job.p] >= Interval
  /\ \A p \in Projects : since[p] < Interval => Seen(log, job, since[p], others, p)

(* A record is put in front; the oldest one may fall out.                  *)
Pushed(m, s, r) ==
  /\ IsLog(m) /\ 1 \in DOMAIN m /\ m[1] = r
  /\ \A i \in DOMAIN s : i + 1 <= Scan => i + 1 \in DOMAIN m /\ m[i + 1] = s[i]

LEMMA RecordPushed ==
  ASSUME Planning!TurnAssumption, NEW s, IsLog(s), NEW r \in Planning!Turn, r.age = 0,
         NEW m, m = Planning!Firsts(<<r>> \o s)
  PROVE  Pushed(m, s, r)
<1>1. PICK n : n = Len(s)
  OBVIOUS
<1>2. n \in Nat /\ DOMAIN s = 1..n /\ n <= Scan /\ s \in Seq(Planning!Turn)
  BY <1>1, LenProperties DEF IsLog
<1>3. PICK o : o = <<r>>
  OBVIOUS
<1>4. o \in Seq(Planning!Turn) /\ Len(o) = 1 /\ o[1] = r
  BY <1>3
<1>5. PICK l : l = o \o s
  OBVIOUS
<1>6. /\ l \in Seq(Planning!Turn) /\ Len(l) = n + 1
      /\ \A i \in 1..n + 1 : l[i] = IF i <= 1 THEN o[i] ELSE s[i - 1]
  <2>1. /\ o \o s \in Seq(Planning!Turn) /\ Len(o \o s) = Len(o) + Len(s)
        /\ \A i \in 1..Len(o) + Len(s) : (o \o s)[i] = IF i <= Len(o) THEN o[i] ELSE s[i - Len(o)]
    BY <1>2, <1>4, ConcatProperties
  <2>2. Len(o) + Len(s) = n + 1
    BY <1>1, <1>2, <1>4
  <2>3. QED  BY <2>1, <2>2, <1>4, <1>5
<1>7. l[1] = r /\ \A i \in 1..n : l[i + 1] = s[i]
  <2>1. 1 \in 1..n + 1
    BY <1>2
  <2>2. ASSUME NEW i \in 1..n  PROVE l[i + 1] = s[i]
    <3>1. i + 1 \in 1..n + 1 /\ ~(i + 1 <= 1) /\ (i + 1) - 1 = i
      BY <1>2
    <3>2. QED  BY <3>1, <1>6
  <2>3. QED  BY <2>1, <2>2, <1>4, <1>6
<1>8. DOMAIN l = 1..n + 1 /\ \A i \in 1..n + 1 : l[i] \in Planning!Turn
  BY <1>6, <1>2, LenProperties, ElementOfSeq
<1>9. Scan \in Nat \ {0} /\ Interval \in Nat \ {0}
  BY DEF Planning!TurnAssumption
<1>10. PICK k : k = IF n + 1 > Scan THEN Scan ELSE n + 1
  OBVIOUS
<1>11. k \in Nat /\ k >= 1 /\ k <= Scan /\ k <= n + 1 /\ (n + 1 <= Scan => k = n + 1)
       /\ (n + 1 > Scan => k = Scan)
  BY <1>2, <1>9, <1>10
<1>12. m \in Seq(Planning!Turn) /\ Len(m) = k /\ \A i \in 1..k : m[i] = l[i]
  <2>1. m = IF n + 1 > Scan THEN SubSeq(l, 1, Scan) ELSE l
    BY <1>3, <1>5, <1>6 DEF Planning!Firsts
  <2>2. CASE n + 1 > Scan
    <3>1. 1 \in Int /\ Scan \in Int /\ \A i \in 1..Scan : l[i] \in Planning!Turn
      BY <1>8, <1>9, <1>2, <2>2
    <3>2. /\ SubSeq(l, 1, Scan) \in Seq(Planning!Turn)
          /\ Len(SubSeq(l, 1, Scan)) = IF 1 <= Scan THEN Scan - 1 + 1 ELSE 0
          /\ \A i \in 1..Scan - 1 + 1 : SubSeq(l, 1, Scan)[i] = l[1 + i - 1]
      BY <3>1, SubSeqProperties
    <3>3. QED  BY <2>1, <2>2, <3>2, <1>9, <1>11
  <2>3. CASE ~(n + 1 > Scan)
    <3>1. k = n + 1 /\ m = l
      BY <2>1, <2>3, <1>10
    <3>2. QED  BY <3>1, <1>6
  <2>4. QED  BY <2>2, <2>3
<1>13. DOMAIN m = 1..k
  BY <1>12, LenProperties
<1>14. m[1] = r /\ \A i \in 1..n : i + 1 <= k => m[i + 1] = s[i]
  <2>1. 1 \in 1..k
    BY <1>11
  <2>2. ASSUME NEW i \in 1..n, i + 1 <= k  PROVE m[i + 1] = s[i]
    <3>1. i + 1 \in 1..k
      BY <1>11, <2>2
    <3>2. QED  BY <3>1, <1>7, <1>12
  <2>3. QED  BY <2>1, <2>2, <1>7, <1>12
<1>15. \A i \in 1..n : s[i].age \in Nat
  <2> SUFFICES ASSUME NEW i \in 1..n  PROVE s[i].age \in Nat
    OBVIOUS
  <2>1. s[i] \in Planning!Turn
    BY <1>2, ElementOfSeq
  <2>2. s[i].age \in 0..Interval
    BY <2>1 DEF Planning!Turn
  <2>3. QED  BY <2>2, <1>9
<1>16. InOrder(m)
  <2> SUFFICES ASSUME NEW i \in 1..k, NEW j \in 1..k, i <= j  PROVE m[i].age <= m[j].age
    BY <1>13 DEF InOrder
  <2>1. CASE i = 1 /\ j = 1
    BY <2>1, <1>14
  <2>2. CASE i = 1 /\ j > 1
    <3>1. PICK h \in 1..n : h + 1 = j
      BY <2>2, <1>11, <1>2
    <3>2. m[j] = s[h]
      BY <3>1, <1>14
    <3>3. QED  BY <2>2, <3>2, <1>14, <1>15
  <2>3. CASE i > 1
    <3>1. PICK g \in 1..n : g + 1 = i
      BY <2>3, <1>11, <1>2
    <3>2. PICK h \in 1..n : h + 1 = j
      BY <2>3, <1>11, <1>2
    <3>3. m[i] = s[g] /\ m[j] = s[h] /\ g <= h
      BY <3>1, <3>2, <1>14
    <3>4. QED  BY <3>3, <1>2 DEF IsLog, InOrder
  <2>4. QED  BY <2>1, <2>2, <2>3
<1>17. \A i \in 1..n : i + 1 <= Scan => i + 1 \in 1..k
  BY <1>2, <1>9, <1>11
<1>18. IsLog(m)
  BY <1>11, <1>12, <1>16 DEF IsLog
<1>19. QED  BY <1>2, <1>11, <1>13, <1>14, <1>17, <1>18 DEF Pushed

(* The numbers.                                                            *)
LEMMA NumbersAre ==
  ASSUME RoomToScan, Planning!TurnAssumption, NEW p \in Projects
  PROVE  /\ Others(p) \in Nat /\ Scan \in Nat \ {0} /\ Interval \in Nat \ {0} /\ MaxOther \in Nat
         /\ 1 + (1 + Others(p)) * Interval + MaxOther <= Scan
<1>1. IsFiniteSet(Projects \ {p})
  BY FS_RemoveElement DEF RoomToScan
<1>2. PICK n : n = Cardinality(Projects \ {p})
  OBVIOUS
<1>3. n \in Nat
  BY <1>1, <1>2, FS_CardinalityType
<1>4. Others(p) \in Nat
  BY <1>2, <1>3 DEF Others
<1>5. QED  BY <1>4 DEF RoomToScan, Planning!TurnAssumption

LEMMA AheadIs ==
  ASSUME RoomToScan, NEW j, j.queue \subseteq Projects, NEW p
  PROVE  Ahead(j, p) \in Nat /\ IsFiniteSet(j.queue) /\ Cardinality(j.queue \ {p}) \in Nat
<1>1. IsFiniteSet(j.queue)
  BY FS_Subset DEF RoomToScan
<1>2. IsFiniteSet(j.queue \ {p})
  BY <1>1, FS_RemoveElement
<1>3. PICK n : n = Cardinality(j.queue \ {p})
  OBVIOUS
<1>4. n \in Nat
  BY <1>2, <1>3, FS_CardinalityType
<1>5. QED  BY <1>1, <1>3, <1>4 DEF Ahead

(* A project that is not due when it is seen: its newest trigger is young. *)
LEMMA SeenIsNotDue ==
  ASSUME Planning!TurnAssumption, PlanInv, NEW p \in Projects, since[p] < Interval
  PROVE  ~Planning!SprintDue(p)
<1>1. PICK i \in DOMAIN log :
        log[i].project = p /\ log[i].kind = "sprint" /\ log[i].age <= since[p]
  BY DEF PlanInv, Seen
<1>2. i \in Planning!SprintsOf(p)
  BY <1>1 DEF Planning!SprintsOf
<1>3. PICK n : n = Len(log)
  OBVIOUS
<1>4. n \in Nat /\ DOMAIN log = 1..n
  BY <1>3, LenProperties DEF PlanInv, IsLog
<1>5. PICK S : S = Planning!SprintsOf(p)
  OBVIOUS
<1>6. S \subseteq 1..n /\ i \in S
  BY <1>2, <1>4, <1>5 DEF Planning!SprintsOf
<1>7. PICK h \in S : \A k \in S : h <= k
  <2>1. S \subseteq Nat /\ S # {}
    BY <1>6, <1>4
  <2>2. QED  BY <2>1, NatMin
<1>8. log[h].age <= log[i].age /\ h \in DOMAIN log
  BY <1>4, <1>6, <1>7 DEF PlanInv, IsLog, InOrder
<1>9. PICK a, b, c : a = log[h].age /\ b = log[i].age /\ c = since[p]
  OBVIOUS
<1>10. a \in Nat /\ b \in Nat /\ c \in Nat /\ a <= b /\ b <= c /\ c < Interval /\ Interval \in Nat
  <2>1. log[h] \in Planning!Turn /\ log[i] \in Planning!Turn
    BY <1>8, ElementOfSeq DEF PlanInv, IsLog
  <2>2. a \in 0..Interval /\ b \in 0..Interval
    BY <2>1, <1>9 DEF Planning!Turn
  <2>3. c \in 0..Interval /\ a <= b /\ b <= c /\ c < Interval
    BY <1>1, <1>8, <1>9 DEF PlanInv
  <2>4. QED  BY <2>2, <2>3 DEF Planning!TurnAssumption
<1>11. ~(a >= Interval)
  BY <1>10
<1>12. QED  BY <1>5, <1>7, <1>9, <1>11 DEF Planning!SprintDue

LEMMA SeenPushed ==
  ASSUME RoomToScan, Planning!TurnAssumption, NEW p \in Projects,
         NEW m, NEW s, IsLog(s), NEW r, Pushed(m, s, r),
         NEW j, j.queue \subseteq Projects, NEW i, i.queue \subseteq Projects,
         NEW n \in Nat, n < Interval, NEW k \in Nat, NEW l \in 0..MaxOther,
         Ahead(i, p) + 1 + k <= Ahead(j, p) + l, Seen(s, j, n, k, p)
  PROVE  Seen(m, i, n, l, p)
<1>1. PICK h \in DOMAIN s :
        /\ s[h].project = p /\ s[h].kind = "sprint" /\ s[h].age <= n
        /\ h + Ahead(j, p) <= 2 + Others(p) + (1 + Others(p)) * n + k
  BY DEF Seen
<1>2. PICK a, b, o : a = Ahead(j, p) /\ b = Ahead(i, p) /\ o = Others(p)
  OBVIOUS
<1>3. a \in Nat /\ b \in Nat /\ o \in Nat /\ b + 1 + k <= a + l
      /\ Interval \in Nat /\ MaxOther \in Nat /\ Scan \in Nat
      /\ 1 + (1 + o) * Interval + MaxOther <= Scan
  BY <1>2, AheadIs, NumbersAre
<1>4. h \in Nat
  BY LenProperties DEF IsLog
<1>5. PICK c, d : c = (1 + o) * n /\ d = (1 + o) * Interval
  OBVIOUS
<1>6. c \in Nat /\ d \in Nat /\ c + 1 + o <= d
  <2>1. PICK e \in Nat : Interval = n + 1 + e
    <3>1. Interval - n - 1 \in Nat
      BY <1>3
    <3>2. QED  BY <3>1, <1>3
  <2>2. (1 + o) * Interval = (1 + o) * n + (1 + o) + (1 + o) * e
    BY <1>3, <2>1
  <2>3. (1 + o) * e \in Nat /\ (1 + o) * n \in Nat
    BY <1>3, <2>1
  <2>4. QED  BY <1>3, <1>5, <2>2, <2>3
<1>7. h + a <= 2 + o + c + k
  BY <1>1, <1>2, <1>5
<1>8. (h + 1) + b <= 2 + o + c + l
  BY <1>3, <1>4, <1>6, <1>7
<1>9. h + 1 <= Scan
  BY <1>3, <1>4, <1>5, <1>6, <1>8
<1>10. h + 1 \in DOMAIN m /\ m[h + 1] = s[h]
  BY <1>1, <1>9 DEF Pushed
<1>11. PICK g : g = h + 1
  OBVIOUS
<1>12. /\ m[g].project = p /\ m[g].kind = "sprint" /\ m[g].age <= n /\ g \in DOMAIN m
       /\ g + Ahead(i, p) <= 2 + Others(p) + (1 + Others(p)) * n + l
  BY <1>1, <1>2, <1>5, <1>8, <1>10, <1>11
<1>13. QED  BY <1>12 DEF Seen

SameTriggers(m, s) ==
  /\ DOMAIN m = DOMAIN s
  /\ \A i \in DOMAIN s : m[i].project = s[i].project /\ m[i].kind = s[i].kind /\ m[i].age = s[i].age

LEMMA SeenKept ==
  ASSUME RoomToScan, Planning!TurnAssumption, NEW p \in Projects,
         NEW m, NEW s, IsLog(s), SameTriggers(m, s),
         NEW j, j.queue \subseteq Projects, NEW i, i.queue \subseteq Projects,
         NEW n \in Nat, NEW k \in Nat, NEW l \in Nat,
         Ahead(i, p) + k <= Ahead(j, p) + l, Seen(s, j, n, k, p)
  PROVE  Seen(m, i, n, l, p)
<1>1. PICK h \in DOMAIN s :
        /\ s[h].project = p /\ s[h].kind = "sprint" /\ s[h].age <= n
        /\ h + Ahead(j, p) <= 2 + Others(p) + (1 + Others(p)) * n + k
  BY DEF Seen
<1>2. PICK a, b, o, c : /\ a = Ahead(j, p) /\ b = Ahead(i, p) /\ o = Others(p)
                        /\ c = (1 + o) * n
  OBVIOUS
<1>3. a \in Nat /\ b \in Nat /\ o \in Nat /\ b + k <= a + l
  BY <1>2, AheadIs, NumbersAre
<1>4. h \in Nat /\ c \in Nat
  <2>1. h \in Nat
    BY LenProperties DEF IsLog
  <2>2. QED  BY <1>2, <1>3, <2>1
<1>5. h + a <= 2 + o + c + k
  BY <1>1, <1>2
<1>6. h + b <= 2 + o + c + l
  BY <1>3, <1>4, <1>5
<1>7. /\ m[h].project = p /\ m[h].kind = "sprint" /\ m[h].age <= n /\ h \in DOMAIN m
      /\ h + Ahead(i, p) <= 2 + Others(p) + (1 + Others(p)) * n + l
  BY <1>1, <1>2, <1>6 DEF SameTriggers
<1>8. QED  BY <1>7 DEF Seen

LEMMA SinceIs ==
  ASSUME Planning!TurnAssumption, PlanInv, NEW p \in Projects
  PROVE  since[p] \in Nat /\ since[p] \in 0..Interval
BY DEF PlanInv, Planning!TurnAssumption

LEMMA QueueIs ==
  ASSUME NEW j, IsJob(j)
  PROVE  j.queue \subseteq Projects
BY DEF IsJob, Planning!Job

(* A step that leaves the triggers alone, with a record or without one.    *)
LEMMA PlanPushes ==
  ASSUME RoomToScan, Planning!TurnAssumption, PlanInv, NEW r \in Planning!Turn, r.age = 0,
         Planning!Logged(r), UNCHANGED since, others' \in 0..MaxOther, IsJob(job'),
         job'.pc = "record" => since[job'.p] >= Interval,
         \A p \in Projects : since[p] < Interval =>
           Ahead(job', p) + 1 + others <= Ahead(job, p) + others'
  PROVE  PlanInv'
<1>1. PICK s, m, j, i, k, l :
        s = log /\ m = log' /\ j = job /\ i = job' /\ k = others /\ l = others'
  OBVIOUS
<1>2. IsLog(s) /\ IsJob(j) /\ k \in Nat /\ l \in 0..MaxOther
  BY <1>1 DEF PlanInv
<1>3. Pushed(m, s, r)
  BY <1>1, <1>2, RecordPushed DEF Planning!Logged
<1>4. ASSUME NEW p \in Projects, since[p] < Interval  PROVE Seen(m, i, since[p], l, p)
  <2>1. PICK n : n = since[p]
    OBVIOUS
  <2>2. n \in Nat /\ n < Interval /\ Seen(s, j, n, k, p)
    BY <1>1, <1>4, <2>1, SinceIs DEF PlanInv
  <2>3. Ahead(i, p) + 1 + k <= Ahead(j, p) + l
    BY <1>1, <1>4
  <2>4. j.queue \subseteq Projects /\ i.queue \subseteq Projects
    BY <1>1, <1>2, QueueIs
  <2>5. Seen(m, i, n, l, p)
    BY <1>2, <1>3, <2>2, <2>3, <2>4, SeenPushed
  <2>6. QED  BY <2>1, <2>5
<1>5. IsLog(m)
  BY <1>3 DEF Pushed
<1>6. QED  BY <1>1, <1>4, <1>5 DEF PlanInv

LEMMA PlanKeeps ==
  ASSUME RoomToScan, Planning!TurnAssumption, PlanInv, SameTriggers(log', log), IsLog(log'),
         UNCHANGED since, others' \in 0..MaxOther, IsJob(job'),
         job'.pc = "record" => since[job'.p] >= Interval,
         \A p \in Projects : since[p] < Interval =>
           Ahead(job', p) + others <= Ahead(job, p) + others'
  PROVE  PlanInv'
<1>1. PICK s, m, j, i, k, l :
        s = log /\ m = log' /\ j = job /\ i = job' /\ k = others /\ l = others'
  OBVIOUS
<1>2. IsLog(s) /\ IsJob(j) /\ k \in Nat /\ l \in Nat /\ SameTriggers(m, s)
  BY <1>1 DEF PlanInv
<1>3. ASSUME NEW p \in Projects, since[p] < Interval  PROVE Seen(m, i, since[p], l, p)
  <2>1. PICK n : n = since[p]
    OBVIOUS
  <2>2. n \in Nat /\ Seen(s, j, n, k, p)
    BY <1>1, <1>3, <2>1, SinceIs DEF PlanInv
  <2>3. Ahead(i, p) + k <= Ahead(j, p) + l
    BY <1>1, <1>3
  <2>4. j.queue \subseteq Projects /\ i.queue \subseteq Projects
    BY <1>1, <1>2, QueueIs
  <2>5. Seen(m, i, n, l, p)
    BY <1>2, <2>2, <2>3, <2>4, SeenKept
  <2>6. QED  BY <2>1, <2>5
<1>4. QED  BY <1>1, <1>3 DEF PlanInv

LEMMA SameIsKept ==
  ASSUME NEW s
  PROVE  SameTriggers(s, s)
BY DEF SameTriggers

LEMMA RecordIs ==
  ASSUME Planning!TurnAssumption, NEW p \in Projects, NEW kind \in {"sprint", "other"},
         NEW status \in {"triggered", "dispatched", "skipped", "undelivered", "error"},
         NEW sent \in {"no", "yes", "trying"},
         NEW r, \/ r = Planning!Record(p, kind, status)
                \/ r = [Planning!Record(p, kind, status) EXCEPT !.sent = sent]
                \/ r = [Planning!Record(p, kind, status) EXCEPT !.status = "error"]
  PROVE  r \in Planning!Turn /\ r.age = 0 /\ r.project = p /\ r.kind = kind
<1>1. 0 \in 0..Interval
  BY DEF Planning!TurnAssumption
<1>2. PICK x, y : /\ x \in {"triggered", "dispatched", "skipped", "undelivered", "error"}
                  /\ y \in {"no", "yes", "trying"}
                  /\ r = [project |-> p, kind |-> kind, status |-> x, age |-> 0, sent |-> y]
  BY DEF Planning!Record
<1>3. QED  BY <1>1, <1>2 DEF Planning!Turn

LEMMA OnwardIs ==
  ASSUME NEW Q, Q \subseteq Projects, NEW j, j = Planning!Onward(Q)
  PROVE  IsJob(j) /\ j.queue = Q /\ j.pc \in {"idle", "visit"}
<1>1. CASE Q = {}
  BY <1>1 DEF Planning!Onward, Planning!Idle, IsJob, Planning!Job
<1>2. CASE Q # {}
  <2>1. j = [pc |-> "visit", queue |-> Q, p |-> 0]
    BY <1>2 DEF Planning!Onward, Planning!Idle
  <2>2. QED  BY <2>1 DEF IsJob, Planning!Job
<1>3. QED  BY <1>1, <1>2

(* A project is taken from the queue.                                      *)
LEMMA AheadTaken ==
  ASSUME RoomToScan, NEW j, j.queue \subseteq Projects, j.pc = "visit", NEW p \in j.queue,
         NEW i, i.queue = j.queue \ {p}, NEW q
  PROVE  /\ i.pc \in {"idle", "visit", "send"} => Ahead(i, q) + 1 <= Ahead(j, q)
         /\ i.pc = "record" /\ q # p => Ahead(i, q) <= Ahead(j, q)
<1>1. PICK Q : Q = j.queue
  OBVIOUS
<1>2. IsFiniteSet(Q)
  BY <1>1, AheadIs
<1>3. IsFiniteSet(Q \ {q})
  BY <1>2, FS_RemoveElement
<1>4. PICK a, b : a = Cardinality(Q \ {q}) /\ b = Cardinality((Q \ {p}) \ {q})
  OBVIOUS
<1>5. a \in Nat
  BY <1>3, <1>4, FS_CardinalityType
<1>6. CASE q = p
  <2>1. b = a
    <3>1. (Q \ {p}) \ {q} = Q \ {q}
      BY <1>6
    <3>2. QED  BY <3>1, <1>4
  <2>2. Ahead(j, q) = 2 * a + 1
    BY <1>1, <1>4, <1>5, <1>6 DEF Ahead
  <2>3. i.pc \in {"idle", "visit", "send"} => Ahead(i, q) = 2 * a
    BY <1>1, <1>4, <1>5, <1>6, <2>1 DEF Ahead
  <2>4. QED  BY <1>5, <1>6, <2>2, <2>3
<1>7. CASE q # p
  <2>1. b = a - 1
    <3>1. (Q \ {p}) \ {q} = (Q \ {q}) \ {p} /\ p \in Q \ {q}
      BY <1>1, <1>7
    <3>2. Cardinality((Q \ {q}) \ {p}) = Cardinality(Q \ {q}) - 1
      BY <3>1, <1>3, FS_RemoveElement
    <3>3. QED  BY <3>1, <3>2, <1>4
  <2>2. PICK e : e = IF q \in Q THEN 1 ELSE 0
    OBVIOUS
  <2>3. Ahead(j, q) = 2 * a + e /\ e \in Nat
    BY <1>1, <1>4, <1>5, <2>2 DEF Ahead
  <2>4. q \in Q \ {p} <=> q \in Q
    BY <1>7
  <2>5. i.pc \in {"idle", "visit", "send"} => Ahead(i, q) = 2 * b + e
    BY <1>1, <1>4, <1>5, <2>1, <2>2, <2>4 DEF Ahead
  <2>6. i.pc = "record" => Ahead(i, q) = 2 * b + e + 2
    BY <1>1, <1>4, <1>5, <2>1, <2>2, <2>4 DEF Ahead
  <2>7. QED  BY <1>5, <2>1, <2>3, <2>5, <2>6
<1>8. QED  BY <1>6, <1>7

(* The job goes on from a record or from the fire to the next step.        *)
LEMMA AheadGoes ==
  ASSUME RoomToScan, NEW j, j.queue \subseteq Projects, NEW i, i.queue = j.queue, NEW q
  PROVE  /\ j.pc = "record" /\ i.pc = "fire" => Ahead(i, q) + 1 = Ahead(j, q)
         /\ j.pc = "fire" /\ i.pc \in {"send", "visit", "idle"} => Ahead(i, q) + 1 = Ahead(j, q)
         /\ j.pc = "send" /\ i.pc \in {"visit", "idle"} => Ahead(i, q) = Ahead(j, q)
<1>1. PICK a, e : a = Cardinality(j.queue \ {q}) /\ e = IF q \in j.queue THEN 1 ELSE 0
  OBVIOUS
<1>2. a \in Nat /\ e \in Nat
  BY <1>1, AheadIs
<1>3. /\ j.pc = "record" => Ahead(j, q) = 2 * a + e + 2
      /\ j.pc = "fire" => Ahead(j, q) = 2 * a + e + 1
      /\ j.pc = "send" => Ahead(j, q) = 2 * a + e
  BY <1>1, <1>2 DEF Ahead
<1>4. /\ i.pc = "fire" => Ahead(i, q) = 2 * a + e + 1
      /\ i.pc \in {"send", "visit", "idle"} => Ahead(i, q) = 2 * a + e
  BY <1>1, <1>2 DEF Ahead
<1>5. QED  BY <1>2, <1>3, <1>4

LEMMA VisitKeeps ==
  ASSUME RoomToScan, Planning!TurnAssumption, PlanInv, NEW p \in Projects, Planning!Visit(p)
  PROVE  PlanInv'
<1>1. PICK j, i, Q : j = job /\ i = job' /\ Q = job.queue \ {p}
  OBVIOUS
<1>2. /\ j.queue \subseteq Projects /\ j.pc = "visit" /\ p \in j.queue /\ Q \subseteq Projects
      /\ Q = j.queue \ {p} /\ j \in Planning!Job
  BY <1>1, QueueIs DEF PlanInv, Planning!Visit, IsJob
<1>3. UNCHANGED since /\ others' = others /\ others' \in 0..MaxOther /\ others \in Nat
  BY DEF PlanInv, Planning!Visit
<1>4. ASSUME NEW r \in Planning!Turn, r.age = 0, Planning!Logged(r), IsJob(i), i.queue = Q,
             i.pc \in {"idle", "visit", "send"}
      PROVE  PlanInv'
  <2>1. \A q \in Projects : Ahead(i, q) + 1 <= Ahead(j, q)
    BY <1>2, <1>4, AheadTaken
  <2>2. \A q \in Projects : Ahead(job', q) \in Nat /\ Ahead(job, q) \in Nat
    BY <1>1, <1>2, <1>4, AheadIs
  <2>3. \A q \in Projects : Ahead(job', q) + 1 + others <= Ahead(job, q) + others'
    BY <2>1, <2>2, <1>1, <1>3
  <2>4. IsJob(job') /\ job'.pc # "record"
    BY <1>1, <1>4
  <2>5. QED  BY <1>3, <1>4, <2>3, <2>4, PlanPushes
<1>5. CASE ~online
  <2>1. PICK r : r = Planning!Record(p, "other", "undelivered")
    OBVIOUS
  <2>2. Planning!Logged(r) /\ i = Planning!Onward(Q)
    BY <1>1, <1>5, <2>1 DEF Planning!Visit
  <2>3. r \in Planning!Turn /\ r.age = 0
    BY <2>1, RecordIs
  <2>4. QED  BY <1>2, <1>4, <2>2, <2>3, OnwardIs
<1>6. CASE online /\ Planning!Plannable(p)
  <2>1. PICK r : r = [Planning!Record(p, "other", "dispatched") EXCEPT !.sent = "trying"]
    OBVIOUS
  <2>2. Planning!Logged(r) /\ i = [j EXCEPT !.pc = "send", !.queue = Q, !.p = p]
    BY <1>1, <1>6, <2>1 DEF Planning!Visit, Planning!Plannable, Planning!Busy
  <2>3. r \in Planning!Turn /\ r.age = 0
    BY <2>1, RecordIs
  <2>4. i = [pc |-> "send", queue |-> Q, p |-> p]
    BY <1>2, <2>2 DEF Planning!Job
  <2>5. IsJob(i) /\ i.queue = Q /\ i.pc = "send"
    BY <1>2, <2>4 DEF IsJob, Planning!Job
  <2>6. QED  BY <1>4, <2>2, <2>3, <2>5
<1>7. CASE /\ online /\ ~Planning!Plannable(p) /\ ~Planning!Busy(p) /\ Planning!SprintDue(p)
           /\ i = [j EXCEPT !.pc = "record", !.queue = Q, !.p = p] /\ UNCHANGED log
  <2>1. i = [pc |-> "record", queue |-> Q, p |-> p]
    BY <1>2, <1>7 DEF Planning!Job
  <2>2. IsJob(i) /\ i.queue = Q /\ i.pc = "record" /\ i.p = p
    BY <1>2, <2>1 DEF IsJob, Planning!Job
  <2>3. since[p] >= Interval
    <3>1. ~(since[p] < Interval)
      BY <1>7, SeenIsNotDue
    <3>2. PICK n : n = since[p]
      OBVIOUS
    <3>3. n \in Nat /\ Interval \in Nat /\ ~(n < Interval)
      BY <3>1, <3>2, SinceIs DEF Planning!TurnAssumption
    <3>4. n >= Interval
      BY <3>3
    <3>5. QED  BY <3>2, <3>4
  <2>4. ASSUME NEW q \in Projects, since[q] < Interval
        PROVE  Ahead(job', q) + others <= Ahead(job, q) + others'
    <3>1. q # p
      BY <1>7, <2>4, SeenIsNotDue
    <3>2. Ahead(i, q) <= Ahead(j, q)
      BY <1>2, <2>2, <3>1, AheadTaken
    <3>3. Ahead(i, q) \in Nat /\ Ahead(j, q) \in Nat
      BY <1>2, <2>2, AheadIs
    <3>4. QED  BY <1>1, <1>3, <3>2, <3>3
  <2>5. SameTriggers(log', log) /\ IsLog(log')
    BY <1>7, SameIsKept DEF PlanInv
  <2>6. IsJob(job') /\ since[job'.p] >= Interval
    BY <1>1, <2>2, <2>3
  <2>7. QED  BY <1>3, <2>4, <2>5, <2>6, PlanKeeps
<1>8. CASE Planning!Logged(Planning!Record(p, "other", "skipped")) /\ i = Planning!Onward(Q)
  <2>1. PICK r : r = Planning!Record(p, "other", "skipped")
    OBVIOUS
  <2>2. r \in Planning!Turn /\ r.age = 0 /\ Planning!Logged(r)
    BY <1>8, <2>1, RecordIs
  <2>3. QED  BY <1>2, <1>4, <1>8, <2>2, OnwardIs
<1>9. QED  BY <1>1, <1>5, <1>6, <1>7, <1>8 DEF Planning!Visit

LEMMA TriggerKeeps ==
  ASSUME RoomToScan, Planning!TurnAssumption, PlanInv, Planning!RecordTrigger
  PROVE  PlanInv'
<1>1. PICK p, r : p = job.p /\ r = Planning!Record(job.p, "sprint", "triggered")
  OBVIOUS
<1>2. PICK s, m, j, i, k : s = log /\ m = log' /\ j = job /\ i = job' /\ k = others
  OBVIOUS
<1>3. /\ IsLog(s) /\ j \in Planning!Job /\ j.pc = "record" /\ p \in Projects \ j.queue
      /\ j.queue \subseteq Projects /\ k \in Nat /\ k \in 0..MaxOther
  BY <1>1, <1>2, QueueIs DEF PlanInv, IsJob, Planning!RecordTrigger
<1>4. r \in Planning!Turn /\ r.age = 0 /\ r.project = p /\ r.kind = "sprint"
  BY <1>1, <1>3, RecordIs
<1>5. Pushed(m, s, r)
  BY <1>1, <1>2, <1>3, <1>4, RecordPushed
     DEF Planning!RecordTrigger, Planning!Logged, Planning!TriggerKind
<1>6. i = [pc |-> "fire", queue |-> j.queue, p |-> j.p]
  BY <1>2, <1>3 DEF Planning!RecordTrigger, Planning!Job
<1>7. IsJob(i) /\ i.queue = j.queue /\ i.pc = "fire"
  BY <1>1, <1>2, <1>3, <1>6 DEF IsJob, Planning!Job
<1>8. since' = [since EXCEPT ![p] = 0] /\ others' = k
  BY <1>1, <1>2 DEF Planning!RecordTrigger
<1>9. since' \in [Projects -> 0..Interval] /\ since'[p] = 0
      /\ \A q \in Projects : q # p => since'[q] = since[q]
  BY <1>3, <1>8 DEF PlanInv, Planning!TurnAssumption
<1>10. Seen(m, i, 0, k, p)
  <2>1. Ahead(i, p) <= Others(p) + 1 /\ Ahead(i, p) \in Nat /\ Others(p) \in Nat
    <3>1. PICK a, b : a = Cardinality(i.queue \ {p}) /\ b = Cardinality(Projects \ {p})
      OBVIOUS
    <3>2. IsFiniteSet(Projects \ {p}) /\ i.queue \ {p} \subseteq Projects \ {p}
      BY <1>3, <1>7, FS_RemoveElement DEF RoomToScan
    <3>3. a <= b /\ a \in Nat /\ b \in Nat
      BY <3>1, <3>2, FS_Subset, FS_CardinalityType
    <3>4. Ahead(i, p) = 2 * a + 1
      BY <1>3, <1>7, <3>1, <3>3 DEF Ahead
    <3>5. Others(p) = 2 * b
      BY <3>1 DEF Others
    <3>6. QED  BY <3>3, <3>4, <3>5
  <2>2. (1 + Others(p)) * 0 = 0
    BY <2>1
  <2>3. 1 + Ahead(i, p) <= 2 + Others(p) + (1 + Others(p)) * 0 + k
    BY <2>1, <2>2, <1>3
  <2>4. 1 \in DOMAIN m /\ m[1] = r
    BY <1>5 DEF Pushed
  <2>5. /\ m[1].project = p /\ m[1].kind = "sprint" /\ m[1].age <= 0
    BY <2>4, <1>4
  <2>6. QED  BY <2>3, <2>4, <2>5 DEF Seen
<1>11. ASSUME NEW q \in Projects, q # p, since[q] < Interval  PROVE Seen(m, i, since[q], k, q)
  <2>1. PICK n : n = since[q]
    OBVIOUS
  <2>2. n \in Nat /\ n < Interval /\ Seen(s, j, n, k, q)
    BY <1>2, <1>11, <2>1, SinceIs DEF PlanInv
  <2>3. Ahead(i, q) + 1 = Ahead(j, q) /\ Ahead(i, q) \in Nat
    BY <1>3, <1>7, AheadGoes, AheadIs
  <2>4. Ahead(i, q) + 1 + k <= Ahead(j, q) + k
    BY <2>3, <1>3
  <2>5. i.queue \subseteq Projects
    BY <1>3, <1>7
  <2>6. Seen(m, i, n, k, q)
    BY <1>3, <1>5, <2>2, <2>4, <2>5, SeenPushed
  <2>7. QED  BY <2>1, <2>6
<1>12. \A q \in Projects : since'[q] < Interval => Seen(m, i, since'[q], k, q)
  BY <1>9, <1>10, <1>11
<1>13. IsLog(m)
  BY <1>5 DEF Pushed
<1>14. QED  BY <1>2, <1>3, <1>7, <1>8, <1>9, <1>12, <1>13 DEF PlanInv

LEMMA FireKeeps ==
  ASSUME RoomToScan, Planning!TurnAssumption, PlanInv, Planning!FireSprint
  PROVE  PlanInv'
<1>1. PICK p, j, i : p = job.p /\ j = job /\ i = job'
  OBVIOUS
<1>2. /\ j \in Planning!Job /\ j.pc = "fire" /\ p \in Projects \ j.queue
      /\ j.queue \subseteq Projects
  BY <1>1, QueueIs DEF PlanInv, IsJob, Planning!FireSprint
<1>3. UNCHANGED since /\ others' = others /\ others' \in 0..MaxOther /\ others \in Nat
  BY DEF PlanInv, Planning!FireSprint
<1>4. ASSUME NEW r \in Planning!Turn, r.age = 0, Planning!Logged(r), IsJob(i), i.queue = j.queue,
             i.pc \in {"idle", "visit", "send"}
      PROVE  PlanInv'
  <2>1. \A q \in Projects : Ahead(i, q) + 1 = Ahead(j, q)
    BY <1>2, <1>4, AheadGoes
  <2>2. \A q \in Projects : Ahead(job', q) \in Nat /\ Ahead(job, q) \in Nat
    BY <1>1, <1>2, <1>4, AheadIs
  <2>3. \A q \in Projects : Ahead(job', q) + 1 + others <= Ahead(job, q) + others'
    BY <2>1, <2>2, <1>1, <1>3
  <2>4. IsJob(job') /\ job'.pc # "record"
    BY <1>1, <1>4
  <2>5. QED  BY <1>3, <1>4, <2>3, <2>4, PlanPushes
<1>5. CASE online
  <2>1. PICK r : r = [Planning!Record(p, "sprint", "dispatched") EXCEPT !.sent = "trying"]
    OBVIOUS
  <2>2. Planning!Logged(r) /\ i = [j EXCEPT !.pc = "send"]
    BY <1>1, <1>5, <2>1 DEF Planning!FireSprint
  <2>3. r \in Planning!Turn /\ r.age = 0
    BY <1>2, <2>1, RecordIs
  <2>4. i = [pc |-> "send", queue |-> j.queue, p |-> j.p]
    BY <1>2, <2>2 DEF Planning!Job
  <2>5. IsJob(i) /\ i.queue = j.queue /\ i.pc = "send"
    BY <1>1, <1>2, <2>4 DEF IsJob, Planning!Job
  <2>6. QED  BY <1>4, <2>2, <2>3, <2>5
<1>6. CASE ~online
  <2>1. PICK r : r = Planning!Record(p, "other", "undelivered")
    OBVIOUS
  <2>2. Planning!Logged(r) /\ i = Planning!Onward(j.queue)
    BY <1>1, <1>6, <2>1 DEF Planning!FireSprint
  <2>3. r \in Planning!Turn /\ r.age = 0
    BY <1>2, <2>1, RecordIs
  <2>4. IsJob(i) /\ i.queue = j.queue /\ i.pc \in {"idle", "visit"}
    BY <1>2, <2>2, OnwardIs
  <2>5. QED  BY <1>4, <2>2, <2>3, <2>4
<1>7. QED  BY <1>5, <1>6

LEMMA SendKeeps ==
  ASSUME RoomToScan, Planning!TurnAssumption, PlanInv, Planning!Send
  PROVE  PlanInv'
<1>1. PICK j, i, s, m : j = job /\ i = job' /\ s = log /\ m = log'
  OBVIOUS
<1>2. j.pc = "send" /\ j.queue \subseteq Projects /\ i = Planning!Onward(j.queue) /\ IsLog(s)
  BY <1>1, QueueIs DEF PlanInv, Planning!Send
<1>3. UNCHANGED since /\ others' = others /\ others' \in 0..MaxOther /\ others \in Nat
  BY DEF PlanInv, Planning!Send
<1>4. IsJob(i) /\ i.queue = j.queue /\ i.pc \in {"idle", "visit"}
  BY <1>2, OnwardIs
<1>5. PICK st \in {"dispatched", "error"}, sent \in {"yes", "no"} :
        m = [h \in DOMAIN s |-> IF h \in Planning!Awaiting
                                     /\ \A k \in Planning!Awaiting : h <= k
                                THEN [s[h] EXCEPT !.status = st, !.sent = sent] ELSE s[h]]
  BY <1>1 DEF Planning!Send, Planning!Marked
<1>6. \A h \in DOMAIN s : s[h] \in Planning!Turn
  BY <1>2, ElementOfSeq DEF IsLog
<1>7. ASSUME NEW x \in Planning!Turn, NEW y, y = [x EXCEPT !.status = st, !.sent = sent]
      PROVE  y \in Planning!Turn /\ y.project = x.project /\ y.kind = x.kind /\ y.age = x.age
  BY <1>7 DEF Planning!Turn
<1>8. \A h \in DOMAIN s :
        /\ m[h] \in Planning!Turn /\ m[h].project = s[h].project
        /\ m[h].kind = s[h].kind /\ m[h].age = s[h].age
  BY <1>5, <1>6, <1>7
<1>9. PICK n : n = Len(s)
  OBVIOUS
<1>10. n \in Nat /\ DOMAIN s = 1..n /\ n <= Scan
  BY <1>2, <1>9, LenProperties DEF IsLog
<1>11. m \in [1..n -> Planning!Turn]
  BY <1>5, <1>8, <1>10
<1>12. m \in Seq(Planning!Turn) /\ Len(m) = n /\ DOMAIN m = 1..n
  BY <1>10, <1>11
<1>13. InOrder(m)
  BY <1>2, <1>8, <1>10, <1>12 DEF IsLog, InOrder
<1>14. IsLog(m) /\ SameTriggers(m, s)
  BY <1>8, <1>10, <1>12, <1>13 DEF IsLog, SameTriggers
<1>15. ASSUME NEW q \in Projects  PROVE Ahead(job', q) + others <= Ahead(job, q) + others'
  <2>1. Ahead(i, q) = Ahead(j, q) /\ Ahead(j, q) \in Nat
    BY <1>2, <1>4, AheadGoes, AheadIs
  <2>2. QED  BY <2>1, <1>1, <1>3
<1>16. QED  BY <1>1, <1>3, <1>4, <1>14, <1>15, PlanKeeps

LEMMA FiresKeeps ==
  ASSUME RoomToScan, Planning!TurnAssumption, PlanInv, Planning!PlanningFires
  PROVE  PlanInv'
<1>1. PICK j, i, s, m, k : j = job /\ i = job' /\ s = log /\ m = log' /\ k = others
  OBVIOUS
<1>2. /\ j = Planning!Idle /\ i = Planning!Onward(Projects) /\ IsLog(s) /\ others' = k
      /\ k \in 0..MaxOther /\ k \in Nat
  BY <1>1 DEF PlanInv, Planning!PlanningFires
<1>3. IsJob(i) /\ i.queue = Projects /\ i.pc \in {"idle", "visit"}
  BY <1>2, OnwardIs
<1>4. Interval \in Nat \ {0}
  BY DEF Planning!TurnAssumption
<1>5. ASSUME NEW x \in 0..Interval
      PROVE  /\ Planning!Older(x) \in 0..Interval
             /\ x < Interval => Planning!Older(x) = x + 1
             /\ \A y \in 0..Interval : x <= y => Planning!Older(x) <= Planning!Older(y)
  BY <1>4, <1>5 DEF Planning!Older
<1>6. m = [h \in DOMAIN s |-> [s[h] EXCEPT !.age = Planning!Older(s[h].age)]]
  BY <1>1 DEF Planning!PlanningFires
<1>7. ASSUME NEW h \in DOMAIN s
      PROVE  /\ m[h] \in Planning!Turn /\ m[h].project = s[h].project /\ m[h].kind = s[h].kind
             /\ m[h].age = Planning!Older(s[h].age) /\ s[h].age \in 0..Interval
  <2>1. s[h] \in Planning!Turn
    BY <1>2, ElementOfSeq DEF IsLog
  <2>2. PICK x, a : x = s[h] /\ a = Planning!Older(s[h].age)
    OBVIOUS
  <2>3. x \in Planning!Turn /\ x.age \in 0..Interval
    BY <2>1, <2>2 DEF Planning!Turn
  <2>4. a \in 0..Interval
    BY <2>2, <2>3, <1>5
  <2>5. m[h] = [x EXCEPT !.age = a]
    BY <1>6, <2>2
  <2>6. QED  BY <2>2, <2>3, <2>4, <2>5 DEF Planning!Turn
<1>8. PICK n : n = Len(s)
  OBVIOUS
<1>9. n \in Nat /\ DOMAIN s = 1..n /\ n <= Scan
  BY <1>2, <1>8, LenProperties DEF IsLog
<1>10. m \in [1..n -> Planning!Turn]
  BY <1>6, <1>7, <1>9
<1>11. m \in Seq(Planning!Turn) /\ Len(m) = n /\ DOMAIN m = 1..n
  BY <1>9, <1>10
<1>12. InOrder(m)
  <2> SUFFICES ASSUME NEW g \in 1..n, NEW h \in 1..n, g <= h  PROVE m[g].age <= m[h].age
    BY <1>11 DEF InOrder
  <2>1. s[g].age <= s[h].age
    BY <1>2, <1>9 DEF IsLog, InOrder
  <2>2. QED  BY <2>1, <1>5, <1>7, <1>9
<1>13. IsLog(m)
  BY <1>9, <1>11, <1>12 DEF IsLog
<1>14. since' = [p \in Projects |-> Planning!Older(since[p])]
  BY DEF Planning!PlanningFires
<1>15. since' \in [Projects -> 0..Interval]
  BY <1>5, <1>14 DEF PlanInv
<1>16. ASSUME NEW p \in Projects, since'[p] < Interval  PROVE Seen(m, i, since'[p], k, p)
  <2>1. PICK a, b : a = since[p] /\ b = since'[p]
    OBVIOUS
  <2>2. a \in 0..Interval /\ b = Planning!Older(a)
    BY <1>14, <2>1 DEF PlanInv
  <2>3. a < Interval /\ b = a + 1 /\ a \in Nat
    BY <2>1, <2>2, <1>16, <1>4 DEF Planning!Older
  <2>4. Seen(s, j, a, k, p)
    BY <1>1, <2>1, <2>3 DEF PlanInv
  <2>5. PICK h \in DOMAIN s :
          /\ s[h].project = p /\ s[h].kind = "sprint" /\ s[h].age <= a
          /\ h + Ahead(j, p) <= 2 + Others(p) + (1 + Others(p)) * a + k
    BY <2>4 DEF Seen
  <2>6. PICK o, c : o = Others(p) /\ c = (1 + o) * a
    OBVIOUS
  <2>7. o \in Nat
    BY <2>6, NumbersAre
  <2>8. c \in Nat /\ (1 + o) * b = c + (1 + o)
    <3>1. (1 + o) * (a + 1) = (1 + o) * a + (1 + o)
      BY <2>3, <2>7
    <3>2. (1 + o) * a \in Nat
      BY <2>3, <2>7
    <3>3. QED  BY <3>1, <3>2, <2>3, <2>6
  <2>9. Ahead(j, p) = 0
    <3>1. j.queue \ {p} = {} /\ j.pc = "idle" /\ p \notin j.queue
      BY <1>2 DEF Planning!Idle
    <3>2. Cardinality({}) = 0
      BY FS_EmptySet
    <3>3. QED  BY <3>1, <3>2 DEF Ahead
  <2>10. Ahead(i, p) = o + 1
    <3>1. PICK e : e = Cardinality(Projects \ {p})
      OBVIOUS
    <3>2. Others(p) = 2 * e
      BY <3>1 DEF Others
    <3>3. e \in Nat
      BY <3>1, FS_RemoveElement, FS_CardinalityType DEF RoomToScan
    <3>4. QED  BY <1>3, <2>6, <3>1, <3>2, <3>3 DEF Ahead
  <2>11. h \in Nat
    BY <1>9
  <2>12. h <= 2 + o + c + k
    BY <2>5, <2>6, <2>9, <2>11
  <2>13. h + Ahead(i, p) <= 2 + Others(p) + (1 + Others(p)) * b + k
    BY <2>6, <2>7, <2>8, <2>10, <2>11, <2>12, <1>2
  <2>14. m[h].age <= b /\ m[h].project = p /\ m[h].kind = "sprint" /\ h \in DOMAIN m
    <3>1. PICK x : x = s[h].age
      OBVIOUS
    <3>2. x \in 0..Interval /\ x <= a /\ m[h].age = Planning!Older(x)
      BY <1>7, <2>5, <3>1
    <3>3. Planning!Older(x) <= Planning!Older(a)
      BY <3>2, <2>2, <1>5
    <3>4. QED  BY <1>7, <1>9, <1>11, <2>2, <2>5, <3>2, <3>3
  <2>15. Seen(m, i, b, k, p)
    BY <2>13, <2>14 DEF Seen
  <2>16. QED  BY <2>1, <2>15
<1>17. job'.pc # "record"
  BY <1>1, <1>3
<1>18. QED  BY <1>1, <1>2, <1>3, <1>13, <1>15, <1>16, <1>17 DEF PlanInv

LEMMA DailyJobKeeps ==
  ASSUME RoomToScan, Planning!TurnAssumption, PlanInv, NEW p \in Projects, Planning!DailyJob(p)
  PROVE  PlanInv'
<1>1. UNCHANGED <<job, since>> /\ others < MaxOther /\ others' = others + 1
  BY DEF Planning!DailyJob
<1>2. \E r \in Planning!Turn : r.age = 0 /\ Planning!Logged(r)
  <2>1. ASSUME NEW kind \in {"sprint", "other"},
               NEW status \in {"triggered", "dispatched", "skipped", "undelivered", "error"},
               Planning!Logged(Planning!Record(p, kind, status))
        PROVE  \E r \in Planning!Turn : r.age = 0 /\ Planning!Logged(r)
    <3>1. PICK r : r = Planning!Record(p, kind, status)
      OBVIOUS
    <3>2. r \in Planning!Turn /\ r.age = 0
      BY <3>1, RecordIs
    <3>3. QED  BY <2>1, <3>1, <3>2
  <2>2. ASSUME NEW kind \in {"sprint", "other"}, Planning!Dispatch(p, kind)
        PROVE  \E r \in Planning!Turn : r.age = 0 /\ Planning!Logged(r)
    <3>1. PICK r : /\ \/ r = Planning!Record(p, kind, "dispatched")
                      \/ r = [Planning!Record(p, kind, "dispatched") EXCEPT !.sent = "yes"]
                      \/ r = [Planning!Record(p, kind, "dispatched") EXCEPT !.status = "error"]
                   /\ Planning!Logged(r)
      BY <2>2 DEF Planning!Dispatch
    <3>2. r \in Planning!Turn /\ r.age = 0
      BY <3>1, RecordIs
    <3>3. QED  BY <3>1, <3>2
  <2>3. Planning!ProgressCheck(p) \/ Planning!SprintReview(p) \/ Planning!SprintPlanning(p)
    BY DEF Planning!DailyJob
  <2>4. QED  BY <2>1, <2>2, <2>3
             DEF Planning!ProgressCheck, Planning!SprintReview, Planning!SprintPlanning
<1>3. PICK r \in Planning!Turn : r.age = 0 /\ Planning!Logged(r)
  BY <1>2
<1>4. IsJob(job') /\ (job'.pc = "record" => since[job'.p] >= Interval) /\ job'.queue \subseteq Projects
  BY <1>1, QueueIs DEF PlanInv
<1>5. others \in 0..MaxOther /\ others' \in 0..MaxOther /\ others \in Nat
  BY <1>1 DEF PlanInv, Planning!TurnAssumption
<1>6. ASSUME NEW q \in Projects  PROVE Ahead(job', q) + 1 + others <= Ahead(job, q) + others'
  <2>1. Ahead(job', q) = Ahead(job, q)
    BY <1>1
  <2>2. Ahead(job, q) \in Nat
    BY <1>1, <1>4, AheadIs
  <2>3. QED  BY <2>1, <2>2, <1>1, <1>5
<1>7. QED  BY <1>1, <1>3, <1>4, <1>5, <1>6, PlanPushes

LEMMA RestartKeeps ==
  ASSUME RoomToScan, Planning!TurnAssumption, PlanInv, UNCHANGED <<log, since>>,
         others' \in {others, others + 1}, others' \in 0..MaxOther,
         job' = job \/ job' = Planning!Idle
  PROVE  PlanInv'
<1>1. PICK j, i : j = job /\ i = job'
  OBVIOUS
<1>2. IsJob(j) /\ j.queue \subseteq Projects /\ others \in Nat
  BY <1>1, QueueIs DEF PlanInv
<1>3. IsJob(Planning!Idle) /\ Planning!Idle.queue = {} /\ Planning!Idle.pc = "idle"
  BY DEF Planning!Idle, IsJob, Planning!Job
<1>4. IsJob(job') /\ i.queue \subseteq Projects
  BY <1>1, <1>2, <1>3
<1>5. job'.pc = "record" => since[job'.p] >= Interval
  BY <1>3 DEF PlanInv
<1>6. ASSUME NEW q \in Projects  PROVE Ahead(job', q) + others <= Ahead(job, q) + others'
  <2>1. Ahead(j, q) \in Nat /\ Ahead(i, q) \in Nat
    BY <1>2, <1>4, AheadIs
  <2>2. Ahead(i, q) <= Ahead(j, q)
    <3>1. CASE i = j
      BY <2>1, <3>1
    <3>2. CASE i = Planning!Idle
      <4>1. i.queue \ {q} = {} /\ q \notin i.queue /\ i.pc = "idle"
        BY <1>3, <3>2
      <4>2. PICK a : a = Cardinality(i.queue \ {q})
        OBVIOUS
      <4>3. a = 0
        BY <4>1, <4>2, FS_EmptySet
      <4>4. Ahead(i, q) = 0
        BY <4>1, <4>2, <4>3 DEF Ahead
      <4>5. QED  BY <2>1, <4>4
    <3>3. QED  BY <3>1, <3>2, <1>1
  <2>3. others' >= others
    BY <1>2
  <2>4. QED  BY <2>1, <2>2, <2>3, <1>1, <1>2
<1>7. SameTriggers(log', log) /\ IsLog(log')
  BY SameIsKept DEF PlanInv
<1>8. QED  BY <1>4, <1>5, <1>6, <1>7, PlanKeeps

LEMMA PlanStarts ==
  ASSUME RoomToScan, Planning!TurnAssumption, Planning!Init
  PROVE  PlanInv
<1>1. log = <<>> /\ job = Planning!Idle /\ since = [p \in Projects |-> Interval] /\ others = 0
  BY DEF Planning!Init
<1>2. IsLog(log)
  <2>1. log \in Seq(Planning!Turn) /\ Len(log) = 0 /\ DOMAIN log = {}
    BY <1>1
  <2>2. QED  BY <2>1 DEF IsLog, InOrder, Planning!TurnAssumption
<1>3. IsJob(job) /\ job.pc # "record"
  BY <1>1 DEF Planning!Idle, IsJob, Planning!Job
<1>4. since \in [Projects -> 0..Interval] /\ others \in 0..MaxOther
  BY <1>1 DEF Planning!TurnAssumption
<1>5. \A p \in Projects : ~(since[p] < Interval)
  BY <1>1 DEF Planning!TurnAssumption
<1>6. QED  BY <1>2, <1>3, <1>4, <1>5 DEF PlanInv

LEMMA PlanStep ==
  ASSUME RoomToScan, Planning!TurnAssumption, PlanInv, [Planning!Next]_(Planning!vars)
  PROVE  PlanInv'
<1>1. others \in 0..MaxOther /\ others \in Nat /\ MaxOther \in Nat
  BY DEF PlanInv, Planning!TurnAssumption
<1>2. ASSUME UNCHANGED <<log, since, others>>, job' = job \/ job' = Planning!Idle  PROVE PlanInv'
  BY <1>1, <1>2, RestartKeeps
<1>3. CASE Planning!Refresh
  BY <1>2, <1>3 DEF Planning!Refresh
<1>4. CASE Planning!PlanningFires
  BY <1>4, FiresKeeps
<1>5. CASE Planning!Planning
  BY <1>5, VisitKeeps, TriggerKeeps, FireKeeps, SendKeeps DEF Planning!Planning
<1>6. ASSUME NEW p \in Projects, Planning!DailyJob(p)  PROVE PlanInv'
  BY <1>6, DailyJobKeeps
<1>7. ASSUME NEW p \in Projects, Planning!WorkComes(p)  PROVE PlanInv'
  <2>1. others' = others + 1 /\ others < MaxOther /\ UNCHANGED <<log, since>> /\ job' = job
    BY <1>7 DEF Planning!WorkComes
  <2>2. others' \in 0..MaxOther
    BY <2>1, <1>1
  <2>3. QED  BY <2>1, <2>2, RestartKeeps
<1>8. ASSUME NEW p \in Projects, Planning!WorkGoes(p)  PROVE PlanInv'
  BY <1>2, <1>8 DEF Planning!WorkGoes
<1>9. CASE Planning!Offline
  BY <1>2, <1>9 DEF Planning!Offline
<1>10. CASE Planning!Online
  BY <1>2, <1>10 DEF Planning!Online
<1>11. CASE Planning!Restart
  BY <1>2, <1>11 DEF Planning!Restart
<1>12. CASE UNCHANGED Planning!vars
  BY <1>2, <1>12 DEF Planning!vars
<1>13. QED  BY <1>3, <1>4, <1>5, <1>6, <1>7, <1>8, <1>9, <1>10, <1>11, <1>12 DEF Planning!Next

(* A dry queue is refilled at most once in an interval (_sprint_due reads  *)
(* last_turn_at), for any projects whose records of an interval fit among  *)
(* those that are scanned.                                                 *)
THEOREM DryQueuesAreSpaced ==
  ASSUME RoomToScan  PROVE ServicesSpec => DryQueueSpaced
<1> DEFINE Inv == part = "planning" => PlanInv
<1>1. ServicesInit => Inv
  BY PlanningMoves, PlanStarts, ServicesAssumption
<1>2. Inv /\ [ServicesNext]_servicesVars => Inv'
  BY PlanningMoves, PlanStep, ServicesAssumption
<1>3. PlanInv => Planning!SpacedStep
  BY DEF PlanInv, Planning!SpacedStep
<1>4. Inv /\ [ServicesNext]_servicesVars => [part = "planning" => Planning!SpacedStep]_servicesVars
  BY <1>3
<1> HIDE DEF Inv
<1>5. QED  BY <1>1, <1>2, <1>4, PTL DEF ServicesSpec, DryQueueSpaced
=============================================================================
