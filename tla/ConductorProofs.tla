--------------------------- MODULE ConductorProofs ---------------------------
(***************************************************************************)
(* Theorems about Conductor, for any number of agents, tasks and pickers,  *)
(* every cap and budget, whatever people do meanwhile and whatever fails.  *)
(***************************************************************************)
EXTENDS Conductor, SequenceTheorems, TLAPS

(* A picker with a task in hand has an agent for it.                       *)
HandInv ==
  \A p \in Pickers :
    IF At(p, "idle") \/ At(p, "visit") THEN pick[p].task = 0
    ELSE pick[p].task \in Tasks /\ pick[p].agent \in Agents

(* What the guard rests on: a finished task is in nobody's hand, and the   *)
(* newest of its rows still is the completed one.                          *)
FinishedInv ==
  \A t \in finished : /\ ~InHand(t)
                      /\ rows[t] # <<>> /\ run[t][Latest(t)] = "completed"

-----------------------------------------------------------------------------
(* The rows of a task.                                                     *)

(* One row for each agent.                                                 *)
OneEach(s) == s \in Seq(Agents) /\ \A i, k \in DOMAIN s : s[i] = s[k] => i = k

(* An agent without a row gets the newest one.                             *)
LEMMA RowAdded ==
  ASSUME NEW s, OneEach(s), NEW a \in Agents, a \notin Members(s)
  PROVE  OneEach(Append(s, a)) /\ Members(Append(s, a)) = Members(s) \cup {a}
<1> DEFINE r == Append(s, a)
<1>1. /\ s \in Seq(Agents) /\ r \in Seq(Agents) /\ Len(r) = Len(s) + 1
      /\ DOMAIN r = 1..Len(s) + 1 /\ DOMAIN s = 1..Len(s) /\ Len(s) \in Nat
  BY DEF OneEach
<1>2. r[Len(s) + 1] = a /\ \A i \in 1..Len(s) : r[i] = s[i]
  BY <1>1
<1>3. \A i \in DOMAIN s : s[i] # a
  BY DEF Members
<1> HIDE DEF r
<1>4. ASSUME NEW i \in DOMAIN r, NEW k \in DOMAIN r, r[i] = r[k] PROVE i = k
  BY <1>1, <1>2, <1>3, <1>4 DEF OneEach
<1>5. Members(r) = Members(s) \cup {a}
  BY <1>1, <1>2 DEF Members
<1>6. OneEach(r)
  BY <1>1, <1>4 DEF OneEach
<1> QED
  BY <1>5, <1>6 DEF r

(* A withdrawn row leaves the others as they were.                         *)
LEMMA RowRemoved ==
  ASSUME NEW t \in Tasks, OneEach(rows[t]), NEW a \in Agents, a \in Members(rows[t])
  PROVE  OneEach(Withdrawn(t, a)) /\ Members(Withdrawn(t, a)) = Members(rows[t]) \ {a}
<1> DEFINE s == rows[t]
           n == Len(s)
<1>1. /\ s \in Seq(Agents) /\ DOMAIN s = 1..n /\ n \in Nat
      /\ \A i, k \in 1..n : s[i] = s[k] => i = k
  BY DEF OneEach
<1>2. PICK k \in 1..n : /\ s[k] = a
                        /\ Withdrawn(t, a) = [i \in 1..(n - 1) |-> s[IF i < k THEN i ELSE i + 1]]
  BY <1>1 DEF Withdrawn, Members
<1> HIDE DEF s
<1> DEFINE r == [i \in 1..(n - 1) |-> s[IF i < k THEN i ELSE i + 1]]
<1>3. \A i \in 1..(n - 1) : r[i] = s[IF i < k THEN i ELSE i + 1]
  OBVIOUS
<1>4. n - 1 \in Nat /\ \A i \in 1..(n - 1) : s[IF i < k THEN i ELSE i + 1] \in Agents
  BY <1>1
<1>5. r \in Seq(Agents) /\ DOMAIN r = 1..(n - 1)
  BY <1>4
<1> HIDE DEF r
<1>6. ASSUME NEW i \in DOMAIN r, NEW j \in DOMAIN r, r[i] = r[j] PROVE i = j
  BY <1>1, <1>2, <1>3, <1>5, <1>6
<1>7. ASSUME NEW i \in 1..(n - 1) PROVE \E m \in 1..n : m # k /\ r[i] = s[m]
  <2> DEFINE m == IF i < k THEN i ELSE i + 1
  <2>1. m \in 1..n /\ m # k
    BY <1>1, <1>2
  <2>2. r[i] = s[m]
    BY <1>3
  <2> QED
    BY <2>1, <2>2
<1>8. ASSUME NEW i \in 1..n, i # k PROVE \E j \in 1..(n - 1) : r[j] = s[i]
  <2>1. CASE i < k
    BY <1>1, <1>2, <1>3, <2>1
  <2>2. CASE i > k
    <3>1. i - 1 \in 1..(n - 1) /\ ~(i - 1 < k) /\ (i - 1) + 1 = i
      BY <1>1, <1>2, <2>2
    <3> QED
      BY <1>3, <3>1
  <2> QED
    BY <1>2, <1>8, <2>1, <2>2
<1>9. Members(r) = Members(s) \ {a}
  <2>1. ASSUME NEW x \in Members(r) PROVE x \in Members(s) \ {a}
    <3>1. PICK i \in 1..(n - 1) : x = r[i]
      BY <1>5 DEF Members
    <3>2. PICK m \in 1..n : m # k /\ x = s[m]
      BY <1>7, <3>1
    <3>3. x # a
      BY <1>1, <1>2, <3>2
    <3> QED
      BY <1>1, <3>2, <3>3 DEF Members
  <2>2. ASSUME NEW x \in Members(s), x # a PROVE x \in Members(r)
    <3>1. PICK i \in 1..n : x = s[i]
      BY <1>1 DEF Members
    <3>2. PICK j \in 1..(n - 1) : r[j] = x
      BY <1>2, <1>8, <2>2, <3>1
    <3> QED
      BY <1>5, <3>2 DEF Members
  <2> QED
    BY <2>1, <2>2
<1> QED
  BY <1>2, <1>5, <1>6, <1>9, SMTT(30) DEF OneEach, r, s

(* The newest row is an agent's.                                           *)
LEMMA LatestType ==
  ASSUME NEW t \in Tasks, rows[t] \in Seq(Agents), rows[t] # <<>>
  PROVE  Latest(t) \in Agents
<1>1. Len(rows[t]) \in 1..Len(rows[t])
  BY EmptySeq
<1> QED
  BY <1>1 DEF Latest

-----------------------------------------------------------------------------
(* Type correctness.                                                       *)

RunsOK ==
  /\ run \in [Tasks -> [Agents -> Status]] /\ rows \in [Tasks -> Seq(Agents)]
  /\ \A t \in Tasks : /\ OneEach(rows[t])
                      /\ \A a \in Agents : a \in Members(rows[t]) <=> run[t][a] # "none"
  /\ rested \subseteq {x \in Tasks \X Agents : run[x[1]][x[2]] = "failed"}

BoardOK ==
  /\ column \in [Tasks -> Columns] /\ assignee \in [Tasks -> Agents \cup {Nobody}]
  /\ limited \subseteq Agents /\ finished \subseteq Tasks
  /\ acts \in 0..MaxActs /\ ends \in 0..MaxEnds

PickOK == pick \in [Pickers -> Pick] /\ HandInv

LEMMA TypeParts == TypeOK /\ HandInv <=> RunsOK /\ BoardOK /\ PickOK
BY DEF TypeOK, RunsOK, BoardOK, PickOK, OneEach

(* A row that exists changes its status; a failed one is rested only until *)
(* then.                                                                   *)
LEMMA StatusSet ==
  ASSUME RunsOK, NEW t \in Tasks, NEW a \in Agents, NEW st \in Status \ {"none"},
         run[t][a] # "none", run' = [run EXCEPT ![t][a] = st], UNCHANGED rows,
         rested' \subseteq rested, <<t, a>> \notin rested'
  PROVE  RunsOK'
<1>1. run' \in [Tasks -> [Agents -> Status]]
  BY DEF RunsOK
<1>2. ASSUME NEW u \in Tasks, NEW b \in Agents
      PROVE  run'[u][b] = IF u = t /\ b = a THEN st ELSE run[u][b]
  BY DEF RunsOK
<1>3. rested' \subseteq {x \in Tasks \X Agents : run'[x[1]][x[2]] = "failed"}
  <2>1. ASSUME NEW x \in rested' PROVE x \in Tasks \X Agents /\ run'[x[1]][x[2]] = "failed"
    <3>1. x \in Tasks \X Agents /\ run[x[1]][x[2]] = "failed" /\ x # <<t, a>>
      BY <2>1 DEF RunsOK
    <3>2. PICK u \in Tasks, b \in Agents : x = <<u, b>>
      BY <3>1
    <3> QED
      BY <1>2, <3>1, <3>2
  <2> QED
    BY <2>1
<1> QED
  BY <1>1, <1>2, <1>3 DEF RunsOK, Members, OneEach

(* A draft: on the agent's old row, or on a new one.                       *)
LEMMA DraftedType ==
  ASSUME RunsOK, NEW t \in Tasks, NEW a \in Agents, Drafted(t, a)
  PROVE  RunsOK'
<1>1. CASE UNCHANGED runs
  BY <1>1 DEF RunsOK, OneEach, Members, runs
<1>2. CASE ~UNCHANGED runs
  <2>1. /\ run' = [run EXCEPT ![t][a] = "ready"]
        /\ rows' = IF a \in Members(rows[t]) THEN rows
                   ELSE [rows EXCEPT ![t] = Append(rows[t], a)]
        /\ rested' = rested \ {<<t, a>>}
    BY <1>2 DEF Drafted
  <2>2. CASE a \in Members(rows[t])
    <3>1. run[t][a] # "none" /\ "ready" \in Status \ {"none"}
      BY <2>2 DEF RunsOK, Status
    <3> QED
      BY <2>1, <2>2, <3>1, StatusSet
  <2>3. CASE a \notin Members(rows[t])
    <3> DEFINE r == Append(rows[t], a)
    <3>1. OneEach(rows[t])
      BY DEF RunsOK
    <3>2. OneEach(r) /\ Members(r) = Members(rows[t]) \cup {a}
      BY <2>3, <3>1, RowAdded
    <3> HIDE DEF r
    <3>3. r \in Seq(Agents)
      BY <3>2 DEF OneEach
    <3>4. rows' = [rows EXCEPT ![t] = r]
      BY <2>1, <2>3 DEF r
    <3>5. rows' \in [Tasks -> Seq(Agents)]
      BY <3>3, <3>4 DEF RunsOK
    <3>6. run' \in [Tasks -> [Agents -> Status]]
      BY <2>1 DEF RunsOK, Status
    <3>7. ASSUME NEW u \in Tasks, NEW b \in Agents
          PROVE  run'[u][b] = IF u = t /\ b = a THEN "ready" ELSE run[u][b]
      BY <2>1 DEF RunsOK
    <3>8. ASSUME NEW u \in Tasks
          PROVE  rows'[u] = IF u = t THEN r ELSE rows[u]
      BY <3>4 DEF RunsOK
    <3>9. ASSUME NEW u \in Tasks
          PROVE  /\ OneEach(rows'[u])
                 /\ \A b \in Agents : b \in Members(rows'[u]) <=> run'[u][b] # "none"
      BY <3>2, <3>7, <3>8 DEF RunsOK
    <3>10. rested' \subseteq {x \in Tasks \X Agents : run'[x[1]][x[2]] = "failed"}
      BY <2>1, <3>7 DEF RunsOK
    <3> QED
      BY <3>5, <3>6, <3>9, <3>10 DEF RunsOK, OneEach, Members
  <2> QED
    BY <2>2, <2>3
<1> QED
  BY <1>1, <1>2

(* A draft withdrawn takes its row along.                                  *)
LEMMA DiscardType ==
  ASSUME RunsOK, PickOK, NEW p \in Pickers, Discard(p)
  PROVE  RunsOK'
<1> DEFINE t == pick[p].task
           a == pick[p].agent
           r == Withdrawn(t, a)
<1>1. t \in Tasks /\ a \in Agents
  BY DEF Discard, PickOK, HandInv, At
<1>2. CASE UNCHANGED runs
  BY <1>2 DEF RunsOK, OneEach, Members, runs
<1>3. CASE ~UNCHANGED runs
  <2>1. /\ run[t][a] = "ready" /\ run' = [run EXCEPT ![t][a] = "none"]
        /\ rows' = [rows EXCEPT ![t] = r] /\ rested' = rested
    BY <1>3 DEF Discard
  <2>2. OneEach(rows[t]) /\ a \in Members(rows[t])
    BY <1>1, <2>1 DEF RunsOK
  <2>3. OneEach(r) /\ Members(r) = Members(rows[t]) \ {a}
    BY <1>1, <2>2, RowRemoved
  <2> HIDE DEF r, t, a
  <2>4. rows' \in [Tasks -> Seq(Agents)]
    BY <2>1, <2>3 DEF RunsOK, OneEach
  <2>5. run' \in [Tasks -> [Agents -> Status]]
    BY <2>1 DEF RunsOK, Status
  <2>6. ASSUME NEW u \in Tasks, NEW b \in Agents
        PROVE  run'[u][b] = IF u = t /\ b = a THEN "none" ELSE run[u][b]
    BY <2>1 DEF RunsOK
  <2>7. ASSUME NEW u \in Tasks
        PROVE  rows'[u] = IF u = t THEN r ELSE rows[u]
    BY <2>1 DEF RunsOK
  <2>8. ASSUME NEW u \in Tasks
        PROVE  /\ OneEach(rows'[u])
               /\ \A b \in Agents : b \in Members(rows'[u]) <=> run'[u][b] # "none"
    <3>1. CASE u = t
      BY <1>1, <2>3, <2>6, <2>7, <3>1 DEF RunsOK
    <3>2. CASE u # t
      BY <2>6, <2>7, <3>2 DEF RunsOK
    <3> QED
      BY <3>1, <3>2
  <2>9. rested' \subseteq {x \in Tasks \X Agents : run'[x[1]][x[2]] = "failed"}
    BY <2>1, <2>6 DEF RunsOK
  <2> QED
    BY <2>4, <2>5, <2>8, <2>9 DEF RunsOK, OneEach, Members
<1> QED
  BY <1>2, <1>3

(* Every step keeps the rows in order.                                     *)
LEMMA RunsStep ==
  ASSUME RunsOK, PickOK, Next
  PROVE  RunsOK'
<1>1. CASE UNCHANGED runs
  BY <1>1 DEF RunsOK, OneEach, Members, runs
<1>2. ASSUME NEW p \in Pickers, Prepare(p) PROVE RunsOK'
  <2>1. pick[p].task \in Tasks /\ pick[p].agent \in Agents
    BY <1>2 DEF Prepare, PickOK, HandInv, At
  <2> QED
    BY <1>2, <2>1, DraftedType DEF Prepare
<1>3. ASSUME NEW p \in Pickers, Start(p) PROVE RunsOK'
  <2> DEFINE t == pick[p].task
             a == pick[p].agent
  <2>1. t \in Tasks /\ a \in Agents
    BY <1>3 DEF Start, PickOK, HandInv, At
  <2>2. /\ run' = IF a \in Members(rows[t]) THEN [run EXCEPT ![t][a] = "running"] ELSE run
        /\ rested' = rested \ {<<t, a>>} /\ rows' = rows
    BY <1>3 DEF Start
  <2> HIDE DEF t, a
  <2>3. CASE a \in Members(rows[t])
    <3>1. run[t][a] # "none" /\ "running" \in Status \ {"none"}
      BY <2>1, <2>3 DEF RunsOK, Status
    <3> QED
      BY <2>1, <2>2, <2>3, <3>1, StatusSet
  <2>4. CASE a \notin Members(rows[t])
    BY <2>2, <2>4 DEF RunsOK, OneEach, Members
  <2> QED
    BY <2>3, <2>4
<1>4. ASSUME NEW p \in Pickers, Discard(p) PROVE RunsOK'
  BY <1>4, DiscardType
<1>5. ASSUME NEW t \in Tasks, NEW a \in Agents, NEW st \in Status, TurnEnds(t, a, st)
      PROVE  RunsOK'
  <2>1. /\ run[t][a] = "running" /\ st \in Status \ {"none"}
        /\ run' = [run EXCEPT ![t][a] = st] /\ UNCHANGED <<rows, rested>>
    BY <1>5 DEF TurnEnds
  <2>2. <<t, a>> \notin rested
    BY <2>1 DEF RunsOK
  <2> QED
    BY <2>1, <2>2, StatusSet
<1>6. ASSUME NEW t \in Tasks, NEW a \in Agents, CoolsDown(t, a) PROVE RunsOK'
  <2>1. run[t][a] = "failed" /\ rested' = rested \cup {<<t, a>>} /\ UNCHANGED <<rows, run>>
    BY <1>6 DEF CoolsDown
  <2> QED
    BY <2>1 DEF RunsOK, OneEach, Members
<1>7. ASSUME NEW t \in Tasks, NEW a \in Agents, Assign(t, a) PROVE RunsOK'
  BY <1>7, DraftedType DEF Assign
<1>8. ASSUME NEW t \in Tasks, NEW a \in Agents, StartDraft(t, a) PROVE RunsOK'
  <2>1. /\ run[t][a] = "ready" /\ run' = [run EXCEPT ![t][a] = "running"]
        /\ UNCHANGED <<rows, rested>>
    BY <1>8 DEF StartDraft, Dispatchable
  <2>2. <<t, a>> \notin rested /\ "running" \in Status \ {"none"} /\ run[t][a] # "none"
    BY <2>1 DEF RunsOK, Status
  <2> QED
    BY <2>1, <2>2, StatusSet
<1>9. ASSUME NEW t \in Tasks, NEW a \in Agents, Pause(t, a) PROVE RunsOK'
  <2>1. /\ run[t][a] = "running" /\ run' = [run EXCEPT ![t][a] = "paused"]
        /\ UNCHANGED <<rows, rested>>
    BY <1>9 DEF Pause
  <2>2. <<t, a>> \notin rested /\ "paused" \in Status \ {"none"} /\ run[t][a] # "none"
    BY <2>1 DEF RunsOK, Status
  <2> QED
    BY <2>1, <2>2, StatusSet
<1>10. ASSUME NEW t \in Tasks, NEW a \in Agents, Resume(t, a) PROVE RunsOK'
  <2>1. /\ run[t][a] = "paused" /\ run' = [run EXCEPT ![t][a] = "running"]
        /\ UNCHANGED <<rows, rested>>
    BY <1>10 DEF Resume
  <2>2. <<t, a>> \notin rested /\ "running" \in Status \ {"none"} /\ run[t][a] # "none"
    BY <2>1 DEF RunsOK, Status
  <2> QED
    BY <2>1, <2>2, StatusSet
<1> QED
  BY <1>1, <1>2, <1>3, <1>4, <1>5, <1>6, <1>7, <1>8, <1>9, <1>10
     DEF Next, Picks, TickBegins, Visit, Check, Claim, Plan, Move, Limit, LimitLifts,
         Crash, runs

LEMMA BoardStep ==
  ASSUME BoardOK, PickOK, Next
  PROVE  BoardOK'
<1> USE CapAssumption
<1>1. ASSUME NEW p \in Pickers, Claim(p) PROVE BoardOK'
  BY <1>1 DEF Claim, Claimed, PickOK, HandInv, At, BoardOK, Columns
<1>2. ASSUME NEW t \in Tasks, NEW a \in Agents, NEW st \in Status, TurnEnds(t, a, st)
      PROVE  BoardOK'
  BY <1>2 DEF TurnEnds, BoardOK, board
<1>3. ASSUME NEW t \in Tasks, NEW a \in Agents, Plan(t, a) PROVE BoardOK'
  BY <1>3 DEF Plan, Act, BoardOK
<1>4. ASSUME NEW t \in Tasks, NEW a \in Agents, Assign(t, a) PROVE BoardOK'
  BY <1>4 DEF Assign, Act, BoardOK
<1>5. ASSUME NEW t \in Tasks, NEW a \in Agents, StartDraft(t, a) \/ Pause(t, a) PROVE BoardOK'
  BY <1>5 DEF StartDraft, Pause, Act, BoardOK, board
<1>6. ASSUME NEW t \in Tasks, NEW c \in Columns, Move(t, c) PROVE BoardOK'
  BY <1>6 DEF Move, Act, BoardOK
<1>7. ASSUME NEW a \in Agents, Limit(a) \/ LimitLifts(a) PROVE BoardOK'
  BY <1>7 DEF Limit, LimitLifts, BoardOK, board
<1>8. CASE Crash
  BY <1>8 DEF Crash, BoardOK, board
<1>9. CASE UNCHANGED <<board, limited, finished, acts, ends>>
  BY <1>9 DEF BoardOK, board
<1> QED
  BY <1>1, <1>2, <1>3, <1>4, <1>5, <1>6, <1>7, <1>8, <1>9
     DEF Next, Picks, TickBegins, Visit, Prepare, Check, Start, Discard, CoolsDown, Resume

(* What a picker may become.                                               *)
Holds(r) ==
  IF r.pc \in {"idle", "visit"} THEN r.task = 0 ELSE r.task \in Tasks /\ r.agent \in Agents

LEMMA PickerGoes ==
  ASSUME PickOK, NEW p \in Pickers, NEW r \in Pick, Holds(r), Goes(p, r)
  PROVE  PickOK'
<1>1. pick' \in [Pickers -> Pick]
  BY DEF Goes, PickOK
<1>2. ASSUME NEW q \in Pickers PROVE Holds(pick'[q])
  BY DEF Goes, PickOK, HandInv, Holds, At
<1> QED
  BY <1>1, <1>2 DEF PickOK, HandInv, Holds, At

LEMMA IdleHolds == Idle \in Pick /\ Holds(Idle)
BY DEF Idle, Pick, Holds

LEMMA Next1Goes ==
  ASSUME PickOK, NEW p \in Pickers, Next1(p)
  PROVE  PickOK'
<1>1. CASE pick[p].queue = {}
  BY <1>1, PickerGoes, IdleHolds DEF Next1
<1>2. CASE pick[p].queue # {}
  <2> DEFINE r == [Idle EXCEPT !.pc = "visit", !.queue = pick[p].queue]
  <2>1. pick[p].queue \in SUBSET Agents
    BY DEF PickOK, Pick
  <2>2. r \in Pick /\ Holds(r)
    BY <2>1 DEF Idle, Pick, Holds
  <2>3. Goes(p, r)
    BY <1>2 DEF Next1
  <2> HIDE DEF r
  <2> QED
    BY <2>2, <2>3, PickerGoes
<1> QED
  BY <1>1, <1>2

LEMMA StepGoes ==
  ASSUME PickOK, NEW p \in Pickers, ~At(p, "idle"), ~At(p, "visit"),
         NEW pc \in {"check", "start", "discard", "claim"}, Step(p, pc)
  PROVE  PickOK'
<1> DEFINE r == [pick[p] EXCEPT !.pc = pc]
<1>1. pick[p] \in Pick /\ Holds(pick[p]) /\ pick[p].pc \notin {"idle", "visit"}
  BY DEF PickOK, HandInv, Holds, At
<1>2. r \in Pick /\ Holds(r)
  BY <1>1 DEF Pick, Holds
<1>3. Goes(p, r)
  BY DEF Step
<1> HIDE DEF r
<1> QED
  BY <1>2, <1>3, PickerGoes

(* A picker that begins has agents to visit and nothing in hand.           *)
LEMMA BeginsHolds ==
  ASSUME NEW Q \in SUBSET Agents
  PROVE  LET r == [Idle EXCEPT !.pc = "visit", !.queue = Q]
         IN  r \in Pick /\ Holds(r) /\ r.task = 0
BY DEF Idle, Pick, Holds

(* What a visit makes of a picker.                                         *)
LEMMA VisitGoes ==
  ASSUME PickOK, NEW p \in Pickers, Visit(p)
  PROVE  \E r \in Pick : /\ Holds(r) /\ Goes(p, r)
                         /\ r.task = 0 \/ \E a \in Agents : r.task \in Choices(a)
<1>1. PICK a \in pick[p].queue :
        LET rest == [pick[p] EXCEPT !.queue = @ \ {a}] IN
        IF InFlight(a) < Cap /\ Choices(a) # {}
        THEN \E t \in Choices(a) :
               Goes(p, [rest EXCEPT !.pc = "prepare", !.agent = a, !.task = t])
        ELSE Goes(p, IF rest.queue = {} THEN Idle ELSE rest)
  BY DEF Visit
<1> DEFINE rest == [pick[p] EXCEPT !.queue = @ \ {a}]
<1>2. pick[p] \in Pick /\ Holds(pick[p]) /\ pick[p].pc = "visit" /\ a \in Agents
  BY DEF PickOK, HandInv, Holds, At, Visit, Pick
<1>3. rest \in Pick /\ Holds(rest) /\ rest.task = 0
  BY <1>2 DEF Pick, Holds
<1>4. CASE InFlight(a) < Cap /\ Choices(a) # {}
  <2>1. PICK t \in Choices(a) :
          Goes(p, [rest EXCEPT !.pc = "prepare", !.agent = a, !.task = t])
    BY <1>1, <1>4
  <2> DEFINE r == [rest EXCEPT !.pc = "prepare", !.agent = a, !.task = t]
  <2>2. t \in Tasks
    BY DEF Choices, Candidates
  <2> HIDE DEF rest
  <2>3. r \in Pick /\ Holds(r) /\ r.task = t
    BY <1>2, <1>3, <2>2 DEF Pick, Holds
  <2> HIDE DEF r
  <2>4. Goes(p, r)
    BY <2>1 DEF r
  <2> QED
    BY <1>2, <2>3, <2>4
<1>5. CASE ~(InFlight(a) < Cap /\ Choices(a) # {})
  <2>1. Goes(p, IF rest.queue = {} THEN Idle ELSE rest)
    BY <1>1, <1>5
  <2> HIDE DEF rest
  <2>2. Idle.task = 0
    BY DEF Idle
  <2> QED
    BY <1>3, <2>1, <2>2, IdleHolds
<1> QED
  BY <1>4, <1>5

(* A picker comes to a task by a visit alone.                              *)
LEMMA PickStep ==
  ASSUME PickOK, BoardOK, Next
  PROVE  /\ PickOK'
         /\ \A p \in Pickers : \/ pick'[p].task = 0
                               \/ pick'[p].task = pick[p].task
                               \/ \E a \in Agents : pick'[p].task \in Choices(a)
<1> DEFINE Known(p) == \/ pick'[p].task = 0 \/ pick'[p].task = pick[p].task
                       \/ \E a \in Agents : pick'[p].task \in Choices(a)
           Goal == PickOK' /\ \A p \in Pickers : Known(p)
<1>1. ASSUME NEW p \in Pickers, NEW r \in Pick, Holds(r), Goes(p, r),
             \/ r.task = 0 \/ r.task = pick[p].task
             \/ \E a \in Agents : r.task \in Choices(a)
      PROVE  Goal
  <2>1. PickOK'
    BY <1>1, PickerGoes
  <2>2. \A q \in Pickers : pick'[q] = IF q = p THEN r ELSE pick[q]
    BY <1>1 DEF Goes, PickOK
  <2> QED
    BY <1>1, <2>1, <2>2
<1>2. CASE UNCHANGED pick
  BY <1>2 DEF PickOK, HandInv, At
<1>3. CASE TickBegins
  <2> DEFINE r == [Idle EXCEPT !.pc = "visit", !.queue = Agents \ limited]
  <2>1. r \in Pick /\ Holds(r) /\ r.task = 0
    BY BeginsHolds
  <2>2. Goes(Ticker, r) /\ Ticker \in Pickers
    BY <1>3 DEF TickBegins, Pickers
  <2> HIDE DEF r
  <2> QED
    BY <1>1, <2>1, <2>2
<1>4. ASSUME NEW p \in Pickers, Visit(p) PROVE Goal
  <2>1. PICK r \in Pick : /\ Holds(r) /\ Goes(p, r)
                          /\ r.task = 0 \/ \E a \in Agents : r.task \in Choices(a)
    BY <1>4, VisitGoes
  <2> QED
    BY <1>1, <2>1
<1>5. ASSUME NEW p \in Pickers, Prepare(p) \/ Check(p) \/ Start(p) PROVE Goal
  <2>1. PICK pc \in {"check", "start", "discard", "claim"} : Step(p, pc)
    BY <1>5 DEF Prepare, Check, Start
  <2>2. ~At(p, "idle") /\ ~At(p, "visit")
    BY <1>5 DEF Prepare, Check, Start, At
  <2>3. PickOK'
    BY <2>1, <2>2, StepGoes
  <2>4. \A q \in Pickers : pick'[q].task = pick[q].task
    BY <2>1 DEF Step, Goes, PickOK, Pick
  <2> QED
    BY <2>3, <2>4
<1>6. ASSUME NEW p \in Pickers, Discard(p) \/ Claim(p) PROVE Goal
  <2>1. Next1(p)
    BY <1>6 DEF Discard, Claim
  <2>2. PickOK'
    BY <2>1, Next1Goes
  <2>3. \A q \in Pickers : pick'[q].task = IF q = p THEN 0 ELSE pick[q].task
    BY <2>1 DEF Next1, Goes, PickOK, Pick, Idle
  <2> QED
    BY <2>2, <2>3
<1>7. ASSUME NEW t \in Tasks, NEW a \in Agents, NEW st \in Status, TurnEnds(t, a, st)
      PROVE  Goal
  <2> DEFINE r == [Idle EXCEPT !.pc = "visit", !.queue = {a}]
  <2>1. r \in Pick /\ Holds(r) /\ r.task = 0
    BY BeginsHolds
  <2>2. UNCHANGED pick \/ \E p \in Pickers : Goes(p, r)
    BY <1>7 DEF TurnEnds, Pickers
  <2> HIDE DEF r
  <2> QED
    BY <1>1, <1>2, <2>1, <2>2
<1>8. CASE Crash
  <2>1. pick' = [p \in Pickers |-> Idle]
    BY <1>8 DEF Crash
  <2> QED
    BY <2>1, IdleHolds DEF PickOK, HandInv, Holds, At, Idle
<1> QED
  BY <1>2, <1>3, <1>4, <1>5, <1>6, <1>7, <1>8
     DEF Next, Picks, CoolsDown, Plan, Assign, StartDraft, Pause, Resume, Move, Limit,
         LimitLifts

-----------------------------------------------------------------------------
(* Finished tasks.                                                         *)

(* What a visit may pick is not finished: the newest row is nobody's, a    *)
(* draft or a failure.                                                     *)
LEMMA FinishedNotChosen ==
  ASSUME RunsOK, BoardOK, FinishedInv, NEW t \in finished, NEW a \in Agents
  PROVE  t \notin Choices(a)
<1>1. t \in Tasks /\ rows[t] # <<>> /\ run[t][Latest(t)] = "completed"
  BY DEF BoardOK, FinishedInv
<1>2. Latest(t) \in Agents
  BY <1>1, LatestType DEF RunsOK
<1>3. ~Eligible(t, a)
  BY <1>1, <1>2, PickerAssumption DEF Eligible, Recoverable
<1> QED
  BY <1>3 DEF Choices

(* A step that is nobody's with the task in hand, nor a person's draft,    *)
(* leaves the rows of a finished task and its newest status.               *)
LEMMA FinishedRowStays ==
  ASSUME RunsOK, BoardOK, PickOK, FinishedInv, Next, NEW t \in finished, t \in finished'
  PROVE  rows'[t] = rows[t] /\ run'[t][Latest(t)] = "completed"
<1> DEFINE l == Latest(t)
           Goal == rows'[t] = rows[t] /\ run'[t][l] = "completed"
<1>1. t \in Tasks /\ ~InHand(t) /\ rows[t] # <<>> /\ run[t][l] = "completed"
  BY DEF BoardOK, FinishedInv
<1>2. l \in Agents
  BY <1>1, LatestType DEF RunsOK
<1> HIDE DEF l
<1>3. ASSUME UNCHANGED <<rows, run>> PROVE Goal
  BY <1>1, <1>3
<1>4. ASSUME NEW u \in Tasks, NEW b \in Agents, NEW st, u # t \/ run[u][b] # "completed",
             run' = [run EXCEPT ![u][b] = st], rows'[t] = rows[t]
      PROVE  Goal
  BY <1>1, <1>2, <1>4 DEF RunsOK
<1>5. ASSUME NEW u \in Tasks, NEW b \in Agents, u # t, Drafted(u, b) PROVE Goal
  <2>1. \/ UNCHANGED <<rows, run>>
        \/ /\ run' = [run EXCEPT ![u][b] = "ready"]
           /\ \/ rows' = rows
              \/ rows' = [rows EXCEPT ![u] = Append(@, b)]
    BY <1>5 DEF Drafted, runs
  <2>2. rows'[t] = rows[t]
    BY <1>1, <1>5, <2>1 DEF RunsOK
  <2> QED
    BY <1>3, <1>4, <1>5, <2>1, <2>2
<1>6. ASSUME NEW p \in Pickers, Picks(p) PROVE Goal
  <2>1. pick[p].task # t
    BY <1>1, <1>6 DEF InHand
  <2>2. ASSUME ~At(p, "idle"), ~At(p, "visit")
        PROVE  pick[p].task \in Tasks /\ pick[p].agent \in Agents
    BY <2>2 DEF PickOK, HandInv
  <2>3. CASE Prepare(p)
    BY <1>5, <2>1, <2>2, <2>3 DEF Prepare, At
  <2>4. CASE Start(p)
    <3>1. PICK u \in Tasks, b \in Agents : u = pick[p].task /\ b = pick[p].agent
      BY <2>2, <2>4 DEF Start, At
    <3>2. rows' = rows /\ (run' = run \/ run' = [run EXCEPT ![u][b] = "running"])
      BY <2>4, <3>1 DEF Start
    <3>3. u # t
      BY <2>1, <3>1
    <3> QED
      BY <1>3, <1>4, <3>2, <3>3
  <2>5. CASE Discard(p)
    <3>1. PICK u \in Tasks, b \in Agents : u = pick[p].task /\ b = pick[p].agent
      BY <2>2, <2>5 DEF Discard, At
    <3>2. \/ UNCHANGED <<rows, run>>
          \/ /\ run' = [run EXCEPT ![u][b] = "none"]
             /\ rows' = [rows EXCEPT ![u] = Withdrawn(u, b)]
      BY <2>5, <3>1 DEF Discard, runs
    <3>3. u # t
      BY <2>1, <3>1
    <3>4. rows'[t] = rows[t]
      BY <1>1, <3>2, <3>3 DEF RunsOK
    <3> QED
      BY <1>3, <1>4, <3>2, <3>3, <3>4
  <2> QED
    BY <1>3, <1>6, <2>3, <2>4, <2>5 DEF Picks, Visit, Check, Claim, runs
<1>7. ASSUME NEW u \in Tasks, NEW b \in Agents, NEW st \in Status, TurnEnds(u, b, st)
      PROVE  Goal
  BY <1>4, <1>7 DEF TurnEnds
<1>8. ASSUME NEW u \in Tasks, NEW b \in Agents, Assign(u, b) PROVE Goal
  BY <1>5, <1>8 DEF Assign
<1>9. ASSUME NEW u \in Tasks, NEW b \in Agents,
             StartDraft(u, b) \/ Pause(u, b) \/ Resume(u, b)
      PROVE  Goal
  BY <1>4, <1>9 DEF StartDraft, Pause, Resume, Dispatchable
<1> QED
  BY <1>3, <1>6, <1>7, <1>8, <1>9
     DEF Next, TickBegins, CoolsDown, Plan, Move, Limit, LimitLifts, Crash, runs, l

LEMMA FinishedStep ==
  ASSUME RunsOK, BoardOK, PickOK, FinishedInv, Next
  PROVE  FinishedInv'
<1>1. ASSUME NEW t \in Tasks, ~InHand(t), \A a \in Agents : t \notin Choices(a)
      PROVE  ~InHand(t)'
  BY <1>1, PickStep DEF InHand, Tasks
<1>2. ASSUME NEW t \in finished, t \in finished'
      PROVE  ~InHand(t)' /\ rows'[t] # <<>> /\ run'[t][Latest(t)'] = "completed"
  <2>1. t \in Tasks /\ ~InHand(t) /\ rows[t] # <<>>
    BY DEF BoardOK, FinishedInv
  <2>2. rows'[t] = rows[t] /\ run'[t][Latest(t)] = "completed"
    BY <1>2, FinishedRowStays
  <2> QED
    BY <1>1, <2>1, <2>2, FinishedNotChosen DEF Latest
<1>3. ASSUME NEW t \in finished', t \notin finished
      PROVE  ~InHand(t)' /\ rows'[t] # <<>> /\ run'[t][Latest(t)'] = "completed"
  <2>1. PICK u \in Tasks, a \in Agents, st \in Status : TurnEnds(u, a, st)
    BY <1>3 DEF Next, Picks, TickBegins, Visit, Prepare, Check, Start, Discard, Claim,
                CoolsDown, Plan, Assign, StartDraft, Pause, Resume, Move, Limit,
                LimitLifts, Crash
  <2>2. u = t /\ Latest(t) = a /\ st = "completed"
    BY <1>3, <2>1 DEF TurnEnds
  <2>3. ~InHand(t) /\ run' = [run EXCEPT ![t][a] = "completed"] /\ rows' = rows
    BY <2>1, <2>2 DEF TurnEnds
  <2>4. ~InHand(t)'
    <3>1. \A p \in Pickers : pick'[p].task = pick[p].task \/ pick'[p].task = 0
      BY <2>1 DEF TurnEnds, Goes, Idle, PickOK
    <3> QED
      BY <2>2, <2>3, <3>1 DEF InHand, Tasks
  <2>5. rows[t] # <<>>
    BY <2>2, PickerAssumption DEF Latest
  <2> QED
    BY <2>2, <2>3, <2>4, <2>5 DEF RunsOK, Latest
<1> QED
  BY <1>2, <1>3 DEF FinishedInv

-----------------------------------------------------------------------------
ConductorInv == TypeOK /\ HandInv /\ FinishedInv

LEMMA ConductorInvHolds == Spec => []ConductorInv
<1>1. Init => ConductorInv
  <2> SUFFICES ASSUME Init PROVE ConductorInv
    OBVIOUS
  <2> USE DEF Init
  <2>1. RunsOK
    BY DEF RunsOK, OneEach, Members, Status
  <2>2. BoardOK
    BY CapAssumption DEF BoardOK, Columns
  <2>3. PickOK
    BY IdleHolds DEF PickOK, HandInv, Holds, At, Idle
  <2>4. FinishedInv
    BY DEF FinishedInv
  <2> QED
    BY <2>1, <2>2, <2>3, <2>4, TypeParts DEF ConductorInv
<1>2. ConductorInv /\ [Next]_vars => ConductorInv'
  <2> SUFFICES ASSUME ConductorInv, [Next]_vars PROVE ConductorInv'
    OBVIOUS
  <2>1. RunsOK /\ BoardOK /\ PickOK /\ FinishedInv
    BY TypeParts DEF ConductorInv
  <2>2. CASE Next
    <3>1. RunsOK' /\ BoardOK' /\ PickOK' /\ FinishedInv'
      BY <2>1, <2>2, RunsStep, BoardStep, PickStep, FinishedStep
    <3>2. (RunsOK /\ BoardOK /\ PickOK => TypeOK /\ HandInv)'
      BY DEF TypeOK, RunsOK, BoardOK, PickOK, OneEach, Members
    <3> QED
      BY <3>1, <3>2 DEF ConductorInv
  <2>3. CASE UNCHANGED vars
    BY <2>3 DEF ConductorInv, TypeOK, Members, HandInv, FinishedInv, InHand, Latest, At, vars
  <2> QED
    BY <2>2, <2>3
<1> QED
  BY <1>1, <1>2, PTL DEF Spec

(* Type correctness: every agent has at most one row on a task, a row has  *)
(* a status and only rows have one, only failed rows are ever rested, and  *)
(* no picker loses what it has in hand.                                    *)
THEOREM TypeCorrect == Spec => []TypeOK
<1>1. ConductorInv => TypeOK
  BY DEF ConductorInv
<1> QED
  BY <1>1, ConductorInvHolds, PTL

(* The runaway guard: no picker ever starts a run on a task whose newest   *)
(* run completed (forge/conductor.py: _task_run_eligible), although it     *)
(* reads, prepares, dispatches and claims in sessions of their own.        *)
THEOREM CompletedIsNotRedispatched == Spec => CompletedStaysCompleted
<1> DEFINE Guard == \A p \in Pickers : Starts(p) => pick[p].task \notin finished
<1>1. ConductorInv => Guard
  <2> SUFFICES ASSUME ConductorInv, NEW p \in Pickers, Starts(p)
               PROVE  pick[p].task \notin finished
    OBVIOUS
  <2> QED
    BY DEF ConductorInv, FinishedInv, InHand, Starts
<1>2. Spec => [][Guard]_vars
  BY <1>1, ConductorInvHolds, PTL
<1> QED
  BY <1>2 DEF CompletedStaysCompleted
=============================================================================
