------------------------------ MODULE TaskGraph ------------------------------
(***************************************************************************)
(* The task graph (task_graph.py, task_links.py, task_batch.py and their   *)
(* repos): the tree of child tasks and the typed links between the tasks   *)
(* of one project, of which the depends_on links gate scheduling.  A       *)
(* request resolves its tasks, proves that its write keeps the graph       *)
(* acyclic, and writes; nothing is locked in between.                      *)
(*                                                                         *)
(* relates_to and duplicates behave alike and are "other".  Milestones,    *)
(* which only label tasks, and authorisation are left out.                 *)
(***************************************************************************)
EXTENDS Integers

CONSTANTS
  Tasks, NoTask,
  Requests,     \* requests served at once
  MaxDepth,     \* MAX_DEPTH: how far ancestor_ids walks
  MaxCalls      \* bound: requests in all

ASSUME GraphAssumption == NoTask \notin Tasks /\ MaxDepth \in Nat /\ MaxCalls \in Nat

VARIABLES
  exist,     \* the tasks there are
  parent,    \* parent[t]
  deps,      \* links of type depends_on: <<task_id, depends_on_id>>
  others,    \* links of the other types
  request,   \* request[r]: the write it has proved and not made yet
  calls

vars == <<exist, parent, deps, others, request, calls>>

Pairs == Tasks \X Tasks
Ops   == {"none", "add", "depend", "link", "parent", "batch"}
Call  == [op : Ops, type : {"depends_on", "other"},
          from : Tasks \cup {NoTask}, to : Tasks \cup {NoTask},
          new : SUBSET Tasks, edges : SUBSET Pairs]
Idle  == [op |-> "none", type |-> "other", from |-> NoTask, to |-> NoTask,
          new |-> {}, edges |-> {}]

-----------------------------------------------------------------------------
(* The checks.                                                             *)

(* A relation without cycles: whatever part of the tasks one takes, one of *)
(* them leads nowhere within it.                                           *)
Acyclic(R) == \A X \in SUBSET Tasks : X # {} => \E x \in X : \A y \in X : <<x, y>> \notin R

Closed(R, X) == \A e \in R : e[1] \in X => e[2] \in X

(* Mutant of Reaches: only the links of start itself are followed.         *)
ReachesAtOnce(R, start, target) == start = target \/ <<start, target>> \in R

(* _reaches: what a search along the links finds is the least set that     *)
(* holds start and is closed under them.                                   *)
Reaches(R, start, target) ==
  \A X \in SUBSET Tasks : start \in X /\ Closed(R, X) => target \in X

(* ancestor_ids: at most MaxDepth steps up.                                *)
Ancestors(t) ==
  LET Up[n \in 0..MaxDepth] == IF n = 0 THEN t
                               ELSE IF Up[n - 1] = NoTask THEN NoTask
                               ELSE parent[Up[n - 1]]
  IN  {Up[n] : n \in 1..MaxDepth} \ {NoTask}

(* Mutant of ValidParent: the proposed parent's own line is not walked.    *)
ValidParentFlat(t, p) == p \in exist /\ p # t

(* validate_parent.                                                        *)
ValidParent(t, p) == p \in exist /\ p # t /\ t \notin Ancestors(p)

(* What Kahn's peeling leaves: the tasks on or behind a cycle.             *)
Leftover(R, S) == UNION {X \in SUBSET S : \A x \in X : \E y \in X : <<x, y>> \in R}

Between(a, b) == {<<a, b>>, <<b, a>>}

-----------------------------------------------------------------------------
Init ==
  /\ exist = {} /\ parent = [t \in Tasks |-> NoTask]
  /\ deps = {} /\ others = {}
  /\ request = [r \in Requests |-> Idle] /\ calls = 0

Begins(r) == request[r] = Idle /\ calls < MaxCalls /\ calls' = calls + 1
Proved(r, c) == /\ request' = [request EXCEPT ![r] = c]
                /\ UNCHANGED <<exist, parent, deps, others>>

(* TaskService.create, with or without a parent.  A new task is no one's   *)
(* ancestor.                                                               *)
Create(r, t, p) ==
  /\ Begins(r) /\ t \notin exist /\ (p = NoTask \/ p \in exist)
  /\ \A q \in Requests : t \notin request[q].new
  /\ Proved(r, [Idle EXCEPT !.op = "add", !.from = t, !.to = p, !.new = {t}])

(* create_tasks: tasks and dependencies in one transaction, validated      *)
(* before anything is written.                                             *)
Batch(r, S, R) ==
  /\ Begins(r) /\ S # {} /\ S \cap exist = {}
  /\ \A q \in Requests : S \cap request[q].new = {}
  /\ R \subseteq S \X S /\ Leftover(R, S) = {}
  /\ Proved(r, [Idle EXCEPT !.op = "batch", !.new = S, !.edges = R])

(* add_dependency: a row from a to b, whatever its type, is returned.      *)
AddDependency(r, a, b) ==
  /\ Begins(r) /\ a \in exist /\ b \in exist
  /\ <<a, b>> \notin deps \cup others
  /\ ~Reaches(deps, b, a)
  /\ Proved(r, [Idle EXCEPT !.op = "depend", !.type = "depends_on", !.from = a, !.to = b])

(* add_link of a type that is a row; a and b in the direction it is        *)
(* stored.  The test that they differ compares references, and one task    *)
(* has two, its id and its key.                                            *)
AddLink(r, a, b, type) ==
  /\ Begins(r) /\ a \in exist /\ b \in exist
  /\ type = "depends_on" => ~Reaches(deps, b, a)
  /\ Proved(r, [Idle EXCEPT !.op = "link", !.type = type, !.from = a, !.to = b])

(* update_task(parent_id), and add_link of a hierarchy type.               *)
SetParent(r, t, p) ==
  /\ Begins(r) /\ t \in exist /\ ValidParent(t, p)
  /\ Proved(r, [Idle EXCEPT !.op = "parent", !.from = t, !.to = p])

(* The write.  Postgres refuses one that refers to a task deleted          *)
(* meanwhile and a second row for the same ends.                           *)
Row(c) == <<c.from, c.to>>

Written(c) ==
  CASE c.op = "add"    -> /\ exist' = exist \cup c.new
                          /\ parent' = [parent EXCEPT ![c.from] = c.to]
                          /\ UNCHANGED <<deps, others>>
    [] c.op = "batch"  -> /\ exist' = exist \cup c.new /\ deps' = deps \cup c.edges
                          /\ UNCHANGED <<parent, others>>
    [] c.op = "depend" -> /\ deps' = deps \cup {Row(c)}
                          /\ UNCHANGED <<exist, parent, others>>
    [] c.op = "link"   -> /\ deps' = (deps \ Between(c.from, c.to))
                                       \cup (IF c.type = "depends_on" THEN {Row(c)} ELSE {})
                          /\ others' = (others \ Between(c.from, c.to))
                                       \cup (IF c.type = "other" THEN {Row(c)} ELSE {})
                          /\ UNCHANGED <<exist, parent>>
    [] c.op = "parent" -> /\ parent' = [parent EXCEPT ![c.from] = c.to]
                          /\ UNCHANGED <<exist, deps, others>>

Valid(c) ==
  /\ {c.from, c.to} \ {NoTask} \subseteq exist \cup c.new
  /\ c.op = "depend" => Row(c) \notin deps \cup others

Write(r) ==
  /\ request[r] # Idle
  /\ IF Valid(request[r]) THEN Written(request[r])
     ELSE UNCHANGED <<exist, parent, deps, others>>
  /\ request' = [request EXCEPT ![r] = Idle]
  /\ UNCHANGED calls

(* The writes that prove nothing: remove_dependency and remove_link, a     *)
(* parent detached, and TaskService.delete.                                *)
Unlink(a, b) ==
  /\ <<a, b>> \in deps \cup others
  /\ \/ deps' = deps \ {<<a, b>>} /\ UNCHANGED others
     \/ others' = others \ {<<a, b>>} /\ UNCHANGED deps
  /\ UNCHANGED <<exist, parent, request, calls>>

Detach(t) ==
  /\ parent[t] # NoTask
  /\ parent' = [parent EXCEPT ![t] = NoTask]
  /\ UNCHANGED <<exist, deps, others, request, calls>>

(* delete_edges_for_task: either way.                                      *)
Touching(t, R) == {e \in R : t \in {e[1], e[2]}}

Delete(t) ==
  /\ t \in exist
  /\ exist' = exist \ {t}
  /\ deps' = deps \ Touching(t, deps) /\ others' = others \ Touching(t, others)
  /\ parent' = [u \in Tasks |-> IF u = t \/ parent[u] = t THEN NoTask ELSE parent[u]]
  /\ UNCHANGED <<request, calls>>

-----------------------------------------------------------------------------
Next ==
  \/ \E r \in Requests :
       \/ \E t \in Tasks, p \in Tasks \cup {NoTask} : Create(r, t, p)
       \/ \E S \in SUBSET Tasks : \E R \in SUBSET (S \X S) : Batch(r, S, R)
       \/ \E a, b \in Tasks : \/ AddDependency(r, a, b) \/ SetParent(r, a, b)
                              \/ \E type \in {"depends_on", "other"} : AddLink(r, a, b, type)
       \/ Write(r)
  \/ \E a, b \in Tasks : Unlink(a, b)
  \/ \E t \in Tasks : Detach(t) \/ Delete(t)

Spec == Init /\ [][Next]_vars

-----------------------------------------------------------------------------
(* Properties.                                                             *)

(* The types; and what the foreign keys demand of every write: no link and *)
(* no parent outlives a task it names.                                     *)
NothingDangles ==
  /\ deps \cup others \subseteq exist \X exist
  /\ \A t \in Tasks : parent[t] # NoTask => t \in exist /\ parent[t] \in exist

TypeOK ==
  /\ exist \subseteq Tasks /\ parent \in [Tasks -> Tasks \cup {NoTask}]
  /\ deps \in SUBSET Pairs /\ others \in SUBSET Pairs
  /\ request \in [Requests -> Call] /\ calls \in 0..MaxCalls
  /\ NothingDangles

(* The dependencies have a schedule: no task waits, over however many      *)
(* links, for itself.                                                      *)
DependenciesAcyclic == Acyclic(deps)

(* No subtask is its own ancestor.                                         *)
TreeAcyclic == Acyclic({e \in Pairs : parent[e[1]] = e[2]})

(* "A link is one relationship": a pair of tasks has one row.              *)
OneLinkPerPair ==
  \A a, b \in Tasks :
    <<a, b>> \in deps \cup others => <<b, a>> \notin (deps \cup others) \/ a = b
=============================================================================
