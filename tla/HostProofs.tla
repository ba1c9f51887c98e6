------------------------------ MODULE HostProofs ------------------------------
(***************************************************************************)
(* Theorems about the daemon's host: the working trees of the agents, for  *)
(* every number of desks, repositories, commits and moves; then the setup  *)
(* of OpenClaw, for every number of turns, agents, desks, tool servers and *)
(* device identities; then the transcript of a turn, for every number of   *)
(* words, tools and batches.  All for every number of faults.              *)
(***************************************************************************)
EXTENDS Host, SequenceTheorems, WellFoundedInduction, TLAPS

-----------------------------------------------------------------------------
(* Type correctness.                                                       *)
LEMMA Typed ==
  ASSUME TypeOK
  PROVE  /\ \A r \in Repos : base[r] \in Version /\ clone[r] \in Clone
         /\ \A d \in Desks : pin[d] \in Repos \cup {All} /\ turn[d] \in Turn
         /\ \A d \in Desks, r \in Repos : desk[d][r] \in Desk
BY DEF TypeOK

LEMMA NoTurnType == NoTurn \in Turn /\ NoTurn.pc = "idle"
BY WorkspacesAssumption DEF NoTurn, Turn, Version

DeskIs(d, r, k) ==
  /\ desk' \in [Desks -> [Repos -> Desk]] /\ desk'[d][r] = k
  /\ \A e \in Desks, q \in Repos : desk'[e][q] = IF e = d /\ q = r THEN k ELSE desk[e][q]

LEMMA DeskBecomes ==
  ASSUME TypeOK, NEW d \in Desks, NEW r \in Repos, NEW k \in Desk,
         desk' = [desk EXCEPT ![d][r] = k]
  PROVE  DeskIs(d, r, k)
BY DEF TypeOK, DeskIs

LEMMA TurnBecomes ==
  ASSUME TypeOK, NEW d \in Desks, NEW t \in Turn, turn' = [turn EXCEPT ![d] = t]
  PROVE  turn' \in [Desks -> Turn] /\ \A e \in Desks : turn'[e] = IF e = d THEN t ELSE turn[e]
BY DEF TypeOK

LEMMA CloneBecomes ==
  ASSUME TypeOK, NEW r \in Repos, NEW c \in Clone, clone' = [clone EXCEPT ![r] = c]
  PROVE  clone' \in [Repos -> Clone] /\ \A q \in Repos : clone'[q] = IF q = r THEN c ELSE clone[q]
BY DEF TypeOK

LEMMA FaultsType == TypeOK /\ (UNCHANGED faults \/ Fault) => faults' \in 0..MaxFaults
BY WorkspacesAssumption DEF TypeOK, Fault

-----------------------------------------------------------------------------
(* No work is lost.                                                        *)
PlaceOf(layout) == IF layout = All THEN "sub" ELSE "root"

(* Commits are on a branch, and a tree that is listed has one.  What is    *)
(* not committed, if it counts, is where the task's layout has its trees.  *)
DeskFits(k, r, p) ==
  /\ k.commits = k.made
  /\ ~k.branch => k.made = 0
  /\ k.listed # "none" => k.branch
  /\ k.left \in {r, All, "no"}
  /\ k.left = p => k.dirty /\ k.tree = PlaceOf(p) /\ k.listed = PlaceOf(p)

NoRoot(d) == \A q \in Repos : desk[d][q].listed # "root"

(* A turn for a layout that the task has left finds nothing that counts;   *)
(* a turn on all repositories has none at the root that it has been at.    *)
Been(t, r) == r \notin t.todo /\ (r = t.repo => t.pc \in {"freshen", "work"})

TurnFits(t, d) ==
  t.pc # "idle" =>
    /\ t.repo \in Repos /\ t.repo \notin t.todo
    /\ t.at \in Repos => t.repo = t.at /\ t.todo = {}
    /\ t.pc = "work" => t.todo = {}
    /\ t.at # pin[d] => \A r \in Repos : desk[d][r].left # pin[d]
    /\ t.at = All => \A r \in Repos : Been(t, r) => desk[d][r].listed # "root"

WorkInv ==
  \A d \in Desks :
    /\ TurnFits(turn[d], d)
    /\ \A r \in Repos : DeskFits(desk[d][r], r, pin[d])
    /\ \A r \in Repos : desk[d][r].left = All /\ pin[d] = All => NoRoot(d)

(* What a turn on one repository has fetched is on the way to its tree.    *)
GotFits(t, d) ==
  t.pc # "idle" /\ t.at \in Repos =>
    /\ t.got <= base[t.at]
    /\ t.pc \in {"clone", "configure"} => t.got = 0
    /\ t.pc # "clone" => clone[t.at].state \in {"bare", "ready"}
    /\ t.pc \in {"clear", "add", "freshen"} => clone[t.at].origin = NoRef \/ clone[t.at].origin >= t.got
    /\ t.pc = "work" /\ t.reason = "ok" /\ Freshness[t.at] = "always_latest" =>
         desk[d][t.at].base >= t.got

FreshInv ==
  /\ \A r \in Repos : clone[r].state = "bare" => clone[r].origin = NoRef
  /\ \A d \in Desks : GotFits(turn[d], d)

DeskInv == TypeOK /\ WorkInv /\ FreshInv

-----------------------------------------------------------------------------
(* What the others keep.                                                   *)

(* A tree is cleared, its work no longer counted, or neither.              *)
Lowered(d, r) ==
  /\ desk'[d][r].left \in {desk[d][r].left, "no"}
  /\ desk'[d][r].listed \in {desk[d][r].listed, "none"}

LEMMA TurnKept ==
  ASSUME TypeOK, NEW t, NEW d \in Desks, TurnFits(t, d), UNCHANGED pin,
         \A r \in Repos : Lowered(d, r)
  PROVE  TurnFits(t, d)'
<1>1. pin[d] # "no"
  BY Typed, WorkspacesAssumption
<1>2. \A r \in Repos : desk'[d][r].listed = "root" => desk[d][r].listed = "root"
  BY DEF Lowered
<1>3. \A r \in Repos : desk'[d][r].left = pin[d] => desk[d][r].left = pin[d]
  BY <1>1 DEF Lowered
<1> QED
  BY <1>2, <1>3 DEF TurnFits, Been

(* A clone that is there stays, and follows the base.                      *)
Follows(r) ==
  /\ base'[r] >= base[r]
  /\ clone[r].state \in {"bare", "ready"} =>
       clone'[r].state \in {"bare", "ready"} /\ clone'[r].origin \in {clone[r].origin, base[r]}

LEMMA GotKept ==
  ASSUME TypeOK, base' \in [Repos -> Version], NEW t \in Turn, NEW d \in Desks, GotFits(t, d),
         \A r \in Repos : Follows(r),
         \A r \in Repos : clone[r].state \in {"bare", "ready"} => desk'[d][r].base = desk[d][r].base
  PROVE  GotFits(t, d)'
<1> SUFFICES ASSUME t.pc # "idle", t.at \in Repos PROVE GotFits(t, d)'
  BY DEF GotFits
<1>1. PICK r \in Repos : r = t.at
  OBVIOUS
<1>2. /\ base[r] \in Int /\ base'[r] \in Int /\ t.got \in Int /\ clone[r].origin \in Int
      /\ clone[r] \in Clone /\ desk[d][r].base \in Int
  BY Typed, <1>1, WorkspacesAssumption DEF Version, Turn, Clone, NoRef, Desk
<1>3. Follows(r) /\ (clone[r].state \in {"bare", "ready"} => desk'[d][r].base = desk[d][r].base)
  OBVIOUS
<1>4. CASE t.pc = "clone"
  BY <1>1, <1>2, <1>3, <1>4 DEF GotFits, Follows
<1>5. CASE t.pc # "clone"
  BY <1>1, <1>2, <1>3, <1>5 DEF GotFits, Follows
<1> QED
  BY <1>4, <1>5

(* Each on its desk.                                                       *)
LEMMA DeskInvHolds ==
  ASSUME TypeOK', 
         \A e \in Desks : /\ TurnFits(turn[e], e)'
                          /\ \A r \in Repos : DeskFits(desk[e][r], r, pin[e])'
                          /\ \A r \in Repos : (desk[e][r].left = All /\ pin[e] = All => NoRoot(e))'
                          /\ GotFits(turn[e], e)',
         \A r \in Repos : (clone[r].state = "bare" => clone[r].origin = NoRef)'
  PROVE  DeskInv'
BY DEF DeskInv, WorkInv, FreshInv

(* A step of the turn at one desk.                                         *)
LEMMA StepKeeps ==
  ASSUME DeskInv, NEW d \in Desks, NEW t \in Turn, turn' = [turn EXCEPT ![d] = t],
         UNCHANGED <<base, pin, moves>>, faults' \in 0..MaxFaults,
         clone' \in [Repos -> Clone], desk' \in [Desks -> [Repos -> Desk]],
         \A r \in Repos : Follows(r),
         \A r \in Repos : clone'[r].state = "bare" => clone'[r].origin = NoRef,
         \A e \in Desks, r \in Repos : e # d =>
           /\ Lowered(e, r)
           /\ clone[r].state \in {"bare", "ready"} => desk'[e][r].base = desk[e][r].base,
         \A e \in Desks, r \in Repos : DeskFits(desk'[e][r], r, pin[e]),
         \A q, r \in Repos : desk'[d][r].left = All /\ pin[d] = All => desk'[d][q].listed # "root",
         TurnFits(t, d)', GotFits(t, d)'
  PROVE  DeskInv'
<1>1. TypeOK'
  BY TurnBecomes DEF DeskInv, TypeOK
<1>2. ASSUME NEW e \in Desks PROVE TurnFits(turn[e], e)' /\ GotFits(turn[e], e)'
  <2>1. PICK u \in Turn : u = turn'[e]
    BY <1>1 DEF TypeOK
  <2>2. CASE e = d
    <3>1. u = t
      BY <2>1, <2>2, TurnBecomes DEF DeskInv
    <3> QED
      BY <2>1, <2>2, <3>1 DEF TurnFits, GotFits, Been
  <2>3. CASE e # d
    <3>1. u = turn[e]
      BY <2>1, <2>3, TurnBecomes DEF DeskInv
    <3>2. TurnFits(u, e) /\ GotFits(u, e)
      BY <3>1 DEF DeskInv, WorkInv, FreshInv
    <3>3. TurnFits(u, e)'
      BY <2>3, <3>2, TurnKept DEF DeskInv
    <3>4. GotFits(u, e)'
      BY <1>1, <2>3, <3>2, GotKept DEF DeskInv, TypeOK
    <3> QED
      BY <2>1, <3>3, <3>4 DEF TurnFits, GotFits, Been
  <2> QED
    BY <2>2, <2>3
<1>3. ASSUME NEW e \in Desks, NEW r \in Repos PROVE DeskFits(desk[e][r], r, pin[e])'
  BY DEF DeskFits
<1>4. ASSUME NEW e \in Desks, NEW r \in Repos, desk'[e][r].left = All, pin[e] = All
      PROVE  NoRoot(e)'
  <2>1. CASE e = d
    BY <1>4, <2>1 DEF NoRoot
  <2>2. CASE e # d
    <3>1. desk[e][r].left = All
      BY <1>4, <2>2, WorkspacesAssumption DEF Lowered
    <3>2. NoRoot(e)
      BY <1>4, <3>1 DEF DeskInv, WorkInv
    <3> QED
      BY <2>2, <3>2 DEF NoRoot, Lowered
  <2> QED
    BY <2>1, <2>2
<1> QED
  BY <1>1, <1>2, <1>3, <1>4, DeskInvHolds

(* One that leaves clones and trees alone.                                 *)
LEMMA TurnStep ==
  ASSUME DeskInv, NEW d \in Desks, NEW t \in Turn, turn' = [turn EXCEPT ![d] = t],
         UNCHANGED <<base, clone, desk, pin, moves>>, UNCHANGED faults \/ Fault,
         TurnFits(t, d), GotFits(t, d)
  PROVE  DeskInv'
<1>1. TypeOK
  BY DEF DeskInv
<1>2. faults' \in 0..MaxFaults
  BY <1>1, FaultsType
<1>3. TurnFits(t, d)' /\ GotFits(t, d)'
  BY DEF TurnFits, GotFits, Been
<1>4. \A r \in Repos : Follows(r)
  BY <1>1, Typed DEF Follows, Version
<1>5. \A e \in Desks, r \in Repos : Lowered(e, r)
  BY DEF Lowered
<1>6. \A r \in Repos : clone'[r].state = "bare" => clone'[r].origin = NoRef
  BY DEF DeskInv, FreshInv
<1>7. \A e \in Desks, r \in Repos : DeskFits(desk'[e][r], r, pin[e])
  BY DEF DeskInv, WorkInv
<1>8. \A q, r \in Repos : desk'[d][r].left = All /\ pin[d] = All => desk'[d][q].listed # "root"
  BY DEF DeskInv, WorkInv, NoRoot
<1>9. clone' \in [Repos -> Clone] /\ desk' \in [Desks -> [Repos -> Desk]]
  BY <1>1 DEF TypeOK
<1> QED
  BY <1>2, <1>3, <1>4, <1>5, <1>6, <1>7, <1>8, <1>9, StepKeeps

LEMMA RestFits == \A d \in Desks : TurnFits(NoTurn, d) /\ GotFits(NoTurn, d)
BY NoTurnType DEF TurnFits, GotFits

LEMMA RestKeeps ==
  ASSUME DeskInv, NEW d \in Desks, Fails(d),
         UNCHANGED <<base, clone, desk, pin, moves>>, UNCHANGED faults \/ Fault
  PROVE  DeskInv'
BY RestFits, NoTurnType, TurnStep DEF Fails

(* A turn that does not go back on its way, and fetches nothing.           *)
LEMMA WayFits ==
  ASSUME NEW s \in Turn, NEW t \in Turn, NEW d \in Desks, TurnFits(s, d), s.pc # "idle",
         t.at = s.at, t.repo = s.repo, t.todo = s.todo,
         t.pc = "freshen" => s.pc = "freshen", t.pc = "work" => s.pc = "work"
  PROVE  TurnFits(t, d)
BY DEF TurnFits, Been

LEMMA BeginKeeps ==
  ASSUME DeskInv, NEW d \in Desks, Begin(d)
  PROVE  DeskInv'
<1>1. PICK r \in Repos :
        /\ pin[d] \in {r, All}
        /\ turn' = [turn EXCEPT ![d] = [NoTurn EXCEPT !.pc = "clone", !.at = pin[d], !.repo = r,
                                          !.todo = IF pin[d] = All THEN Repos \ {r} ELSE {}]]
  BY DEF Begin
<1>2. PICK t : t = [NoTurn EXCEPT !.pc = "clone", !.at = pin[d], !.repo = r,
                                  !.todo = IF pin[d] = All THEN Repos \ {r} ELSE {}]
  OBVIOUS
<1>3. t \in Turn /\ t.pc = "clone" /\ t.at = pin[d] /\ t.repo = r /\ t.got = 0
      /\ t.todo = IF pin[d] = All THEN Repos \ {r} ELSE {}
  <2>1. PICK p \in Repos \cup {All} : p = pin[d]
    BY Typed DEF DeskInv
  <2>2. PICK x \in SUBSET Repos : x = IF p = All THEN Repos \ {r} ELSE {}
    OBVIOUS
  <2>3. t = [NoTurn EXCEPT !.pc = "clone", !.at = p, !.repo = r, !.todo = x]
    BY <1>2, <2>1, <2>2
  <2>4. 0 \in Version
    BY WorkspacesAssumption DEF Version
  <2> HIDE DEF Version
  <2> QED
    BY <2>1, <2>2, <2>3, <2>4 DEF NoTurn, Turn
<1>4. TurnFits(t, d)
  BY <1>1, <1>3, WorkspacesAssumption DEF TurnFits, Been
<1>5. GotFits(t, d)
  <2>1. \A q \in Repos : base[q] >= 0
    BY Typed DEF DeskInv, Version
  <2> QED
    BY <1>3, <2>1 DEF GotFits
<1> QED
  BY <1>1, <1>2, <1>3, <1>4, <1>5, TurnStep DEF Begin

LEMMA EndKeeps ==
  ASSUME DeskInv, NEW d \in Desks, End(d) \/ AddFails(d)
  PROVE  DeskInv'
BY RestKeeps DEF End, AddFails

(* One that leaves the trees alone.                                        *)
LEMMA DeskStays ==
  ASSUME DeskInv, NEW d \in Desks, NEW t \in Turn, turn' = [turn EXCEPT ![d] = t],
         UNCHANGED <<base, desk, pin, moves>>, UNCHANGED faults \/ Fault,
         clone' \in [Repos -> Clone], \A r \in Repos : Follows(r),
         \A r \in Repos : clone'[r].state = "bare" => clone'[r].origin = NoRef,
         TurnFits(t, d)', GotFits(t, d)'
  PROVE  DeskInv'
<1>1. TypeOK /\ faults' \in 0..MaxFaults
  BY FaultsType DEF DeskInv
<1>2. \A e \in Desks, r \in Repos : Lowered(e, r)
  BY DEF Lowered
<1>3. \A e \in Desks, r \in Repos : DeskFits(desk'[e][r], r, pin[e])
  BY DEF DeskInv, WorkInv
<1>4. \A q, r \in Repos : desk'[d][r].left = All /\ pin[d] = All => desk'[d][q].listed # "root"
  BY DEF DeskInv, WorkInv, NoRoot
<1>5. desk' \in [Desks -> [Repos -> Desk]]
  BY <1>1 DEF TypeOK
<1> QED
  BY <1>1, <1>2, <1>3, <1>4, <1>5, StepKeeps

-----------------------------------------------------------------------------
(* The clones.                                                             *)
LEMMA FetchKeeps ==
  ASSUME DeskInv, NEW d \in Desks, Fetch(d)
  PROVE  DeskInv'
<1>1. TypeOK /\ turn[d] \in Turn /\ TurnFits(turn[d], d) /\ GotFits(turn[d], d)
      /\ turn[d].pc = "clone"
  BY Typed DEF DeskInv, WorkInv, FreshInv, Fetch, At
<1>2. PICK r \in Repos : r = Repo(d)
  BY <1>1 DEF TurnFits, Repo
<1>3. PICK c \in Clone : c = clone[r]
  BY <1>1, Typed
<1>4. PICK v \in Version : v = base[r]
  BY <1>1, Typed
<1>5. v >= 0 /\ c.origin >= NoRef
  BY DEF Version, Clone, NoRef
<1>6. c.state \in {"bare", "ready"} /\ (c.state = "bare" => c.origin = NoRef)
  BY <1>2, <1>3 DEF Fetch, DeskInv, FreshInv
<1>7. CASE clone' = [clone EXCEPT ![r].origin = IF clone[r].state = "ready" THEN base[r] ELSE @]
           /\ turn' = [turn EXCEPT ![d].pc = "clear", ![d].got = base[r]] /\ UNCHANGED faults
  <2>1. PICK b \in Clone : b = [c EXCEPT !.origin = IF c.state = "ready" THEN v ELSE @]
    BY DEF Clone
  <2>2. PICK t \in Turn : t = [turn[d] EXCEPT !.pc = "clear", !.got = v]
    BY <1>1 DEF Turn
  <2>3. clone' = [clone EXCEPT ![r] = b] /\ turn' = [turn EXCEPT ![d] = t]
    BY <1>3, <1>4, <1>7, <2>1, <2>2
  <2>4. /\ clone' \in [Repos -> Clone]
        /\ \A q \in Repos : clone'[q] = IF q = r THEN b ELSE clone[q]
    BY <1>1, <2>3, CloneBecomes
  <2>5. b.state = c.state /\ b.origin = IF c.state = "ready" THEN v ELSE c.origin
    BY <2>1 DEF Clone
  <2>6. t.pc = "clear" /\ t.got = v /\ t.at = turn[d].at /\ t.repo = turn[d].repo
        /\ t.todo = turn[d].todo
    BY <1>1, <2>2 DEF Turn
  <2>7. TurnFits(t, d)'
    <3>1. TurnFits(t, d)
      BY <1>1, <2>6, WayFits
    <3> QED
      BY <3>1 DEF Fetch, TurnFits, Been
  <2>8. GotFits(t, d)'
    <3>1. t.at \in Repos => t.at = r
      BY <1>1, <1>2, <2>6 DEF TurnFits, Repo
    <3>2. base' = base
      BY DEF Fetch
    <3> QED
      BY <1>4, <1>5, <1>6, <2>4, <2>5, <2>6, <3>1, <3>2 DEF GotFits, Version, NoRef
  <2>9. \A q \in Repos : Follows(q)
    <3>1. \A q \in Repos : base[q] >= base[q]
      BY <1>1, Typed DEF Version
    <3> QED
      BY <1>3, <1>4, <2>4, <2>5, <3>1 DEF Follows, Fetch
  <2>10. \A q \in Repos : clone'[q].state = "bare" => clone'[q].origin = NoRef
    BY <1>6, <2>4, <2>5 DEF DeskInv, FreshInv
  <2> QED
    BY <1>1, <1>7, <2>3, <2>4, <2>7, <2>8, <2>9, <2>10, DeskStays DEF Fetch
<1>8. CASE Fault /\ Goes(d, "clear") /\ UNCHANGED clone
  <2>1. PICK t \in Turn : t = [turn[d] EXCEPT !.pc = "clear"]
    BY <1>1 DEF Turn
  <2>2. t.pc = "clear" /\ t.got = turn[d].got /\ t.at = turn[d].at /\ t.repo = turn[d].repo
        /\ t.todo = turn[d].todo
    BY <1>1, <2>1 DEF Turn
  <2>3. TurnFits(t, d)
    BY <1>1, <2>2, WayFits
  <2>4. GotFits(t, d)
    <3>1. t.at \in Repos => t.at = r /\ t.got = 0
      BY <1>1, <1>2, <2>2 DEF TurnFits, GotFits, Repo
    <3> QED
      BY <1>3, <1>4, <1>5, <1>6, <2>2, <3>1 DEF GotFits, Clone, Version, NoRef
  <2> QED
    BY <1>8, <2>1, <2>3, <2>4, TurnStep DEF Fetch, Goes
<1> QED
  BY <1>2, <1>7, <1>8 DEF Fetch

(* What is pushed is all that is left.                                     *)
LEMMA PushedOnly ==
  ASSUME TypeOK, NEW r \in Repos, desk' = Recloned(r)
  PROVE  /\ desk' \in [Desks -> [Repos -> Desk]]
         /\ \A e \in Desks, q \in Repos :
              /\ q # r => desk'[e][q] = desk[e][q]
              /\ q = r => /\ desk'[e][q].commits = desk'[e][q].made
                          /\ ~desk'[e][q].branch => desk'[e][q].made = 0
                          /\ desk'[e][q].listed = "none" /\ desk'[e][q].left = "no"
<1>1. ASSUME NEW e \in Desks, NEW k \in Desk, NEW m,
             m = [k EXCEPT !.branch = k.pushed > 0, !.base = k.pushedBase, !.commits = k.pushed,
                           !.listed = "none", !.made = k.pushed, !.left = "no"]
      PROVE  m \in Desk /\ m.commits = m.made /\ (~m.branch => m.made = 0)
             /\ m.listed = "none" /\ m.left = "no"
  <2>1. PICK b \in BOOLEAN : b = (k.pushed > 0) /\ (k.pushed > 0 => b)
    <3>1. CASE k.pushed > 0
      <4>1. (k.pushed > 0) = TRUE
        BY <3>1
      <4> QED
        BY <4>1, Zenon
    <3>2. CASE ~(k.pushed > 0)
      <4>1. (k.pushed > 0) = FALSE
        BY <3>2
      <4> QED
        BY <4>1, <3>2, Zenon
    <3> QED
      BY <3>1, <3>2
  <2>2. PICK n \in Count : n = k.pushed
    BY DEF Desk
  <2>3. PICK v \in Version : v = k.pushedBase
    BY DEF Desk
  <2>4. m = [k EXCEPT !.branch = b, !.base = v, !.commits = n, !.listed = "none", !.made = n,
                      !.left = "no"]
    BY <1>1, <2>1, <2>2, <2>3
  <2>5. ~b => n = 0
    BY <2>1, <2>2 DEF Count
  <2>6. m \in Desk /\ m.branch = b /\ m.commits = n /\ m.made = n /\ m.listed = "none"
        /\ m.left = "no"
    <3> HIDE DEF Count, Version
    <3> QED
      BY <2>4, Zenon DEF Desk, Places
  <2> QED
    BY <2>5, <2>6
<1>2. ASSUME NEW e \in Desks, NEW q \in Repos
      PROVE  /\ desk'[e][q] \in Desk
             /\ q # r => desk'[e][q] = desk[e][q]
             /\ q = r => /\ desk'[e][q].commits = desk'[e][q].made
                         /\ ~desk'[e][q].branch => desk'[e][q].made = 0
                         /\ desk'[e][q].listed = "none" /\ desk'[e][q].left = "no"
  <2>1. PICK f \in [Repos -> Desk] : f = desk[e]
    BY DEF TypeOK
  <2>2. PICK k \in Desk : k = f[r]
    OBVIOUS
  <2>3. PICK m : m = [k EXCEPT !.branch = k.pushed > 0, !.base = k.pushedBase,
                       !.commits = k.pushed, !.listed = "none", !.made = k.pushed, !.left = "no"]
    OBVIOUS
  <2>4. desk'[e] = [f EXCEPT ![r] = m]
    BY <2>1, <2>2, <2>3 DEF Recloned
  <2>5. m \in Desk /\ m.commits = m.made /\ (~m.branch => m.made = 0)
        /\ m.listed = "none" /\ m.left = "no"
    BY <1>1, <2>3
  <2> QED
    BY <2>1, <2>4, <2>5
<1>3. \A e \in Desks : desk'[e] \in [Repos -> Desk]
  <2> TAKE e \in Desks
  <2>1. PICK x : desk'[e] = [desk[e] EXCEPT ![r] = x]
    BY DEF Recloned
  <2> QED
    BY <1>2, <2>1 DEF TypeOK
<1>4. desk' = [e \in Desks |-> desk'[e]]
  BY DEF Recloned
<1> QED
  BY <1>2, <1>3, <1>4

LEMMA CloneBareKeeps ==
  ASSUME DeskInv, NEW d \in Desks, CloneBare(d)
  PROVE  DeskInv'
<1>1. TypeOK /\ turn[d] \in Turn /\ TurnFits(turn[d], d) /\ GotFits(turn[d], d)
      /\ turn[d].pc = "clone"
  BY Typed DEF DeskInv, WorkInv, FreshInv, CloneBare, At
<1>2. PICK r \in Repos : r = Repo(d)
  BY <1>1 DEF TurnFits, Repo
<1>3. clone[r].state \in {"none", "legacy"} /\ desk' = Recloned(r)
  BY <1>2 DEF CloneBare
<1>4. /\ desk' \in [Desks -> [Repos -> Desk]]
      /\ \A e \in Desks, q \in Repos :
           /\ q # r => desk'[e][q] = desk[e][q]
           /\ q = r => /\ desk'[e][q].commits = desk'[e][q].made
                       /\ ~desk'[e][q].branch => desk'[e][q].made = 0
                       /\ desk'[e][q].listed = "none" /\ desk'[e][q].left = "no"
  BY <1>1, <1>3, PushedOnly
<1>5. PICK b \in Clone, t \in Turn :
        /\ clone' = [clone EXCEPT ![r] = b] /\ b.origin = NoRef
        /\ turn' = [turn EXCEPT ![d] = t]
        /\ \/ t = NoTurn
           \/ /\ t.pc = "configure" /\ t.got = turn[d].got /\ t.at = turn[d].at
              /\ t.repo = turn[d].repo /\ t.todo = turn[d].todo /\ b.state = "bare"
  <2>1. CASE Fault /\ Fails(d) /\ clone' = [clone EXCEPT ![r] = NoClone]
    <3>1. NoClone \in Clone /\ NoClone.origin = NoRef
      BY WorkspacesAssumption DEF NoClone, Clone, Version
    <3> QED
      BY <2>1, <3>1, NoTurnType DEF Fails
  <2>2. CASE clone' = [clone EXCEPT ![r] = [state |-> "bare", head |-> base[r], origin |-> NoRef]]
             /\ Goes(d, "configure")
    <3>1. PICK b \in Clone : b = [state |-> "bare", head |-> base[r], origin |-> NoRef]
      BY <1>1, Typed DEF Clone
    <3>2. PICK t \in Turn : t = [turn[d] EXCEPT !.pc = "configure"]
      BY <1>1 DEF Turn
    <3>3. t.pc = "configure" /\ t.got = turn[d].got /\ t.at = turn[d].at
          /\ t.repo = turn[d].repo /\ t.todo = turn[d].todo
      BY <1>1, <3>2 DEF Turn
    <3> QED
      BY <2>2, <3>1, <3>2, <3>3 DEF Goes
  <2> QED
    BY <1>2, <2>1, <2>2 DEF CloneBare
<1>6. clone' \in [Repos -> Clone] /\ \A q \in Repos : clone'[q] = IF q = r THEN b ELSE clone[q]
  BY <1>1, <1>5, CloneBecomes
<1>7. \A e \in Desks, q \in Repos : Lowered(e, q)
  BY <1>4 DEF Lowered
<1>8. ASSUME NEW e \in Desks, NEW q \in Repos PROVE DeskFits(desk'[e][q], q, pin[e])
  <2>1. CASE q = r
    <3>1. pin[e] # "no"
      BY <1>1, Typed, WorkspacesAssumption
    <3> QED
      BY <1>4, <2>1, <3>1 DEF DeskFits
  <2>2. CASE q # r
    BY <1>4, <2>2 DEF DeskInv, WorkInv
  <2> QED
    BY <2>1, <2>2
<1>9. \A p, q \in Repos : desk'[d][q].left = All /\ pin[d] = All => desk'[d][p].listed # "root"
  BY <1>4, WorkspacesAssumption DEF DeskInv, WorkInv, NoRoot
<1>10. \A q \in Repos : Follows(q)
  BY <1>1, <1>3, <1>6, Typed DEF Follows, CloneBare, Version
<1>11. \A q \in Repos : clone'[q].state = "bare" => clone'[q].origin = NoRef
  BY <1>5, <1>6 DEF DeskInv, FreshInv
<1>12. \A e \in Desks, q \in Repos : e # d =>
         /\ Lowered(e, q)
         /\ clone[q].state \in {"bare", "ready"} => desk'[e][q].base = desk[e][q].base
  BY <1>3, <1>4, <1>7
<1>13. TurnFits(t, d)'
  <2>1. CASE t = NoTurn
    BY <2>1, NoTurnType DEF TurnFits
  <2>2. CASE t # NoTurn
    <3>1. TurnFits(t, d)
      BY <1>1, <1>5, <2>2, WayFits
    <3>2. UNCHANGED pin
      BY DEF CloneBare
    <3> QED
      BY <1>1, <1>7, <3>1, <3>2, TurnKept
  <2> QED
    BY <2>1, <2>2
<1>14. GotFits(t, d)'
  <2>1. CASE t = NoTurn
    BY <2>1, NoTurnType DEF GotFits
  <2>2. CASE t # NoTurn
    <3>1. t.at \in Repos => t.at = r /\ t.got = 0 /\ turn[d].got <= base[t.at]
      BY <1>1, <1>2, <1>5, <2>2 DEF TurnFits, GotFits, Repo
    <3>2. UNCHANGED base
      BY DEF CloneBare
    <3> QED
      BY <1>5, <1>6, <2>2, <3>1, <3>2 DEF GotFits
  <2> QED
    BY <2>1, <2>2
<1>15. faults' \in 0..MaxFaults /\ UNCHANGED <<base, pin, moves>>
  BY <1>1, FaultsType DEF CloneBare
<1> QED
  BY <1>4, <1>5, <1>6, <1>8, <1>9, <1>10, <1>11, <1>12, <1>13, <1>14, <1>15, StepKeeps

LEMMA ConfigureKeeps ==
  ASSUME DeskInv, NEW d \in Desks, Configure(d)
  PROVE  DeskInv'
<1>1. TypeOK /\ turn[d] \in Turn /\ TurnFits(turn[d], d) /\ GotFits(turn[d], d)
      /\ turn[d].pc = "configure"
  BY Typed DEF DeskInv, WorkInv, FreshInv, Configure, At
<1>2. PICK r \in Repos : r = Repo(d)
  BY <1>1 DEF TurnFits, Repo
<1>3. PICK c \in Clone : c = clone[r]
  BY <1>1, Typed
<1>4. PICK v \in Version : v = base[r]
  BY <1>1, Typed
<1>5. v \in Int /\ v >= 0 /\ c.origin \in Int
  BY DEF Version, Clone, NoRef
<1>6. PICK b \in Clone, t \in Turn :
        /\ clone' = [clone EXCEPT ![r] = b] /\ turn' = [turn EXCEPT ![d] = t]
        /\ b.state \in {c.state, "ready"} /\ (b.state = "bare" => b.origin = c.origin)
        /\ t.pc = "clear" /\ t.at = turn[d].at /\ t.repo = turn[d].repo /\ t.todo = turn[d].todo
        /\ \/ b.state = "ready" /\ b.origin = v /\ t.got = v
           \/ b.origin = c.origin /\ t.got = turn[d].got
        /\ UNCHANGED faults \/ Fault
  <2>1. CASE /\ clone' = [clone EXCEPT ![r].state = "ready", ![r].origin = base[r]]
             /\ turn' = [turn EXCEPT ![d].pc = "clear", ![d].got = base[r]]
             /\ UNCHANGED faults
    <3>1. PICK b \in Clone : b = [c EXCEPT !.state = "ready", !.origin = v]
      BY DEF Clone
    <3>2. PICK t \in Turn : t = [turn[d] EXCEPT !.pc = "clear", !.got = v]
      BY <1>1 DEF Turn
    <3>3. b.state = "ready" /\ b.origin = v
      BY <3>1 DEF Clone
    <3>4. t.pc = "clear" /\ t.at = turn[d].at /\ t.repo = turn[d].repo /\ t.todo = turn[d].todo
          /\ t.got = v
      BY <1>1, <3>2 DEF Turn
    <3>5. clone' = [clone EXCEPT ![r] = b] /\ turn' = [turn EXCEPT ![d] = t]
      BY <1>1, <1>3, <1>4, <2>1, <3>1, <3>2 DEF TypeOK
    <3> QED
      BY <2>1, <3>3, <3>4, <3>5
  <2>2. CASE /\ Fault /\ Goes(d, "clear")
             /\ clone' \in {clone, [clone EXCEPT ![r].state = "ready"]}
    <3>1. PICK t \in Turn : t = [turn[d] EXCEPT !.pc = "clear"]
      BY <1>1 DEF Turn
    <3>2. t.pc = "clear" /\ t.at = turn[d].at /\ t.repo = turn[d].repo /\ t.todo = turn[d].todo
          /\ t.got = turn[d].got
      BY <1>1, <3>1 DEF Turn
    <3>3. PICK b \in Clone : clone' = [clone EXCEPT ![r] = b] /\ b.state \in {c.state, "ready"}
                             /\ b.origin = c.origin
      <4>1. PICK b \in Clone : b = [c EXCEPT !.state = "ready"]
        BY DEF Clone
      <4>2. b.state = "ready" /\ b.origin = c.origin
        BY <4>1 DEF Clone
      <4>3. CASE clone' = clone
        BY <1>1, <1>3, <4>3 DEF TypeOK
      <4>4. CASE clone' = [clone EXCEPT ![r].state = "ready"]
        BY <1>3, <4>1, <4>2, <4>4
      <4> QED
        BY <2>2, <4>3, <4>4
    <3>4. turn' = [turn EXCEPT ![d] = t]
      BY <2>2, <3>1 DEF Goes
    <3> QED
      BY <2>2, <3>2, <3>3, <3>4
  <2> QED
    BY <1>2, <2>1, <2>2 DEF Configure
<1>7. clone' \in [Repos -> Clone] /\ \A q \in Repos : clone'[q] = IF q = r THEN b ELSE clone[q]
  BY <1>1, <1>6, CloneBecomes
<1>8. UNCHANGED <<base, desk, pin, moves>>
  BY DEF Configure
<1>9. TurnFits(t, d)'
  <2>1. TurnFits(t, d)
    BY <1>1, <1>6, WayFits
  <2> QED
    BY <1>8, <2>1 DEF TurnFits, Been
<1>10. GotFits(t, d)'
  <2>1. t.at \in Repos =>
          t.at = r /\ turn[d].got = 0 /\ c.state \in {"bare", "ready"}
    BY <1>1, <1>2, <1>3, <1>6 DEF TurnFits, GotFits, Repo
  <2>2. c.origin = NoRef \/ c.origin >= 0
    BY DEF Clone, Version
  <2>3. CASE t.at \notin Repos
    BY <1>8, <2>3 DEF GotFits
  <2>4. CASE t.at \in Repos
    <3>1. base'[t.at] = v /\ clone'[t.at] = b
      BY <1>4, <1>6, <1>7, <1>8, <2>1, <2>4
    <3>2. b.state \in {"bare", "ready"} /\ t.got <= v
          /\ (b.origin = NoRef \/ b.origin >= t.got)
      BY <1>5, <1>6, <2>1, <2>2, <2>4
    <3> QED
      BY <1>6, <3>1, <3>2 DEF GotFits
  <2> QED
    BY <2>3, <2>4
<1>11. \A q \in Repos : Follows(q)
  <2>1. \A q \in Repos : base[q] >= base[q]
    BY <1>1, Typed DEF Version
  <2> QED
    BY <1>3, <1>4, <1>6, <1>7, <1>8, <2>1 DEF Follows
<1>12. \A q \in Repos : clone'[q].state = "bare" => clone'[q].origin = NoRef
  BY <1>3, <1>6, <1>7 DEF DeskInv, FreshInv
<1> QED
  BY <1>6, <1>7, <1>8, <1>9, <1>10, <1>11, <1>12, DeskStays

-----------------------------------------------------------------------------
(* The trees.                                                              *)

(* One changes.                                                            *)
LEMMA DeskStep ==
  ASSUME DeskInv, NEW d \in Desks, NEW t \in Turn, turn' = [turn EXCEPT ![d] = t],
         NEW r \in Repos, NEW k \in Desk, desk' = [desk EXCEPT ![d][r] = k],
         UNCHANGED <<base, clone, pin, moves, faults>>,
         DeskFits(k, r, pin[d]),
         \A p, q \in Repos : desk'[d][p].left = All /\ pin[d] = All => desk'[d][q].listed # "root",
         TurnFits(t, d)', GotFits(t, d)'
  PROVE  DeskInv'
<1>1. TypeOK /\ faults' \in 0..MaxFaults /\ clone' \in [Repos -> Clone]
  BY DEF DeskInv, TypeOK
<1>2. /\ desk' \in [Desks -> [Repos -> Desk]]
      /\ \A e \in Desks, q \in Repos : desk'[e][q] = IF e = d /\ q = r THEN k ELSE desk[e][q]
  <2>1. TypeOK
    BY <1>1
  <2>2. DeskIs(d, r, k)
    BY <2>1, DeskBecomes
  <2> QED
    BY <2>2 DEF DeskIs
<1>3. \A e \in Desks, q \in Repos : e # d =>
        /\ Lowered(e, q)
        /\ clone[q].state \in {"bare", "ready"} => desk'[e][q].base = desk[e][q].base
  BY <1>2 DEF Lowered
<1>4. \A e \in Desks, q \in Repos : DeskFits(desk'[e][q], q, pin[e])
  <2> TAKE e \in Desks, q \in Repos
  <2>1. CASE e = d /\ q = r
    BY <1>2, <2>1
  <2>2. CASE ~(e = d /\ q = r)
    BY <1>2, <2>2 DEF DeskInv, WorkInv
  <2> QED
    BY <2>1, <2>2
<1>5. \A q \in Repos : Follows(q)
  BY <1>1, Typed DEF Follows, Version
<1>6. \A q \in Repos : clone'[q].state = "bare" => clone'[q].origin = NoRef
  BY DEF DeskInv, FreshInv
<1> QED
  BY <1>1, <1>2, <1>3, <1>4, <1>5, <1>6, StepKeeps

(* Work that counts, in the layout of the turn, is in a tree that is used  *)
(* again.                                                                  *)
LEMMA WorkIsReused ==
  ASSUME DeskInv, NEW d \in Desks, turn[d].pc # "idle", NEW r \in Repos,
         desk[d][r].left = pin[d]
  PROVE  /\ turn[d].at = pin[d] /\ desk[d][r].tree = Place(d) /\ desk[d][r].listed = Place(d)
         /\ turn[d].at \in Repos => r = turn[d].repo
         /\ turn[d].at = All => NoRoot(d)
<1>1. turn[d].at = pin[d] /\ (turn[d].at \in Repos => turn[d].repo = turn[d].at)
  BY DEF DeskInv, WorkInv, TurnFits
<1>2. DeskFits(desk[d][r], r, pin[d])
  BY DEF DeskInv, WorkInv
<1> QED
  BY <1>1, <1>2, WorkspacesAssumption DEF DeskFits, Place, PlaceOf, DeskInv, WorkInv

LEMMA ReuseKeeps ==
  ASSUME DeskInv, NEW d \in Desks, Reuse(d)
  PROVE  DeskInv'
<1>1. TypeOK /\ turn[d] \in Turn /\ TurnFits(turn[d], d) /\ GotFits(turn[d], d)
      /\ turn[d].pc = "clear"
  BY Typed DEF DeskInv, WorkInv, FreshInv, Reuse, At
<1>2. PICK t \in Turn : t = [turn[d] EXCEPT !.pc = "freshen"]
  BY <1>1 DEF Turn
<1>3. t.pc = "freshen" /\ t.at = turn[d].at /\ t.repo = turn[d].repo /\ t.todo = turn[d].todo
      /\ t.got = turn[d].got
  BY <1>1, <1>2 DEF Turn
<1>4. turn[d].at = All => desk[d][turn[d].repo].listed # "root"
  BY DEF Reuse, Reused, Here, Place
<1>5. TurnFits(t, d)
  BY <1>1, <1>3, <1>4 DEF TurnFits, Been
<1>6. GotFits(t, d)
  BY <1>1, <1>3 DEF GotFits
<1> QED
  BY <1>2, <1>5, <1>6, TurnStep DEF Reuse, Goes

LEMMA ClearedTrees ==
  ASSUME DeskInv, NEW d \in Desks, Clear(d)
  PROVE  /\ desk' \in [Desks -> [Repos -> Desk]]
         /\ \A e \in Desks, q \in Repos :
              /\ Lowered(e, q) /\ desk'[e][q].base = desk[e][q].base
              /\ DeskFits(desk'[e][q], q, pin[e])
<1>1. TypeOK /\ turn[d].pc = "clear" /\ turn[d].repo \in Repos
  BY DEF DeskInv, WorkInv, Clear, At, TurnFits
<1>2. PICK r \in Repos : r = turn[d].repo
  BY <1>1
<1>3. PICK root \in BOOLEAN : root <=> (Place(d) = "root" \/ desk[d][r].listed = "root")
  OBVIOUS
<1>4. \A q \in Repos : q = r \/ root => desk[d][q].left # pin[d]
  <2> SUFFICES ASSUME NEW q \in Repos, q = r \/ root, desk[d][q].left = pin[d] PROVE FALSE
    OBVIOUS
  <2>1. /\ turn[d].at = pin[d] /\ desk[d][q].tree = Place(d) /\ desk[d][q].listed = Place(d)
        /\ turn[d].at \in Repos => q = r
        /\ turn[d].at = All => NoRoot(d)
    BY <1>1, <1>2, WorkIsReused
  <2>2. q = r
    <3>1. CASE turn[d].at = All
      BY <1>3, <2>1, <3>1 DEF Place, NoRoot
    <3>2. CASE turn[d].at # All
      BY <1>1, <2>1, <3>2, Typed
    <3> QED
      BY <3>1, <3>2
  <2> QED
    BY <1>2, <2>1, <2>2 DEF Clear, Reused, Here
<1>5. ASSUME NEW e \in Desks, NEW q \in Repos
      PROVE  /\ desk'[e][q] \in Desk
             /\ Lowered(e, q) /\ desk'[e][q].base = desk[e][q].base
             /\ DeskFits(desk'[e][q], q, pin[e])
  <2>1. PICK k \in Desk : k = desk[e][q]
    BY <1>1, Typed
  <2>2. DeskFits(k, q, pin[e])
    BY <2>1 DEF DeskInv, WorkInv
  <2>3. CASE desk'[e][q] = desk[e][q]
    BY <2>1, <2>2, <2>3 DEF Lowered
  <2>4. CASE desk'[e][q] # desk[e][q]
    <3>1. e = d /\ (q = r \/ root)
          /\ \E l \in {"none", k.listed} :
               desk'[e][q] = [k EXCEPT !.tree = "none", !.dirty = FALSE, !.listed = l]
      <4>1. e = d
        BY <1>1, <2>4 DEF Clear, Cleared, TypeOK
      <4>2. desk'[d] = [p \in Repos |->
              IF p # r /\ ~(Place(d) = "root" \/ desk[d][r].listed = "root") THEN desk[d][p]
              ELSE [desk[d][p] EXCEPT !.tree = "none", !.dirty = FALSE,
                      !.listed = IF p = r /\ desk[d][r].listed \notin {"none", Place(d)}
                                 THEN "none" ELSE @]]
        BY <1>1, <1>2 DEF Clear, Cleared, TypeOK, Repo, Here
      <4> QED
        BY <1>3, <2>1, <2>4, <4>1, <4>2
    <3>2. PICK l \in {"none", k.listed} :
            desk'[e][q] = [k EXCEPT !.tree = "none", !.dirty = FALSE, !.listed = l]
      BY <3>1
    <3>3. k.left # pin[e]
      BY <1>4, <2>1, <3>1
    <3>4. PICK m : m = desk'[e][q]
      OBVIOUS
    <3>5. /\ m \in Desk /\ m.left = k.left /\ m.listed = l /\ m.base = k.base
          /\ m.commits = k.commits /\ m.made = k.made /\ m.branch = k.branch
      BY <3>2, <3>4 DEF Desk, Places
    <3>6. DeskFits(m, q, pin[e])
      BY <2>2, <3>3, <3>5 DEF DeskFits
    <3> QED
      BY <2>1, <3>4, <3>5, <3>6 DEF Lowered
  <2> QED
    BY <2>3, <2>4
<1>6. \A e \in Desks : desk'[e] \in [Repos -> Desk]
  <2> TAKE e \in Desks
  <2>1. CASE e = d
    <3>1. desk'[d] = [p \in Repos |-> desk'[d][p]]
      BY <1>1 DEF Clear, Cleared, TypeOK
    <3> QED
      BY <1>5, <2>1, <3>1
  <2>2. CASE e # d
    BY <1>1, <2>2 DEF Clear, Cleared, TypeOK
  <2> QED
    BY <2>1, <2>2
<1>7. desk' = [e \in Desks |-> desk'[e]]
  BY <1>1 DEF Clear, Cleared, TypeOK
<1> QED
  BY <1>5, <1>6, <1>7

LEMMA ClearKeeps ==
  ASSUME DeskInv, NEW d \in Desks, Clear(d)
  PROVE  DeskInv'
<1>1. TypeOK /\ turn[d] \in Turn /\ TurnFits(turn[d], d) /\ GotFits(turn[d], d)
      /\ turn[d].pc = "clear"
  BY Typed DEF DeskInv, WorkInv, FreshInv, Clear, At
<1>2. /\ desk' \in [Desks -> [Repos -> Desk]]
      /\ \A e \in Desks, q \in Repos :
           /\ Lowered(e, q) /\ desk'[e][q].base = desk[e][q].base
           /\ DeskFits(desk'[e][q], q, pin[e])
  BY ClearedTrees
<1>3. PICK t \in Turn :
        turn' = [turn EXCEPT ![d] = t] /\ t.pc = "add" /\ t.at = turn[d].at
        /\ t.repo = turn[d].repo /\ t.todo = turn[d].todo /\ t.got = turn[d].got
  <2>1. PICK x \in {"recreated", turn[d].reason} : x = IF InTheWay(d) THEN "recreated" ELSE turn[d].reason
    OBVIOUS
  <2>2. PICK s \in Turn : s = turn[d]
    BY <1>1
  <2>3. PICK t \in Turn : t = [s EXCEPT !.pc = "add", !.reason = x]
    BY <2>1, <2>2 DEF Turn
  <2>4. t.pc = "add" /\ t.at = s.at /\ t.repo = s.repo /\ t.todo = s.todo /\ t.got = s.got
    BY <2>3 DEF Turn
  <2> QED
    BY <2>1, <2>2, <2>3, <2>4 DEF Clear
<1>4. TurnFits(t, d)'
  <2>1. TurnFits(t, d)
    BY <1>1, <1>3, WayFits
  <2> QED
    BY <1>1, <1>2, <2>1, TurnKept DEF Clear
<1>5. GotFits(t, d)'
  BY <1>1, <1>3 DEF Clear, GotFits
<1>6. \A q \in Repos : Follows(q)
  BY <1>1, Typed DEF Follows, Version, Clear
<1>7. \A q \in Repos : clone'[q].state = "bare" => clone'[q].origin = NoRef
  BY DEF DeskInv, FreshInv, Clear
<1>8. \A p, q \in Repos : desk'[d][q].left = All /\ pin[d] = All => desk'[d][p].listed # "root"
  BY <1>2, WorkspacesAssumption DEF DeskInv, WorkInv, NoRoot, Lowered
<1>9. faults' \in 0..MaxFaults /\ clone' \in [Repos -> Clone] /\ UNCHANGED <<base, pin, moves>>
  BY <1>1 DEF TypeOK, Clear
<1> QED
  BY <1>2, <1>3, <1>4, <1>5, <1>6, <1>7, <1>8, <1>9, StepKeeps

LEMMA AddKnownKeeps ==
  ASSUME DeskInv, NEW d \in Desks, AddKnown(d)
  PROVE  DeskInv'
<1>1. TypeOK /\ turn[d] \in Turn /\ TurnFits(turn[d], d) /\ GotFits(turn[d], d)
      /\ turn[d].pc = "add"
  BY Typed DEF DeskInv, WorkInv, FreshInv, AddKnown, At
<1>2. PICK r \in Repos : r = turn[d].repo
  BY <1>1 DEF TurnFits
<1>3. PICK k \in Desk : k = desk[d][r]
  BY <1>1, Typed
<1>4. k.branch /\ k.listed # Place(d)
  BY <1>2, <1>3 DEF AddKnown, HasBranch, Registered, Here
<1>5. PICK m \in Desk : m = [k EXCEPT !.tree = Place(d), !.listed = Place(d)]
  BY DEF Desk, Places, Place
<1>6. /\ m.listed = Place(d) /\ m.left = k.left /\ m.base = k.base /\ m.commits = k.commits
      /\ m.made = k.made /\ m.branch = k.branch
  BY <1>5 DEF Desk
<1>7. PICK t \in Turn : t = [turn[d] EXCEPT !.pc = "freshen"]
  BY <1>1 DEF Turn
<1>8. t.pc = "freshen" /\ t.at = turn[d].at /\ t.repo = turn[d].repo /\ t.todo = turn[d].todo
      /\ t.got = turn[d].got
  BY <1>1, <1>7 DEF Turn
<1>9. desk' = [desk EXCEPT ![d][r] = m] /\ turn' = [turn EXCEPT ![d] = t]
  <2>1. desk' = [desk EXCEPT ![d][r].tree = Place(d), ![d][r].listed = Place(d)]
    BY <1>2 DEF AddKnown, Repo
  <2>2. desk' = [desk EXCEPT ![d][r] = m]
    BY <1>1, <1>3, <1>5, <2>1 DEF TypeOK
  <2>3. turn' = [turn EXCEPT ![d] = t]
    BY <1>1, <1>7 DEF AddKnown, Goes, TypeOK
  <2> QED
    BY <2>2, <2>3
<1>10. \A e \in Desks, q \in Repos : desk'[e][q] = IF e = d /\ q = r THEN m ELSE desk[e][q]
  <2>1. DeskIs(d, r, m)
    BY <1>1, <1>9, DeskBecomes
  <2> QED
    BY <2>1 DEF DeskIs
<1>11. k.left # pin[d]
  BY <1>1, <1>3, <1>4, WorkIsReused
<1>12. DeskFits(m, r, pin[d])
  <2>1. DeskFits(k, r, pin[d])
    BY <1>3 DEF DeskInv, WorkInv
  <2> QED
    BY <1>4, <1>6, <1>11, <2>1 DEF DeskFits
<1>13. \A p, q \in Repos : desk'[d][p].left = All /\ pin[d] = All => desk'[d][q].listed # "root"
  <2> SUFFICES ASSUME NEW p \in Repos, NEW q \in Repos, desk'[d][p].left = All, pin[d] = All
               PROVE  desk'[d][q].listed # "root"
    OBVIOUS
  <2>1. desk[d][p].left = pin[d]
    BY <1>3, <1>6, <1>10
  <2>2. turn[d].at = All /\ NoRoot(d)
    BY <1>1, <2>1, WorkIsReused
  <2> QED
    BY <1>6, <1>10, <2>2 DEF NoRoot, Place
<1>14. TurnFits(t, d)'
  <2>1. \A q \in Repos : desk'[d][q].left = desk[d][q].left
    BY <1>3, <1>6, <1>10
  <2>2. turn[d].at = All => m.listed # "root"
    BY <1>6 DEF Place
  <2>3. ASSUME turn[d].at = All, NEW q \in Repos, Been(t, q) PROVE desk'[d][q].listed # "root"
    <3>1. CASE q = r
      BY <1>10, <2>2, <2>3, <3>1
    <3>2. CASE q # r
      BY <1>1, <1>2, <1>8, <1>10, <2>3, <3>2 DEF TurnFits, Been
    <3> QED
      BY <3>1, <3>2
  <2>4. UNCHANGED pin
    BY DEF AddKnown
  <2> QED
    BY <1>1, <1>8, <2>1, <2>3, <2>4 DEF TurnFits, Been
<1>15. GotFits(t, d)'
  <2>1. \A q \in Repos : desk'[d][q].base = desk[d][q].base
    BY <1>3, <1>6, <1>10
  <2> QED
    BY <1>1, <1>8, <2>1 DEF GotFits, AddKnown
<1> QED
  BY <1>9, <1>12, <1>13, <1>14, <1>15, DeskStep DEF AddKnown

Reasons == {"ok", "recreated", "kept_base", "pinned", "used_head", "multi_repo"}

(* On to the next repository, or to the agent.                             *)
WentOn(t, d, reason) ==
  /\ turn' = [turn EXCEPT ![d] = t]
  /\ t.pc \in {"clone", "work"} /\ t.at = turn[d].at /\ t.got = turn[d].got
  /\ t.repo \in Repos /\ t.repo \notin t.todo /\ (t.pc = "work" => t.todo = {})
  /\ t.at \in Repos => /\ t.pc = "work" /\ t.reason = reason
                       /\ t.repo = turn[d].repo /\ t.todo = {}
  /\ \A r \in Repos : Been(t, r) => r = turn[d].repo \/ Been(turn[d], r)

LEMMA OnwardGoes ==
  ASSUME DeskInv, NEW d \in Desks, turn[d].pc \in {"add", "freshen"},
         NEW reason \in Reasons,
         Onward(d, reason)
  PROVE  \E t \in Turn : WentOn(t, d, reason)
<1>1. TypeOK /\ turn[d] \in Turn /\ TurnFits(turn[d], d)
  BY Typed DEF DeskInv, WorkInv
<1>2. PICK s \in Turn : s = turn[d]
  BY <1>1
<1>3. s.repo \in Repos /\ s.repo \notin s.todo /\ (s.at \in Repos => s.todo = {}) /\ s.todo \in SUBSET Repos
  BY <1>1, <1>2 DEF TurnFits, Turn
<1>4. CASE s.todo = {}
  <2>1. PICK x \in Reasons :
          x = IF s.at = All THEN "multi_repo" ELSE reason
    BY DEF Reasons
  <2>2. PICK t \in Turn : t = [s EXCEPT !.pc = "work", !.reason = x]
    BY <2>1 DEF Turn, Reasons
  <2>3. t.pc = "work" /\ t.at = s.at /\ t.repo = s.repo /\ t.todo = s.todo /\ t.got = s.got
        /\ t.reason = x
    BY <2>2 DEF Turn
  <2>4. turn' = [turn EXCEPT ![d] = t]
    BY <1>2, <1>4, <2>1, <2>2 DEF Onward
  <2>5. \A r \in Repos : Been(t, r) => r = s.repo \/ Been(s, r)
    BY <2>3 DEF Been
  <2>6. t.at \in Repos => t.reason = reason
    BY <2>1, <2>3, WorkspacesAssumption
  <2> QED
    BY <1>2, <1>3, <1>4, <2>3, <2>4, <2>5, <2>6 DEF WentOn
<1>5. CASE s.todo # {}
  <2>1. PICK q \in s.todo :
          turn' = [turn EXCEPT ![d].pc = "clone", ![d].repo = q, ![d].todo = @ \ {q},
                               ![d].reason = "ok"]
    BY <1>2, <1>5 DEF Onward
  <2>2. PICK x \in SUBSET Repos : x = s.todo \ {q}
    BY <1>3
  <2>3. PICK t \in Turn : t = [s EXCEPT !.pc = "clone", !.repo = q, !.todo = x, !.reason = "ok"]
    BY <1>3, <2>1 DEF Turn
  <2>4. t.pc = "clone" /\ t.at = s.at /\ t.repo = q /\ t.todo = x /\ t.got = s.got
    BY <2>3 DEF Turn
  <2>5. turn' = [turn EXCEPT ![d] = t]
    BY <1>1, <1>2, <2>1, <2>2, <2>3 DEF TypeOK
  <2>6. \A r \in Repos : Been(t, r) => r = s.repo \/ Been(s, r)
    BY <2>2, <2>4 DEF Been
  <2> QED
    BY <1>2, <1>3, <1>5, <2>1, <2>2, <2>4, <2>5, <2>6 DEF WentOn
<1> QED
  BY <1>4, <1>5

LEMMA ReasonType ==
  ASSUME TypeOK, NEW d \in Desks,
         NEW reason \in Reasons
  PROVE  /\ Reason(d, reason) \in Reasons
         /\ Reason(d, reason) = "ok" => reason = "ok"
BY Typed DEF Reason, Reasons, Turn

LEMMA AddNewKeeps ==
  ASSUME DeskInv, NEW d \in Desks, AddNew(d)
  PROVE  DeskInv'
<1>1. TypeOK /\ turn[d] \in Turn /\ TurnFits(turn[d], d) /\ GotFits(turn[d], d)
      /\ turn[d].pc = "add"
  BY Typed DEF DeskInv, WorkInv, FreshInv, AddNew, At
<1>2. PICK r \in Repos : r = turn[d].repo
  BY <1>1 DEF TurnFits
<1>3. PICK k \in Desk : k = desk[d][r]
  BY <1>1, Typed
<1>4. ~k.branch /\ k.listed # Place(d)
  BY <1>2, <1>3 DEF AddNew, HasBranch, Registered, Here
<1>5. PICK c \in Clone : c = clone[r]
  BY <1>1, Typed
<1>6. PICK v \in Version, reason \in Reasons :
        /\ desk' = Added(d, v) /\ Onward(d, reason)
        /\ reason = "ok" /\ Freshness[r] = "always_latest" => c.origin # NoRef /\ v = c.origin
  <2>1. CASE Freshness[r] = "pinned" \/ c.origin = NoRef
    <3>1. PICK x \in Reasons : x = IF Freshness[r] = "pinned" THEN "pinned" ELSE "used_head"
      BY DEF Reasons
    <3>2. PICK reason \in Reasons : reason = Reason(d, x)
      BY <1>1, ReasonType DEF Reasons
    <3>3. reason # "ok"
      BY <1>1, <3>1, <3>2, ReasonType
    <3>4. c.head \in Version
      BY DEF Clone
    <3>5. desk' = Added(d, c.head) /\ Onward(d, reason)
      BY <1>2, <1>5, <2>1, <3>1, <3>2 DEF AddNew, Repo
    <3> QED
      BY <3>3, <3>4, <3>5
  <2>2. CASE ~(Freshness[r] = "pinned" \/ c.origin = NoRef)
    <3>1. PICK reason \in Reasons : reason = Reason(d, "ok")
      BY <1>1, ReasonType DEF Reasons
    <3>2. c.origin \in Version
      BY <2>2 DEF Clone
    <3>3. desk' = Added(d, c.origin) /\ Onward(d, reason)
      BY <1>2, <1>5, <2>2, <3>1 DEF AddNew, Repo
    <3> QED
      BY <2>2, <3>2, <3>3
  <2> QED
    BY <2>1, <2>2
<1>7. PICK m \in Desk : m = [k EXCEPT !.tree = Place(d), !.listed = Place(d), !.branch = TRUE,
                                      !.base = v, !.commits = 0]
  <2>1. PICK p \in Places : p = Place(d)
    BY DEF Place, Places
  <2>2. 0 \in Count
    BY WorkspacesAssumption DEF Count
  <2>3. [k EXCEPT !.tree = p, !.listed = p, !.branch = TRUE, !.base = v, !.commits = 0] \in Desk
    <3> HIDE DEF Count, Version, Places
    <3> QED
      BY <2>2 DEF Desk
  <2> QED
    BY <2>1, <2>3
<1>8. m.listed = Place(d) /\ m.branch /\ m.base = v /\ m.commits = 0 /\ m.made = k.made
      /\ m.left = k.left
  BY <1>7 DEF Desk
<1>9. desk' = [desk EXCEPT ![d][r] = m]
  BY <1>1, <1>2, <1>3, <1>6, <1>7 DEF Added, Repo, TypeOK
<1>10. \A e \in Desks, q \in Repos : desk'[e][q] = IF e = d /\ q = r THEN m ELSE desk[e][q]
  <2>1. DeskIs(d, r, m)
    BY <1>1, <1>9, DeskBecomes
  <2> QED
    BY <2>1 DEF DeskIs
<1>11. k.left # pin[d]
  BY <1>1, <1>3, <1>4, WorkIsReused
<1>12. DeskFits(m, r, pin[d])
  <2>1. DeskFits(k, r, pin[d])
    BY <1>3 DEF DeskInv, WorkInv
  <2> QED
    BY <1>4, <1>8, <1>11, <2>1 DEF DeskFits
<1>13. \A p, q \in Repos : desk'[d][p].left = All /\ pin[d] = All => desk'[d][q].listed # "root"
  <2> SUFFICES ASSUME NEW p \in Repos, NEW q \in Repos, desk'[d][p].left = All, pin[d] = All
               PROVE  desk'[d][q].listed # "root"
    OBVIOUS
  <2>1. desk[d][p].left = pin[d]
    BY <1>3, <1>8, <1>10
  <2>2. turn[d].at = All /\ NoRoot(d)
    BY <1>1, <2>1, WorkIsReused
  <2> QED
    BY <1>8, <1>10, <2>2 DEF NoRoot, Place
<1>14. PICK t \in Turn :
         /\ turn' = [turn EXCEPT ![d] = t]
         /\ t.pc \in {"clone", "work"} /\ t.at = turn[d].at /\ t.got = turn[d].got
         /\ t.repo \in Repos /\ t.repo \notin t.todo /\ (t.pc = "work" => t.todo = {})
         /\ t.at \in Repos => /\ t.pc = "work" /\ t.reason = reason
                              /\ t.repo = turn[d].repo /\ t.todo = {}
         /\ \A q \in Repos : Been(t, q) => q = turn[d].repo \/ Been(turn[d], q)
  <2>1. Onward(d, reason) /\ turn[d].pc \in {"add", "freshen"}
    BY <1>1, <1>6
  <2>2. \E t \in Turn : WentOn(t, d, reason)
    BY <2>1, OnwardGoes
  <2> QED
    BY <2>2 DEF WentOn
<1>15. TurnFits(t, d)'
  <2>1. \A q \in Repos : desk'[d][q].left = desk[d][q].left
    BY <1>3, <1>8, <1>10
  <2>2. turn[d].at = All => m.listed # "root"
    BY <1>8 DEF Place
  <2>3. ASSUME turn[d].at = All, NEW q \in Repos, Been(t, q) PROVE desk'[d][q].listed # "root"
    <3>1. CASE q = r
      BY <1>10, <2>2, <2>3, <3>1
    <3>2. CASE q # r
      BY <1>1, <1>2, <1>10, <1>14, <2>3, <3>2 DEF TurnFits
    <3> QED
      BY <3>1, <3>2
  <2>4. UNCHANGED pin
    BY DEF AddNew
  <2>5. turn[d].at \in Repos => turn[d].repo = turn[d].at
    BY <1>1 DEF TurnFits
  <2>6. turn[d].at # pin[d] => \A q \in Repos : desk'[d][q].left # pin[d]
    BY <1>1, <2>1 DEF TurnFits
  <2>7. Been(t, r)' <=> Been(t, r)
    BY DEF Been
  <2> QED
    BY <1>14, <2>3, <2>4, <2>5, <2>6 DEF TurnFits, Been
<1>16. GotFits(t, d)'
  <2> SUFFICES ASSUME t.at \in Repos PROVE GotFits(t, d)'
    BY DEF GotFits
  <2>1. t.at = r /\ t.pc = "work" /\ t.reason = reason
    BY <1>1, <1>2, <1>14 DEF TurnFits
  <2>2. turn[d].got <= base[r] /\ c.state \in {"bare", "ready"}
        /\ (c.origin = NoRef \/ c.origin >= turn[d].got)
    BY <1>1, <1>5, <1>14, <2>1 DEF GotFits
  <2>3. desk'[d][r].base = v
    BY <1>8, <1>10
  <2>4. UNCHANGED <<base, clone>>
    BY DEF AddNew
  <2> QED
    BY <1>5, <1>6, <1>14, <2>1, <2>2, <2>3, <2>4 DEF GotFits
<1> QED
  BY <1>9, <1>12, <1>13, <1>14, <1>15, <1>16, DeskStep DEF AddNew

LEMMA FreshenKeeps ==
  ASSUME DeskInv, NEW d \in Desks, Freshen(d)
  PROVE  DeskInv'
<1>1. TypeOK /\ turn[d] \in Turn /\ TurnFits(turn[d], d) /\ GotFits(turn[d], d)
      /\ turn[d].pc = "freshen"
  BY Typed DEF DeskInv, WorkInv, FreshInv, Freshen, At
<1>2. PICK r \in Repos : r = turn[d].repo
  BY <1>1 DEF TurnFits
<1>3. PICK k \in Desk : k = desk[d][r]
  BY <1>1, Typed
<1>4. PICK c \in Clone : c = clone[r]
  BY <1>1, Typed
<1>5. PICK v \in Version, reason \in Reasons :
        /\ desk' = [desk EXCEPT ![d][r].base = v] /\ Onward(d, reason)
        /\ reason = "ok" /\ Freshness[r] = "always_latest" => c.origin # NoRef /\ v >= c.origin
  <2>1. desk = [desk EXCEPT ![d][r].base = k.base] /\ k.base \in Version
    <3>1. k.base \in Version /\ k = [k EXCEPT !.base = k.base]
      BY DEF Desk
    <3> QED
      BY <1>1, <1>3, <3>1 DEF TypeOK
  <2>2. CASE ~Latest(d) /\ UNCHANGED desk
             /\ Onward(d, Reason(d, IF Freshness[Repo(d)] = "pinned" THEN "pinned" ELSE "ok"))
    <3>1. PICK x \in Reasons : x = IF Freshness[r] = "pinned" THEN "pinned" ELSE "ok"
      BY DEF Reasons
    <3>2. PICK reason \in Reasons : reason = Reason(d, x)
      BY <1>1, ReasonType DEF Reasons
    <3>3. Onward(d, reason) /\ Freshness[r] # "always_latest"
      BY <1>2, <2>2, <3>1, <3>2 DEF Latest, Repo
    <3> QED
      BY <2>1, <2>2, <3>3
  <2>3. CASE Rebases(d) /\ Onward(d, Reason(d, "ok")) /\
             desk' = [desk EXCEPT ![d][Repo(d)].base =
                        IF @ < clone[Repo(d)].origin THEN clone[Repo(d)].origin ELSE @]
    <3>1. PICK reason \in Reasons : reason = Reason(d, "ok")
      BY <1>1, ReasonType DEF Reasons
    <3>2. c.origin # NoRef /\ c.origin \in Version
      BY <1>2, <1>4, <2>3 DEF Rebases, Repo, Clone
    <3>3. PICK v \in Version : v = IF k.base < c.origin THEN c.origin ELSE k.base
      BY <2>1, <3>2
    <3>4. v >= c.origin
      BY <2>1, <3>2, <3>3 DEF Version
    <3>5. desk' = [desk EXCEPT ![d][r].base = v]
      BY <1>1, <1>2, <1>3, <1>4, <2>3, <3>3 DEF Repo, TypeOK
    <3> QED
      BY <2>3, <3>1, <3>2, <3>4, <3>5
  <2>4. CASE UNCHANGED desk /\ Onward(d, Reason(d, Aborted))
    <3>1. PICK reason \in Reasons : reason = Reason(d, Aborted)
      BY <1>1, ReasonType DEF Reasons, Aborted
    <3>2. reason # "ok"
      BY <1>1, <3>1, ReasonType DEF Reasons, Aborted
    <3> QED
      BY <2>1, <2>4, <3>1, <3>2
  <2> QED
    BY <2>2, <2>3, <2>4 DEF Freshen
<1>6. PICK m \in Desk : m = [k EXCEPT !.base = v]
  BY DEF Desk
<1>7. m.base = v /\ m.listed = k.listed /\ m.branch = k.branch /\ m.commits = k.commits
      /\ m.made = k.made /\ m.left = k.left /\ m.dirty = k.dirty /\ m.tree = k.tree
  BY <1>6 DEF Desk
<1>8. desk' = [desk EXCEPT ![d][r] = m]
  BY <1>1, <1>3, <1>5, <1>6 DEF TypeOK
<1>9. \A e \in Desks, q \in Repos : desk'[e][q] = IF e = d /\ q = r THEN m ELSE desk[e][q]
  <2>1. DeskIs(d, r, m)
    BY <1>1, <1>8, DeskBecomes
  <2> QED
    BY <2>1 DEF DeskIs
<1>10. DeskFits(m, r, pin[d])
  <2>1. DeskFits(k, r, pin[d])
    BY <1>3 DEF DeskInv, WorkInv
  <2> QED
    BY <1>7, <2>1 DEF DeskFits
<1>11. \A q \in Repos : desk'[d][q].left = desk[d][q].left /\ desk'[d][q].listed = desk[d][q].listed
  BY <1>3, <1>7, <1>9
<1>12. \A p, q \in Repos : desk'[d][p].left = All /\ pin[d] = All => desk'[d][q].listed # "root"
  BY <1>11 DEF DeskInv, WorkInv, NoRoot
<1>13. PICK t \in Turn :
         /\ turn' = [turn EXCEPT ![d] = t]
         /\ t.pc \in {"clone", "work"} /\ t.at = turn[d].at /\ t.got = turn[d].got
         /\ t.repo \in Repos /\ t.repo \notin t.todo /\ (t.pc = "work" => t.todo = {})
         /\ t.at \in Repos => /\ t.pc = "work" /\ t.reason = reason
                              /\ t.repo = turn[d].repo /\ t.todo = {}
         /\ \A q \in Repos : Been(t, q) => q = turn[d].repo \/ Been(turn[d], q)
  <2>1. Onward(d, reason) /\ turn[d].pc \in {"add", "freshen"}
    BY <1>1, <1>5
  <2>2. \E t \in Turn : WentOn(t, d, reason)
    BY <2>1, OnwardGoes
  <2> QED
    BY <2>2 DEF WentOn
<1>14. TurnFits(t, d)'
  <2>1. ASSUME turn[d].at = All, NEW q \in Repos, Been(t, q) PROVE desk'[d][q].listed # "root"
    <3>1. CASE q = r
      <4>1. Been(turn[d], r)
        BY <1>1, <1>2 DEF TurnFits, Been
      <4> QED
        BY <1>1, <1>11, <2>1, <3>1, <4>1 DEF TurnFits
    <3>2. CASE q # r
      BY <1>1, <1>2, <1>11, <1>13, <2>1, <3>2 DEF TurnFits
    <3> QED
      BY <3>1, <3>2
  <2>2. UNCHANGED pin
    BY DEF Freshen
  <2>3. turn[d].at \in Repos => turn[d].repo = turn[d].at
    BY <1>1 DEF TurnFits
  <2>4. turn[d].at # pin[d] => \A q \in Repos : desk'[d][q].left # pin[d]
    BY <1>1, <1>11 DEF TurnFits
  <2> QED
    BY <1>13, <2>1, <2>2, <2>3, <2>4 DEF TurnFits, Been
<1>15. GotFits(t, d)'
  <2> SUFFICES ASSUME t.at \in Repos PROVE GotFits(t, d)'
    BY DEF GotFits
  <2>1. t.at = r /\ t.pc = "work" /\ t.reason = reason
    BY <1>1, <1>2, <1>13 DEF TurnFits
  <2>2. turn[d].got <= base[r] /\ c.state \in {"bare", "ready"}
        /\ (c.origin = NoRef \/ c.origin >= turn[d].got)
    BY <1>1, <1>4, <1>13, <2>1 DEF GotFits
  <2>3. desk'[d][r].base = v
    BY <1>7, <1>9
  <2>4. UNCHANGED <<base, clone>>
    BY DEF Freshen
  <2>5. v \in Int /\ c.origin \in Int /\ turn[d].got \in Int
    BY <1>1 DEF Version, Clone, Turn, NoRef
  <2> QED
    BY <1>4, <1>5, <1>13, <2>1, <2>2, <2>3, <2>4, <2>5 DEF GotFits
<1> QED
  BY <1>8, <1>10, <1>12, <1>13, <1>14, <1>15, DeskStep DEF Freshen

-----------------------------------------------------------------------------
(* The agent and the people.                                               *)

(* At work the turn has been at every repository.                          *)
LEMMA AtWorkFits ==
  ASSUME DeskInv, NEW d \in Desks, NEW r \in Repos, AtWork(d, r)
  PROVE  /\ turn[d] \in Turn /\ turn = [turn EXCEPT ![d] = turn[d]]
         /\ turn[d].at \in {r, All} /\ desk[d][r].listed = PlaceOf(turn[d].at)
         /\ desk[d][r].tree = PlaceOf(turn[d].at)
         /\ turn[d].at = All => NoRoot(d)
<1>1. TypeOK /\ turn[d] \in Turn /\ TurnFits(turn[d], d) /\ turn[d].pc = "work"
      /\ turn[d].at \in {r, All}
  BY Typed DEF DeskInv, WorkInv, AtWork, At
<1>2. turn = [turn EXCEPT ![d] = turn[d]]
  BY <1>1 DEF TypeOK
<1>3. turn[d].at = All => NoRoot(d)
  BY <1>1 DEF TurnFits, Been, NoRoot
<1> QED
  BY <1>1, <1>2, <1>3 DEF AtWork, Place, PlaceOf

(* What the agent does in a tree that git knows.                           *)
LEMMA AgentStep ==
  ASSUME DeskInv, NEW d \in Desks, NEW r \in Repos, AtWork(d, r),
         NEW m \in Desk, desk' = [desk EXCEPT ![d][r] = m],
         m.branch = desk[d][r].branch, m.base = desk[d][r].base, m.listed = desk[d][r].listed,
         \/ m.left = desk[d][r].left
         \/ m.left = "no"
         \/ m.left = turn[d].at,
         DeskFits(m, r, pin[d]),
         UNCHANGED <<base, clone, pin, turn, moves, faults>>
  PROVE  DeskInv'
<1>1. TypeOK /\ TurnFits(turn[d], d) /\ GotFits(turn[d], d) /\ pin[d] # "no" /\ turn[d].pc = "work"
  BY Typed, WorkspacesAssumption DEF DeskInv, WorkInv, FreshInv, AtWork, At
<1>2. /\ turn[d] \in Turn /\ turn = [turn EXCEPT ![d] = turn[d]]
      /\ turn[d].at = All => NoRoot(d)
  BY AtWorkFits
<1>3. PICK t \in Turn : t = turn[d]
  BY <1>2
<1>4. \A e \in Desks, q \in Repos : desk'[e][q] = IF e = d /\ q = r THEN m ELSE desk[e][q]
  <2>1. DeskIs(d, r, m)
    BY <1>1, DeskBecomes
  <2> QED
    BY <2>1 DEF DeskIs
<1>5. \A q \in Repos : desk'[d][q].listed = desk[d][q].listed /\ desk'[d][q].base = desk[d][q].base
  BY <1>4
<1>6. t.at # pin[d] => \A q \in Repos : desk'[d][q].left # pin[d]
  BY <1>1, <1>3, <1>4 DEF TurnFits
<1>7. \A p, q \in Repos : desk'[d][p].left = All /\ pin[d] = All => desk'[d][q].listed # "root"
  <2> SUFFICES ASSUME NEW p \in Repos, NEW q \in Repos, desk'[d][p].left = All, pin[d] = All
               PROVE  desk'[d][q].listed # "root"
    OBVIOUS
  <2>1. turn[d].at = All
    BY <1>3, <1>6
  <2> QED
    BY <1>2, <1>5, <2>1 DEF NoRoot
<1>8. TurnFits(t, d)'
  BY <1>1, <1>3, <1>5, <1>6 DEF TurnFits, Been
<1>9. GotFits(t, d)'
  BY <1>1, <1>3, <1>5 DEF GotFits
<1> QED
  BY <1>2, <1>3, <1>7, <1>8, <1>9, DeskStep

LEMMA AgentKeeps ==
  ASSUME DeskInv, NEW d \in Desks, NEW r \in Repos, Edit(d, r) \/ Commit(d, r) \/ Push(d, r)
  PROVE  DeskInv'
<1>1. TypeOK /\ AtWork(d, r) /\ UNCHANGED <<base, clone, pin, turn, moves, faults>>
  BY DEF DeskInv, Edit, Commit, Push
<1>2. /\ turn[d] \in Turn /\ turn[d].at \in {r, All}
      /\ desk[d][r].listed = PlaceOf(turn[d].at) /\ desk[d][r].tree = PlaceOf(turn[d].at)
  BY <1>1, AtWorkFits
<1>3. PICK k \in Desk : k = desk[d][r]
  BY <1>1, Typed
<1>4. DeskFits(k, r, pin[d]) /\ pin[d] # "no"
  BY <1>1, <1>3, Typed, WorkspacesAssumption DEF DeskInv, WorkInv
<1>5. PICK at \in Repos \cup {All} : at = turn[d].at
  BY <1>2
<1>6. CASE Edit(d, r)
  <2>1. PICK m \in Desk : m = [k EXCEPT !.dirty = TRUE, !.left = at]
    BY <1>5 DEF Desk
  <2>2. /\ m.branch = k.branch /\ m.base = k.base /\ m.listed = k.listed /\ m.tree = k.tree
        /\ m.left = at /\ m.dirty /\ m.commits = k.commits /\ m.made = k.made
    BY <2>1 DEF Desk
  <2>3. desk' = [desk EXCEPT ![d][r] = m]
    BY <1>1, <1>3, <1>5, <1>6, <2>1 DEF Edit, TypeOK
  <2>4. DeskFits(m, r, pin[d])
    BY <1>2, <1>3, <1>4, <1>5, <2>2 DEF DeskFits
  <2> QED
    BY <1>1, <1>3, <1>5, <2>2, <2>3, <2>4, AgentStep
<1>7. CASE Commit(d, r)
  <2>1. k.commits \in Count /\ k.made \in Count /\ k.commits < MaxCommits /\ k.made < MaxCommits
    BY <1>3, <1>7 DEF Commit, Desk
  <2>2. PICK n \in Count, h \in Count : n = k.commits + 1 /\ h = k.made + 1
    BY <2>1, WorkspacesAssumption DEF Count
  <2>3. PICK m \in Desk : m = [k EXCEPT !.dirty = FALSE, !.left = "no", !.commits = n, !.made = h]
    BY DEF Desk
  <2>4. /\ m.branch = k.branch /\ m.base = k.base /\ m.listed = k.listed /\ m.tree = k.tree
        /\ m.left = "no" /\ m.commits = n /\ m.made = h
    BY <2>3 DEF Desk
  <2>5. desk' = [desk EXCEPT ![d][r] = m]
    <3>1. desk' = [desk EXCEPT ![d][r].dirty = FALSE, ![d][r].left = "no",
                               ![d][r].commits = n, ![d][r].made = h]
      <4>1. n = desk[d][r].commits + 1 /\ h = desk[d][r].made + 1
        BY <1>3, <2>2
      <4>2. desk' = [desk EXCEPT ![d][r].dirty = FALSE, ![d][r].left = "no",
                                 ![d][r].commits = @ + 1, ![d][r].made = @ + 1]
        BY <1>7 DEF Commit
      <4> QED
        BY <1>1, <4>1, <4>2 DEF TypeOK
    <3> QED
      BY <1>1, <1>3, <2>3, <3>1 DEF TypeOK
  <2>6. k.branch
    BY <1>2, <1>3, <1>4 DEF DeskFits, PlaceOf
  <2>7. DeskFits(m, r, pin[d])
    BY <1>4, <2>2, <2>4, <2>6 DEF DeskFits
  <2> QED
    BY <1>1, <1>3, <2>4, <2>5, <2>7, AgentStep
<1>8. CASE Push(d, r)
  <2>1. k.commits \in Count /\ k.base \in Version
    BY DEF Desk
  <2>2. PICK m \in Desk : m = [k EXCEPT !.pushed = k.commits, !.pushedBase = k.base]
    BY <2>1 DEF Desk
  <2>3. /\ m.branch = k.branch /\ m.base = k.base /\ m.listed = k.listed /\ m.tree = k.tree
        /\ m.left = k.left /\ m.dirty = k.dirty /\ m.commits = k.commits /\ m.made = k.made
    BY <2>2 DEF Desk
  <2>4. desk' = [desk EXCEPT ![d][r] = m]
    BY <1>1, <1>3, <1>8, <2>2 DEF Push, TypeOK
  <2>5. DeskFits(m, r, pin[d])
    BY <1>4, <2>3 DEF DeskFits
  <2> QED
    BY <1>1, <1>3, <2>3, <2>4, <2>5, AgentStep
<1> QED
  BY <1>6, <1>7, <1>8

LEMMA MoveKeeps ==
  ASSUME DeskInv, NEW d \in Desks, NEW p \in Repos \cup {All}, Move(d, p)
  PROVE  DeskInv'
<1>1. TypeOK /\ p # "no" /\ UNCHANGED <<base, clone, turn, faults>>
  BY WorkspacesAssumption DEF DeskInv, Move
<1>2. pin' \in [Desks -> Repos \cup {All}] /\ \A e \in Desks : pin'[e] = IF e = d THEN p ELSE pin[e]
  BY <1>1 DEF Move, TypeOK
<1>3. moves' \in 0..MaxMoves
  BY <1>1, WorkspacesAssumption DEF Move, TypeOK
<1>4. \A q \in Repos : desk'[d][q] = [desk[d][q] EXCEPT !.left = "no"]
  BY <1>1 DEF Move, TypeOK
<1>5. \A e \in Desks : e # d => desk'[e] = desk[e]
  BY <1>1 DEF Move, TypeOK
<1>6. ASSUME NEW q \in Repos
      PROVE  /\ desk'[d][q] \in Desk /\ desk'[d][q].left = "no"
             /\ desk'[d][q].listed = desk[d][q].listed /\ desk'[d][q].base = desk[d][q].base
             /\ desk'[d][q].branch = desk[d][q].branch
             /\ desk'[d][q].commits = desk[d][q].commits /\ desk'[d][q].made = desk[d][q].made
  <2>1. PICK k \in Desk : k = desk[d][q]
    BY <1>1, Typed
  <2>2. PICK m : m = [k EXCEPT !.left = "no"]
    OBVIOUS
  <2>3. /\ m \in Desk /\ m.left = "no" /\ m.listed = k.listed /\ m.base = k.base
        /\ m.branch = k.branch /\ m.commits = k.commits /\ m.made = k.made
    BY <2>2 DEF Desk
  <2>4. desk'[d][q] = m
    BY <1>4, <2>1, <2>2
  <2> QED
    BY <2>1, <2>3, <2>4
<1>7. desk' \in [Desks -> [Repos -> Desk]]
  <2>1. desk'[d] = [q \in Repos |-> desk'[d][q]]
    BY <1>1 DEF Move, TypeOK
  <2>2. desk'[d] \in [Repos -> Desk]
    BY <1>6, <2>1
  <2>3. \A e \in Desks : desk'[e] \in [Repos -> Desk]
    BY <1>1, <1>5, <2>2 DEF TypeOK
  <2>4. desk' = [e \in Desks |-> desk'[e]]
    BY <1>1 DEF Move, TypeOK
  <2> QED
    BY <2>3, <2>4
<1>8. TypeOK'
  BY <1>1, <1>2, <1>3, <1>7 DEF TypeOK
<1>9. ASSUME NEW e \in Desks
      PROVE  /\ TurnFits(turn[e], e)'
             /\ \A r \in Repos : DeskFits(desk[e][r], r, pin[e])'
             /\ \A r \in Repos : (desk[e][r].left = All /\ pin[e] = All => NoRoot(e))'
             /\ GotFits(turn[e], e)'
  <2>1. PICK t \in Turn : t = turn[e]
    BY <1>1, Typed
  <2>2. TurnFits(t, e) /\ GotFits(t, e) /\ \A r \in Repos : DeskFits(desk[e][r], r, pin[e])
    BY <2>1 DEF DeskInv, WorkInv, FreshInv
  <2>3. CASE e = d
    <3>1. TurnFits(t, e)'
      BY <1>1, <1>2, <1>6, <2>2, <2>3 DEF TurnFits, Been
    <3>2. \A r \in Repos : DeskFits(desk[e][r], r, pin[e])'
      BY <1>1, <1>2, <1>6, <2>2, <2>3 DEF DeskFits
    <3>3. \A r \in Repos : (desk[e][r].left = All /\ pin[e] = All => NoRoot(e))'
      BY <1>6, <2>3, WorkspacesAssumption
    <3>4. GotFits(t, e)'
      BY <1>1, <1>6, <2>2, <2>3 DEF GotFits
    <3>5. turn'[e] = t
      BY <1>1, <2>1
    <3> QED
      BY <3>1, <3>2, <3>3, <3>4, <3>5 DEF TurnFits, GotFits, Been
  <2>4. CASE e # d
    <3>1. turn'[e] = t /\ desk'[e] = desk[e] /\ pin'[e] = pin[e]
      BY <1>1, <1>2, <1>5, <2>1, <2>4
    <3>2. TurnFits(turn[e], e)'
      BY <2>2, <3>1 DEF TurnFits, Been
    <3>3. \A r \in Repos : DeskFits(desk[e][r], r, pin[e])'
      BY <2>2, <3>1 DEF DeskFits
    <3>4. \A r \in Repos : (desk[e][r].left = All /\ pin[e] = All => NoRoot(e))'
      BY <3>1 DEF DeskInv, WorkInv, NoRoot
    <3>5. GotFits(turn[e], e)'
      BY <1>1, <2>2, <3>1 DEF GotFits
    <3> QED
      BY <3>2, <3>3, <3>4, <3>5
  <2> QED
    BY <2>3, <2>4
<1>10. \A r \in Repos : (clone[r].state = "bare" => clone[r].origin = NoRef)'
  BY <1>1 DEF DeskInv, FreshInv
<1> QED
  BY <1>8, <1>9, <1>10, DeskInvHolds

LEMMA BaseMovesKeeps ==
  ASSUME DeskInv, NEW r \in Repos, BaseMoves(r)
  PROVE  DeskInv'
<1>1. TypeOK /\ UNCHANGED <<clone, desk, pin, turn, moves, faults>>
  BY DEF DeskInv, BaseMoves
<1>2. base' \in [Repos -> Version] /\ \A q \in Repos : base'[q] >= base[q]
  <2>1. PICK v \in Version : v = base[r]
    BY <1>1, Typed
  <2>2. PICK w \in Version : w = v + 1
    BY <2>1, WorkspacesAssumption DEF BaseMoves, Version
  <2>3. base' = [base EXCEPT ![r] = w]
    BY <2>1, <2>2 DEF BaseMoves
  <2>4. \A q \in Repos : base[q] \in Version
    BY <1>1, Typed
  <2> QED
    BY <1>1, <2>1, <2>2, <2>3, <2>4 DEF TypeOK, Version
<1>3. TypeOK'
  BY <1>1, <1>2 DEF TypeOK
<1>4. \A q \in Repos : Follows(q)
  BY <1>1, <1>2 DEF Follows
<1>5. ASSUME NEW e \in Desks
      PROVE  /\ TurnFits(turn[e], e)'
             /\ \A q \in Repos : DeskFits(desk[e][q], q, pin[e])'
             /\ \A q \in Repos : (desk[e][q].left = All /\ pin[e] = All => NoRoot(e))'
             /\ GotFits(turn[e], e)'
  <2>1. PICK t \in Turn : t = turn[e]
    BY <1>1, Typed
  <2>2. TurnFits(t, e) /\ GotFits(t, e)
    BY <2>1 DEF DeskInv, WorkInv, FreshInv
  <2>3. GotFits(t, e)'
    BY <1>1, <1>2, <1>4, <2>2, GotKept
  <2>4. TurnFits(turn[e], e)' /\ GotFits(turn[e], e)'
    BY <1>1, <2>1, <2>2, <2>3 DEF TurnFits, GotFits, Been
  <2>5. /\ \A q \in Repos : DeskFits(desk[e][q], q, pin[e])'
        /\ \A q \in Repos : (desk[e][q].left = All /\ pin[e] = All => NoRoot(e))'
    BY <1>1 DEF DeskInv, WorkInv, DeskFits, NoRoot
  <2> QED
    BY <2>4, <2>5
<1>6. \A q \in Repos : (clone[q].state = "bare" => clone[q].origin = NoRef)'
  BY <1>1 DEF DeskInv, FreshInv
<1> QED
  BY <1>3, <1>5, <1>6, DeskInvHolds

LEMMA DeathKeeps == DeskInv /\ Death => DeskInv'
<1> SUFFICES ASSUME DeskInv, Death PROVE DeskInv'
  OBVIOUS
<1>1. TypeOK /\ UNCHANGED <<base, clone, desk, pin, moves>> /\ turn' = [d \in Desks |-> NoTurn]
  BY DEF DeskInv, Death
<1>2. TypeOK'
  BY <1>1, NoTurnType, FaultsType DEF Death, TypeOK
<1>3. ASSUME NEW e \in Desks
      PROVE  /\ TurnFits(turn[e], e)'
             /\ \A q \in Repos : DeskFits(desk[e][q], q, pin[e])'
             /\ \A q \in Repos : (desk[e][q].left = All /\ pin[e] = All => NoRoot(e))'
             /\ GotFits(turn[e], e)'
  <2>1. TurnFits(turn[e], e)' /\ GotFits(turn[e], e)'
    BY <1>1, NoTurnType DEF TurnFits, GotFits
  <2>2. /\ \A q \in Repos : DeskFits(desk[e][q], q, pin[e])'
        /\ \A q \in Repos : (desk[e][q].left = All /\ pin[e] = All => NoRoot(e))'
    BY <1>1 DEF DeskInv, WorkInv, DeskFits, NoRoot
  <2> QED
    BY <2>1, <2>2
<1>4. \A q \in Repos : (clone[q].state = "bare" => clone[q].origin = NoRef)'
  BY <1>1 DEF DeskInv, FreshInv
<1> QED
  BY <1>2, <1>3, <1>4, DeskInvHolds

LEMMA DeskInvInit == Init => DeskInv
<1> SUFFICES ASSUME Init PROVE DeskInv
  OBVIOUS
<1>1. /\ base = [r \in Repos |-> 0] /\ pin \in [Desks -> Repos \cup {All}]
      /\ turn = [d \in Desks |-> NoTurn] /\ moves = 0 /\ faults = 0
  BY DEF Init
<1>2. 0 \in Version /\ 0 \in Count /\ 0 \in 0..MaxMoves /\ 0 \in 0..MaxFaults
  BY WorkspacesAssumption DEF Version, Count
<1>3. ASSUME NEW c \in {NoClone, [NoClone EXCEPT !.state = "legacy"]}
      PROVE  c \in Clone /\ c.state # "bare"
  BY <1>2 DEF NoClone, Clone
<1>4. ASSUME NEW r \in Repos, NEW p \in Repos \cup {All}
      PROVE  NoDesk \in Desk /\ DeskFits(NoDesk, r, p) /\ NoDesk.left = "no"
  BY <1>2, WorkspacesAssumption DEF NoDesk, Desk, Places, DeskFits
<1>5. ASSUME NEW r \in Repos, NEW p \in Repos \cup {All}, NEW dirty \in BOOLEAN
      PROVE  /\ Inherited(dirty) \in Desk /\ DeskFits(Inherited(dirty), r, p)
             /\ Inherited(dirty).left = "no"
  <2>1. 1 \in Count
    BY WorkspacesAssumption DEF Count
  <2> QED
    BY <1>2, <2>1, WorkspacesAssumption DEF Inherited, NoDesk, Desk, Places, DeskFits
<1>6. ASSUME NEW d \in Desks, NEW r \in Repos
      PROVE  /\ desk[d][r] \in Desk /\ DeskFits(desk[d][r], r, pin[d])
             /\ desk[d][r].left = "no"
  <2>1. PICK p \in Repos \cup {All} : p = pin[d]
    BY <1>1
  <2>2. CASE desk[d][r] = NoDesk
    BY <1>4, <2>1, <2>2
  <2>3. CASE \E dirty \in BOOLEAN : desk[d][r] = Inherited(dirty)
    BY <1>5, <2>1, <2>3
  <2> QED
    BY <2>2, <2>3 DEF Init
<1>7. ASSUME NEW r \in Repos
      PROVE  clone[r] \in Clone /\ clone[r].state # "bare"
  <2>1. clone[r] \in {NoClone, [NoClone EXCEPT !.state = "legacy"]}
    BY DEF Init
  <2>2. PICK c \in {NoClone, [NoClone EXCEPT !.state = "legacy"]} : c = clone[r]
    BY <2>1
  <2> QED
    BY <1>3, <2>2
<1>8. desk = [d \in Desks |-> [r \in Repos |-> desk[d][r]]] /\ clone = [r \in Repos |-> clone[r]]
  BY DEF Init
<1>9. desk \in [Desks -> [Repos -> Desk]] /\ clone \in [Repos -> Clone]
  <2>1. clone \in [Repos -> Clone]
    BY <1>7, <1>8
  <2>2. [d \in Desks |-> [r \in Repos |-> desk[d][r]]] \in [Desks -> [Repos -> Desk]]
    BY <1>6
  <2> QED
    BY <1>8, <2>1, <2>2
<1>10. TypeOK
  BY <1>1, <1>2, <1>9, NoTurnType DEF TypeOK
<1>11. WorkInv
  <2>1. \A d \in Desks : TurnFits(turn[d], d)
    BY <1>1, NoTurnType DEF TurnFits
  <2> QED
    BY <1>6, <2>1, WorkspacesAssumption DEF WorkInv
<1>12. FreshInv
  BY <1>1, <1>7, NoTurnType DEF FreshInv, GotFits
<1> QED
  BY <1>10, <1>11, <1>12 DEF DeskInv

(* The invariant of the working trees, and what it shows.                  *)
LEMMA DeskInvStep == DeskInv /\ [Next]_vars => DeskInv'
<1> SUFFICES ASSUME DeskInv, [Next]_vars PROVE DeskInv'
  OBVIOUS
<1>1. CASE Death
  BY <1>1, DeathKeeps
<1>2. ASSUME NEW r \in Repos, BaseMoves(r) PROVE DeskInv'
  BY <1>2, BaseMovesKeeps
<1>3. ASSUME NEW d \in Desks, Begin(d) \/ End(d) \/ AddFails(d) PROVE DeskInv'
  BY <1>3, BeginKeeps, EndKeeps
<1>4. ASSUME NEW d \in Desks, Fetch(d) \/ CloneBare(d) \/ Configure(d) PROVE DeskInv'
  BY <1>4, FetchKeeps, CloneBareKeeps, ConfigureKeeps
<1>5. ASSUME NEW d \in Desks, Reuse(d) \/ Clear(d) \/ AddKnown(d) PROVE DeskInv'
  BY <1>5, ReuseKeeps, ClearKeeps, AddKnownKeeps
<1>6. ASSUME NEW d \in Desks, AddNew(d) \/ Freshen(d) PROVE DeskInv'
  BY <1>6, AddNewKeeps, FreshenKeeps
<1>7. ASSUME NEW d \in Desks, NEW p \in Repos \cup {All}, Move(d, p) PROVE DeskInv'
  BY <1>7, MoveKeeps
<1>8. ASSUME NEW d \in Desks, NEW r \in Repos, Edit(d, r) \/ Commit(d, r) \/ Push(d, r)
      PROVE  DeskInv'
  BY <1>8, AgentKeeps
<1>9. CASE UNCHANGED vars
  BY <1>9 DEF vars, DeskInv, TypeOK, WorkInv, FreshInv, DeskFits, TurnFits, GotFits, Been, NoRoot
<1> QED
  BY <1>1, <1>2, <1>3, <1>4, <1>5, <1>6, <1>7, <1>8, <1>9 DEF Next

LEMMA DeskInvShows == DeskInv => WorkKept /\ FreshOrSaid
<1> SUFFICES ASSUME DeskInv PROVE WorkKept /\ FreshOrSaid
  OBVIOUS
<1>1. WorkKept
  BY DEF DeskInv, WorkInv, DeskFits, WorkKept
<1>2. FreshOrSaid
  BY DEF DeskInv, FreshInv, GotFits, FreshOrSaid, At
<1> QED
  BY <1>1, <1>2

-----------------------------------------------------------------------------
(* OpenClaw: type correctness.                                             *)
Pcs == {"idle", "engine", "bind", "cache", "mcp", "write", "stamp", "load", "create",
        "register", "save", "list", "remove", "connect"}

LEMMA PcsAre == \A pc \in {"cache", "mcp", "load", "register", "save", "list"} : pc \in Pcs
BY DEF Pcs

LEMMA GatewayTyped ==
  ASSUME Gateway!TypeOK
  PROVE  /\ \A t \in Gateway!Actors : setup[t] \in Gateway!Turn
         /\ \A a \in Agents : workspace[a] \in Desks \cup {Nobody} /\ bound[a] \in Desks \cup {Nobody}
         /\ \A n \in Servers : servers[n] \in Agents \cup {Nobody}
BY DEF Gateway!TypeOK

LEMMA TurnsAct == /\ Turns \subseteq Gateway!Actors /\ Cli \in Gateway!Actors /\ Cli \notin Turns
                  /\ Nobody \notin Agents /\ Nobody \notin Desks
BY HostAssumption DEF Gateway!GatewayAssumption, Gateway!Actors

LEMMA IdleType == /\ Gateway!Idle \in Gateway!Turn
                  /\ Gateway!Idle.pc = "idle" /\ Gateway!Idle.stale = {}
BY DEF Gateway!Idle, Gateway!Turn

LEMMA SetupBecomes ==
  ASSUME Gateway!TypeOK, NEW t \in Gateway!Actors, NEW u \in Gateway!Turn,
         setup' = [setup EXCEPT ![t] = u]
  PROVE  /\ setup' \in [Gateway!Actors -> Gateway!Turn]
         /\ \A s \in Gateway!Actors : setup'[s] = IF s = t THEN u ELSE setup[s]
BY DEF Gateway!TypeOK

LEMMA HitsType == Gateway!TypeOK /\ (UNCHANGED hits \/ Gateway!Fault) => hits' \in 0..MaxHits
BY HostAssumption DEF Gateway!TypeOK, Gateway!Fault, Gateway!GatewayAssumption

(* A turn that goes on, with what it has seen, left to do or done.         *)
LEMMA GoesType ==
  ASSUME NEW u \in Gateway!Turn, NEW pc \in Pcs, NEW seen \in Desks \cup {Nobody},
         NEW failed \in BOOLEAN,
         NEW v, v = [u EXCEPT !.pc = pc, !.seen = seen, !.failed = failed]
  PROVE  /\ v \in Gateway!Turn /\ v.pc = pc /\ v.seen = seen /\ v.failed = failed
         /\ v.agent = u.agent /\ v.desk = u.desk /\ v.left = u.left /\ v.done = u.done
         /\ v.id = u.id /\ v.stale = u.stale
BY DEF Gateway!Turn, Pcs

LEMMA ServesType ==
  ASSUME NEW u \in Gateway!Turn, NEW pc \in Pcs, NEW left \in SUBSET Servers,
         NEW done \in SUBSET Servers, NEW failed \in BOOLEAN,
         NEW v, v = [u EXCEPT !.pc = pc, !.left = left, !.done = done, !.failed = failed]
  PROVE  /\ v \in Gateway!Turn /\ v.pc = pc /\ v.seen = u.seen /\ v.failed = failed
         /\ v.agent = u.agent /\ v.desk = u.desk /\ v.left = left /\ v.done = done
         /\ v.id = u.id /\ v.stale = u.stale
BY DEF Gateway!Turn, Pcs

LEMMA HoldsType ==
  ASSUME NEW u \in Gateway!Turn, NEW pc \in Pcs, NEW id \in {0} \cup Gateway!Ids,
         NEW stale \in SUBSET Gateway!Ids, NEW v, v = [u EXCEPT !.pc = pc, !.id = id, !.stale = stale]
  PROVE  /\ v \in Gateway!Turn /\ v.pc = pc /\ v.seen = u.seen /\ v.failed = u.failed
         /\ v.agent = u.agent /\ v.desk = u.desk /\ v.left = u.left /\ v.done = u.done
         /\ v.id = id /\ v.stale = stale
BY DEF Gateway!Turn, Pcs

LEMMA TurnGoes ==
  ASSUME Gateway!TypeOK, NEW t \in Gateway!Actors, NEW s \in Gateway!Turn, s = setup[t],
         NEW pc \in Pcs, Gateway!Goes(t, pc)
  PROVE  \E u \in Gateway!Turn :
           /\ setup' = [setup EXCEPT ![t] = u] /\ u.pc = pc /\ u.failed = s.failed
           /\ u.agent = s.agent /\ u.desk = s.desk /\ u.left = s.left /\ u.done = s.done
           /\ u.id = s.id /\ u.stale = s.stale
<1>1. s.failed \in BOOLEAN
  BY DEF Gateway!Turn
<1>2. PICK u : u = [s EXCEPT !.pc = pc, !.seen = Nobody, !.failed = s.failed]
  OBVIOUS
<1>3. u = [s EXCEPT !.pc = pc, !.seen = Nobody]
  BY <1>2 DEF Gateway!Turn
<1>4. setup' = [setup EXCEPT ![t] = u]
  BY <1>3 DEF Gateway!Goes
<1>5. /\ u \in Gateway!Turn /\ u.pc = pc /\ u.failed = s.failed
      /\ u.agent = s.agent /\ u.desk = s.desk /\ u.left = s.left /\ u.done = s.done
      /\ u.id = s.id /\ u.stale = s.stale
  BY <1>1, <1>2 DEF Gateway!Turn, Pcs
<1> QED
  BY <1>4, <1>5

LEMMA TurnFails ==
  ASSUME Gateway!TypeOK, NEW t \in Gateway!Actors, NEW s \in Gateway!Turn, s = setup[t],
         NEW pc \in Pcs, Gateway!Fails(t, pc)
  PROVE  \E u \in Gateway!Turn :
           /\ setup' = [setup EXCEPT ![t] = u] /\ u.pc = pc /\ u.failed
           /\ u.agent = s.agent /\ u.desk = s.desk /\ u.left = s.left /\ u.done = s.done
           /\ u.id = s.id /\ u.stale = s.stale
<1>1. PICK u : u = [s EXCEPT !.pc = pc, !.seen = Nobody, !.failed = TRUE]
  OBVIOUS
<1>2. setup' = [setup EXCEPT ![t] = u]
  BY <1>1 DEF Gateway!Fails
<1>3. /\ u \in Gateway!Turn /\ u.pc = pc /\ u.failed
      /\ u.agent = s.agent /\ u.desk = s.desk /\ u.left = s.left /\ u.done = s.done
      /\ u.id = s.id /\ u.stale = s.stale
  BY <1>1 DEF Gateway!Turn, Pcs
<1> QED
  BY <1>2, <1>3

-----------------------------------------------------------------------------
(* What OpenClaw is set up for.                                            *)
Actors == Gateway!Actors

(* Turns prepare for their agent, on its desk.                             *)
OwnerFits(u) == u.pc # "idle" => u.agent \in Agents /\ u.desk \in Desks

(* Where a turn is after it has bound the desk, and after the servers.     *)
Rebound == Pcs \ {"idle", "engine", "bind", "cache"}
Later   == Rebound \ {"mcp", "write"}

ServedFor(a) == \A n \in Servers : servers[n] = a

ConfigFits(u) ==
  /\ u.pc = "bind" => u.seen = workspace[u.agent]
  /\ u.pc = "cache" => workspace[u.agent] = u.desk
  /\ u.pc \in Rebound => u.failed \/ workspace[u.agent] = u.desk
  /\ u.pc = "write" => \A n \in u.done : servers[n] = u.agent
  /\ u.pc \in Later => u.failed \/ ServedFor(u.agent)

(* While turns prepare one after the other, what the daemon remembers is   *)
(* so, but for what the turn that prepares is about to make it remember.   *)
Remembered(a) ==
  \/ bound[a] \in {Nobody, workspace[a]}
  \/ \E t \in Turns : setup[t].pc = "cache" /\ setup[t].agent = a

AppliedServes ==
  \/ applied = Nobody \/ ServedFor(applied)
  \/ \E t \in Turns : setup[t].pc = "write" /\ setup[t].done # {}

ConfigInv ==
  /\ \A s, t \in Turns : setup[s].pc # "idle" /\ setup[t].pc # "idle" => s = t
  /\ \A a \in Agents : Remembered(a)
  /\ AppliedServes
  /\ \A t \in Turns : ConfigFits(setup[t])

(* Unless two identities are created at once there is one device.          *)
Holding == {"register", "save", "list", "remove", "connect"}

NamesDevice(u) == u.pc \in Holding \cup {"create"} => u.id # 0

DeviceFits(u, f, p) ==
  /\ u.pc = "create" => u.id # 0 /\ f.id = 0
  /\ u.pc \in Holding => u.id = f.id /\ f.id # 0
  /\ u.pc \in Holding \ {"register"} => u.id \in p
  /\ u.stale = {}

DeviceInv ==
  /\ \A s, t \in Actors : setup[s].pc = "create" /\ setup[t].pc = "create" => s = t
  /\ file.id = 0 => paired = {}
  /\ paired \subseteq {file.id}
  /\ file.token => file.id \in paired
  /\ \A t \in Actors : DeviceFits(setup[t], file, paired)

SetupInv ==
  /\ Gateway!TypeOK
  /\ \A t \in Turns : OwnerFits(setup[t])
  /\ \A t \in Actors : NamesDevice(setup[t])
  /\ file.id = 0 => file = Gateway!NoFile
  /\ "config" \in muddled \/ ConfigInv
  /\ "device" \in muddled \/ DeviceInv

-----------------------------------------------------------------------------
(* A step of one actor.                                                    *)

(* A configuration step: of a turn, alone, or the configuration is muddled. *)
LEMMA ConfigStep ==
  ASSUME Gateway!TypeOK, ConfigInv, NEW t \in Turns, NEW u \in Gateway!Turn,
         setup' = [setup EXCEPT ![t] = u],
         \A s \in Turns : s # t => setup[s].pc = "idle",
         \A a \in Agents : bound'[a] \in {Nobody, workspace'[a]} \/ (u.pc = "cache" /\ u.agent = a),
         \/ applied' = Nobody
         \/ \A n \in Servers : servers'[n] = applied'
         \/ u.pc = "write" /\ u.done # {},
         ConfigFits(u)'
  PROVE  ConfigInv'
<1>1. /\ setup'[t] = u
      /\ \A s \in Turns : s # t => setup'[s] = setup[s]
  BY SetupBecomes, TurnsAct
<1>2. \A s \in Turns : s # t => setup'[s].pc = "idle"
  BY <1>1
<1>3. \A r, s \in Turns : setup'[r].pc # "idle" /\ setup'[s].pc # "idle" => r = s
  BY <1>2
<1>4. \A a \in Agents : Remembered(a)'
  BY <1>1 DEF Remembered
<1>5. AppliedServes'
  BY <1>1 DEF AppliedServes, ServedFor
<1>6. ASSUME NEW s \in Turns PROVE ConfigFits(setup[s])'
  <2>1. CASE s = t
    BY <1>1, <2>1 DEF ConfigFits, ServedFor
  <2>2. CASE s # t
    <3>1. setup'[s].pc = "idle"
      BY <1>2, <2>2
    <3> QED
      BY <3>1 DEF ConfigFits, Rebound, Later
  <2> QED
    BY <2>1, <2>2
<1> QED
  BY <1>3, <1>4, <1>5, <1>6 DEF ConfigInv

(* The others rest while one prepares, and what is remembered is so.       *)
LEMMA Alone ==
  ASSUME Gateway!TypeOK, ConfigInv, NEW t \in Turns, setup[t].pc # "idle"
  PROVE  /\ \A s \in Turns : s # t => setup[s].pc = "idle"
         /\ setup[t].pc # "cache" => \A a \in Agents : bound[a] \in {Nobody, workspace[a]}
         /\ \A a \in Agents : a # setup[t].agent => bound[a] \in {Nobody, workspace[a]}
         /\ setup[t].pc # "write" \/ setup[t].done = {} => applied = Nobody \/ ServedFor(applied)
         /\ ConfigFits(setup[t])
<1>1. \A s \in Turns : s # t => setup[s].pc = "idle"
  BY DEF ConfigInv
<1> QED
  BY <1>1 DEF ConfigInv, Remembered, AppliedServes

(* A device step, of a turn or of the command.                             *)
LEMMA ConfigStays ==
  ASSUME Gateway!TypeOK, ConfigInv, NEW t \in Actors, NEW u \in Gateway!Turn,
         setup' = [setup EXCEPT ![t] = u],
         UNCHANGED <<workspace, servers, bound, applied>>,
         t \in Turns => /\ setup[t].pc \in Later /\ u.pc \in Later \cup {"idle"}
                        /\ \/ u.pc = "idle"
                           \/ /\ u.agent = setup[t].agent /\ u.desk = setup[t].desk
                              /\ u.failed = setup[t].failed
  PROVE  ConfigInv'
<1>1. /\ setup'[t] = u
      /\ \A s \in Turns : s # t => setup'[s] = setup[s]
  BY SetupBecomes, TurnsAct DEF Actors
<1>2. CASE t \in Turns
  <2>1. setup[t].pc # "idle" /\ setup[t].pc \notin {"cache", "write"}
    BY <1>2 DEF Later, Rebound, Pcs
  <2>2. /\ \A s \in Turns : s # t => setup[s].pc = "idle"
        /\ \A a \in Agents : bound[a] \in {Nobody, workspace[a]}
        /\ applied = Nobody \/ ServedFor(applied)
        /\ ConfigFits(setup[t])
    BY <1>2, <2>1, Alone
  <2>3. ConfigFits(u)'
    <3>1. u.pc \notin {"bind", "cache", "write"}
      BY <1>2 DEF Later, Rebound, Pcs
    <3>2. CASE u.pc = "idle"
      BY <3>2 DEF ConfigFits, Later, Rebound
    <3>3. CASE u.pc # "idle"
      BY <1>2, <2>2, <3>1, <3>3 DEF ConfigFits, ServedFor, Later
    <3> QED
      BY <3>2, <3>3
  <2> QED
    BY <1>2, <2>2, <2>3, ConfigStep DEF ServedFor
<1>3. CASE t \notin Turns
  <2>1. \A s \in Turns : setup'[s] = setup[s]
    BY <1>1, <1>3
  <2> QED
    BY <2>1 DEF ConfigInv, Remembered, AppliedServes, ConfigFits, ServedFor
<1> QED
  BY <1>2, <1>3

(* A step that has nothing to do with the device.                          *)
LEMMA DeviceStays ==
  ASSUME Gateway!TypeOK, DeviceInv, NEW t \in Actors, NEW u \in Gateway!Turn,
         setup' = [setup EXCEPT ![t] = u], UNCHANGED <<file, paired>>,
         u.pc \notin Holding \cup {"create"}, u.stale = {}
  PROVE  DeviceInv'
<1>1. /\ setup'[t] = u
      /\ \A s \in Actors : s # t => setup'[s] = setup[s]
  BY SetupBecomes DEF Actors
<1>2. ASSUME NEW s \in Actors PROVE DeviceFits(setup[s], file, paired)'
  <2>1. CASE s = t
    BY <1>1, <2>1 DEF DeviceFits, Holding
  <2>2. CASE s # t
    BY <1>1, <2>2 DEF DeviceInv, DeviceFits
  <2> QED
    BY <2>1, <2>2
<1>3. \A r, s \in Actors : setup'[r].pc = "create" /\ setup'[s].pc = "create" => r = s
  BY <1>1 DEF DeviceInv
<1> QED
  BY <1>2, <1>3 DEF DeviceInv

(* The steps of a turn that prepares.                                      *)
LEMMA SetupStep ==
  ASSUME SetupInv, NEW t \in Turns, NEW u \in Gateway!Turn, setup' = [setup EXCEPT ![t] = u],
         workspace' \in [Agents -> Desks \cup {Nobody}],
         servers' \in [Servers -> Agents \cup {Nobody}],
         bound' \in [Agents -> Desks \cup {Nobody}], applied' \in Agents \cup {Nobody},
         UNCHANGED <<paired, file, ids>>, UNCHANGED hits \/ Gateway!Fault,
         muddled' \in {muddled, muddled \cup {"config"}},
         u.pc \notin Holding \cup {"create"}, u.stale \in {setup[t].stale, {}}, OwnerFits(u),
         "config" \in muddled' \/ ConfigInv'
  PROVE  SetupInv'
<1>1. Gateway!TypeOK /\ t \in Actors
  BY TurnsAct DEF SetupInv, Actors
<1>2. /\ setup' \in [Actors -> Gateway!Turn]
      /\ \A s \in Actors : setup'[s] = IF s = t THEN u ELSE setup[s]
  BY <1>1, SetupBecomes DEF Actors
<1>3. Gateway!TypeOK'
  BY <1>1, <1>2, HitsType DEF Gateway!TypeOK, Actors
<1>4. \A s \in Turns : OwnerFits(setup[s])'
  BY <1>2, TurnsAct DEF SetupInv, OwnerFits, Actors
<1>5. ("device" \in muddled \/ DeviceInv)'
  <2>1. CASE "device" \in muddled
    BY <2>1
  <2>2. CASE DeviceInv
    <3>1. u.stale = {}
      BY <1>1, <2>2 DEF DeviceInv, DeviceFits
    <3> QED
      BY <1>1, <2>2, <3>1, DeviceStays
  <2> QED
    BY <2>1, <2>2 DEF SetupInv
<1>6. \A s \in Actors : NamesDevice(setup[s])'
  BY <1>2 DEF SetupInv, NamesDevice
<1>7. (file.id = 0 => file = Gateway!NoFile)'
  BY DEF SetupInv
<1> QED
  BY <1>3, <1>4, <1>5, <1>6, <1>7 DEF SetupInv

LEMMA SetupBeginKeeps ==
  ASSUME SetupInv, NEW t \in Turns, NEW a \in Agents, NEW d \in Desks, Gateway!Begin(t, a, d)
  PROVE  SetupInv'
<1>1. Gateway!TypeOK /\ setup[t].pc = "idle"
      /\ UNCHANGED <<workspace, servers, bound, applied, paired, file, ids, hits>>
  BY DEF SetupInv, Gateway!Begin, Gateway!At, Gateway!config, Gateway!caches, Gateway!device
<1>2. PICK u \in Gateway!Turn : u = [Gateway!Idle EXCEPT !.pc = "engine", !.agent = a, !.desk = d]
  BY DEF Gateway!Idle, Gateway!Turn
<1>3. u.pc = "engine" /\ u.agent = a /\ u.desk = d /\ u.stale = {}
  BY <1>2 DEF Gateway!Idle
<1>4. setup' = [setup EXCEPT ![t] = u]
  BY <1>2 DEF Gateway!Begin
<1>5. muddled' = IF \E s \in Turns : setup[s].pc # "idle" THEN muddled \cup {"config"} ELSE muddled
  BY DEF Gateway!Begin, Gateway!Preparing
<1>6. "config" \in muddled' \/ ConfigInv'
  <2> SUFFICES ASSUME ConfigInv, \A s \in Turns : setup[s].pc = "idle" PROVE ConfigInv'
    BY <1>5 DEF SetupInv
  <2>1. \A b \in Agents : bound[b] \in {Nobody, workspace[b]}
    BY DEF ConfigInv, Remembered
  <2>2. applied = Nobody \/ ServedFor(applied)
    BY DEF ConfigInv, AppliedServes
  <2>3. ConfigFits(u)'
    BY <1>3 DEF ConfigFits, Rebound, Later
  <2> QED
    BY <1>1, <1>4, <2>1, <2>2, <2>3, ConfigStep DEF ServedFor
<1>7. OwnerFits(u) /\ u.pc \notin Holding \cup {"create"}
  BY <1>3 DEF OwnerFits, Holding
<1>8. muddled' \in {muddled, muddled \cup {"config"}}
  BY <1>5
<1>9. /\ workspace' \in [Agents -> Desks \cup {Nobody}]
      /\ servers' \in [Servers -> Agents \cup {Nobody}]
      /\ bound' \in [Agents -> Desks \cup {Nobody}] /\ applied' \in Agents \cup {Nobody}
  BY <1>1 DEF Gateway!TypeOK
<1> QED
  BY <1>1, <1>3, <1>4, <1>6, <1>7, <1>8, <1>9, SetupStep

LEMMA EngineKeeps ==
  ASSUME SetupInv, NEW t \in Turns, Gateway!Engine(t)
  PROVE  SetupInv'
<1>1. /\ Gateway!TypeOK /\ setup[t] \in Gateway!Turn /\ setup[t].pc = "engine"
      /\ setup[t].agent \in Agents /\ setup[t].desk \in Desks
      /\ UNCHANGED <<servers, bound, applied, paired, file, ids, muddled>>
  BY GatewayTyped, TurnsAct
     DEF SetupInv, OwnerFits, Gateway!Engine, Gateway!At, Gateway!caches, Gateway!device
<1>2. PICK s \in Gateway!Turn, a \in Agents, d \in Desks :
        s = setup[t] /\ a = s.agent /\ d = s.desk
  BY <1>1
<1>3. PICK u \in Gateway!Turn :
        /\ setup' = [setup EXCEPT ![t] = u]
        /\ u.agent = a /\ u.desk = d /\ u.stale = s.stale
        /\ \/ u.pc = "bind" /\ u.seen = workspace[a] /\ UNCHANGED <<workspace, hits>>
           \/ /\ u.pc = "cache" /\ workspace[a] = Nobody
              /\ workspace' = [workspace EXCEPT ![a] = d] /\ UNCHANGED hits
           \/ u.pc = "mcp" /\ u.failed /\ UNCHANGED workspace /\ Gateway!Fault
  <2>1. CASE /\ workspace[a] # Nobody /\ UNCHANGED <<workspace, hits>>
             /\ setup' = [setup EXCEPT ![t].pc = "bind", ![t].seen = workspace[a]]
    <3>1. PICK u : u = [s EXCEPT !.pc = "bind", !.seen = workspace[a], !.failed = s.failed]
      OBVIOUS
    <3>2. workspace[a] \in Desks \cup {Nobody} /\ s.failed \in BOOLEAN
      BY <1>1, GatewayTyped DEF Gateway!Turn
    <3>3. /\ u \in Gateway!Turn /\ u.pc = "bind" /\ u.seen = workspace[a]
          /\ u.agent = s.agent /\ u.desk = s.desk /\ u.stale = s.stale
      BY <3>1, <3>2 DEF Gateway!Turn
    <3>4. u = [s EXCEPT !.pc = "bind", !.seen = workspace[a]]
      BY <3>1 DEF Gateway!Turn
    <3>5. setup' = [setup EXCEPT ![t] = u]
      BY <1>2, <2>1, <3>4
    <3> QED
      BY <1>2, <2>1, <3>3, <3>5
  <2>2. CASE /\ workspace[a] = Nobody /\ workspace' = [workspace EXCEPT ![a] = d]
             /\ Gateway!Goes(t, "cache") /\ UNCHANGED hits
    <3>1. PICK u \in Gateway!Turn :
            /\ setup' = [setup EXCEPT ![t] = u] /\ u.pc = "cache"
            /\ u.agent = s.agent /\ u.desk = s.desk /\ u.stale = s.stale
      BY <1>1, <1>2, <2>2, TurnGoes, PcsAre, TurnsAct
    <3> QED
      BY <1>2, <2>2, <3>1
  <2>3. CASE Gateway!Fault /\ Gateway!Fails(t, "mcp") /\ UNCHANGED workspace
    <3>1. PICK u \in Gateway!Turn :
            /\ setup' = [setup EXCEPT ![t] = u] /\ u.pc = "mcp" /\ u.failed
            /\ u.agent = s.agent /\ u.desk = s.desk /\ u.stale = s.stale
      BY <1>1, <1>2, <2>3, TurnFails, PcsAre, TurnsAct
    <3> QED
      BY <1>2, <2>3, <3>1
  <2> QED
    BY <1>2, <2>1, <2>2, <2>3 DEF Gateway!Engine
<1>4. workspace' \in [Agents -> Desks \cup {Nobody}]
  BY <1>1, <1>3 DEF Gateway!TypeOK
<1>5. ConfigInv => ConfigInv'
  <2> SUFFICES ASSUME ConfigInv PROVE ConfigInv'
    OBVIOUS
  <2>1. /\ \A r \in Turns : r # t => setup[r].pc = "idle"
        /\ \A b \in Agents : bound[b] \in {Nobody, workspace[b]}
        /\ applied = Nobody \/ ServedFor(applied)
    BY <1>1, Alone
  <2>2. \A b \in Agents : bound'[b] \in {Nobody, workspace'[b]}
    BY <1>1, <1>3, <2>1 DEF Gateway!TypeOK
  <2>3. ConfigFits(u)'
    BY <1>1, <1>3 DEF ConfigFits, Rebound, Later, Pcs, Gateway!TypeOK
  <2> QED
    BY <1>1, <1>3, <2>1, <2>2, <2>3, ConfigStep DEF ServedFor
<1>6. OwnerFits(u) /\ u.pc \notin Holding \cup {"create"}
  BY <1>3 DEF OwnerFits, Holding
<1>7. /\ servers' \in [Servers -> Agents \cup {Nobody}]
      /\ bound' \in [Agents -> Desks \cup {Nobody}] /\ applied' \in Agents \cup {Nobody}
  BY <1>1 DEF Gateway!TypeOK
<1>8. "config" \in muddled' \/ ConfigInv'
  BY <1>1, <1>5 DEF SetupInv
<1>9. UNCHANGED hits \/ Gateway!Fault
  BY <1>3
<1> QED
  BY <1>1, <1>2, <1>3, <1>4, <1>6, <1>7, <1>8, <1>9, SetupStep

LEMMA BindSkipsKeeps ==
  ASSUME SetupInv, NEW t \in Turns, Gateway!BindSkips(t)
  PROVE  SetupInv'
<1>1. /\ Gateway!TypeOK /\ setup[t] \in Gateway!Turn /\ setup[t].pc = "bind"
      /\ setup[t].agent \in Agents /\ setup[t].desk \in Desks
      /\ UNCHANGED <<workspace, servers, applied, paired, file, ids, muddled, hits>>
  BY GatewayTyped, TurnsAct
     DEF SetupInv, OwnerFits, Gateway!BindSkips, Gateway!At, Gateway!config, Gateway!device
<1>2. PICK s \in Gateway!Turn, a \in Agents, d \in Desks :
        s = setup[t] /\ a = s.agent /\ d = s.desk
  BY <1>1
<1>3. Gateway!Goes(t, "mcp")
  BY DEF Gateway!BindSkips, Gateway!BoundAlready, Gateway!BoundAsListed
<1>4. PICK u \in Gateway!Turn :
        /\ setup' = [setup EXCEPT ![t] = u] /\ u.pc = "mcp"
        /\ u.agent = s.agent /\ u.desk = s.desk /\ u.stale = s.stale
  BY <1>1, <1>2, <1>3, TurnGoes, PcsAre, TurnsAct
<1>5. \/ bound[a] = d /\ bound' = bound
      \/ s.seen = d /\ bound' = [bound EXCEPT ![a] = d]
  BY <1>2 DEF Gateway!BindSkips, Gateway!BoundAlready, Gateway!BoundAsListed
<1>6. ConfigInv => ConfigInv'
  <2> SUFFICES ASSUME ConfigInv PROVE ConfigInv'
    OBVIOUS
  <2>1. /\ \A r \in Turns : r # t => setup[r].pc = "idle"
        /\ \A b \in Agents : bound[b] \in {Nobody, workspace[b]}
        /\ applied = Nobody \/ ServedFor(applied)
        /\ ConfigFits(s)
    BY <1>1, <1>2, Alone
  <2>2. workspace[a] = d
    BY <1>1, <1>2, <1>5, <2>1, TurnsAct DEF ConfigFits
  <2>3. \A b \in Agents : bound'[b] \in {Nobody, workspace'[b]}
    BY <1>1, <1>5, <2>1, <2>2 DEF Gateway!TypeOK
  <2>4. ConfigFits(u)'
    BY <1>1, <1>2, <1>4, <2>2 DEF ConfigFits, Later
  <2> QED
    BY <1>1, <1>4, <2>1, <2>3, <2>4, ConfigStep DEF ServedFor
<1>7. OwnerFits(u) /\ u.pc \notin Holding \cup {"create"}
  BY <1>2, <1>4 DEF OwnerFits, Holding
<1>8. /\ workspace' \in [Agents -> Desks \cup {Nobody}]
      /\ servers' \in [Servers -> Agents \cup {Nobody}]
      /\ bound' \in [Agents -> Desks \cup {Nobody}] /\ applied' \in Agents \cup {Nobody}
  BY <1>1, <1>5 DEF Gateway!TypeOK
<1>9. "config" \in muddled' \/ ConfigInv'
  BY <1>1, <1>6 DEF SetupInv
<1> QED
  BY <1>1, <1>2, <1>4, <1>7, <1>8, <1>9, SetupStep

LEMMA BindWritesKeeps ==
  ASSUME SetupInv, NEW t \in Turns, Gateway!BindWrites(t)
  PROVE  SetupInv'
<1>1. /\ Gateway!TypeOK /\ setup[t] \in Gateway!Turn /\ setup[t].pc = "bind"
      /\ setup[t].agent \in Agents /\ setup[t].desk \in Desks
      /\ UNCHANGED <<servers, bound, applied, paired, file, ids>>
  BY GatewayTyped, TurnsAct
     DEF SetupInv, OwnerFits, Gateway!BindWrites, Gateway!At, Gateway!caches, Gateway!device
<1>2. PICK s \in Gateway!Turn, a \in Agents, d \in Desks :
        s = setup[t] /\ a = s.agent /\ d = s.desk
  BY <1>1
<1>3. PICK u \in Gateway!Turn :
        /\ setup' = [setup EXCEPT ![t] = u]
        /\ u.agent = a /\ u.desk = d /\ u.stale = s.stale
        /\ \/ /\ u.pc = "cache" /\ workspace' = [workspace EXCEPT ![a] = d]
              /\ UNCHANGED <<muddled, hits>>
           \/ u.pc = "mcp" /\ u.failed /\ UNCHANGED <<workspace, muddled>> /\ Gateway!Fault
           \/ /\ u.pc = "mcp" /\ workspace' = [workspace EXCEPT ![a] = d]
              /\ muddled' = muddled \cup {"config"} /\ Gateway!Fault
  <2>1. CASE /\ workspace' = [workspace EXCEPT ![a] = d]
             /\ Gateway!Goes(t, "cache") /\ UNCHANGED <<muddled, hits>>
    <3>1. PICK u \in Gateway!Turn :
            /\ setup' = [setup EXCEPT ![t] = u] /\ u.pc = "cache"
            /\ u.agent = s.agent /\ u.desk = s.desk /\ u.stale = s.stale
      BY <1>1, <1>2, <2>1, TurnGoes, PcsAre, TurnsAct
    <3> QED
      BY <1>2, <2>1, <3>1
  <2>2. CASE /\ Gateway!Fault /\ Gateway!Fails(t, "mcp")
             /\ \/ UNCHANGED <<workspace, muddled>>
                \/ /\ workspace' = [workspace EXCEPT ![a] = d]
                   /\ muddled' = muddled \cup {"config"}
    <3>1. PICK u \in Gateway!Turn :
            /\ setup' = [setup EXCEPT ![t] = u] /\ u.pc = "mcp" /\ u.failed
            /\ u.agent = s.agent /\ u.desk = s.desk /\ u.stale = s.stale
      BY <1>1, <1>2, <2>2, TurnFails, PcsAre, TurnsAct
    <3> QED
      BY <1>2, <2>2, <3>1
  <2> QED
    BY <1>2, <2>1, <2>2 DEF Gateway!BindWrites
<1>4. workspace' \in [Agents -> Desks \cup {Nobody}]
  BY <1>1, <1>3 DEF Gateway!TypeOK
<1>5. "config" \in muddled' \/ ConfigInv'
  <2> SUFFICES ASSUME ConfigInv, "config" \notin muddled' PROVE ConfigInv'
    BY <1>3 DEF SetupInv
  <2>1. /\ \A r \in Turns : r # t => setup[r].pc = "idle"
        /\ \A b \in Agents : bound[b] \in {Nobody, workspace[b]}
        /\ applied = Nobody \/ ServedFor(applied)
    BY <1>1, Alone
  <2>2. \A b \in Agents : bound'[b] \in {Nobody, workspace'[b]} \/ (u.pc = "cache" /\ u.agent = b)
    BY <1>1, <1>3, <2>1 DEF Gateway!TypeOK
  <2>3. ConfigFits(u)'
    BY <1>1, <1>3 DEF ConfigFits, Rebound, Later, Pcs, Gateway!TypeOK
  <2> QED
    BY <1>1, <1>3, <2>1, <2>2, <2>3, ConfigStep DEF ServedFor
<1>6. OwnerFits(u) /\ u.pc \notin Holding \cup {"create"}
  BY <1>3 DEF OwnerFits, Holding
<1>7. /\ servers' \in [Servers -> Agents \cup {Nobody}]
      /\ bound' \in [Agents -> Desks \cup {Nobody}] /\ applied' \in Agents \cup {Nobody}
  BY <1>1 DEF Gateway!TypeOK
<1>8. muddled' \in {muddled, muddled \cup {"config"}} /\ (UNCHANGED hits \/ Gateway!Fault)
  BY <1>3
<1> QED
  BY <1>1, <1>2, <1>3, <1>4, <1>5, <1>6, <1>7, <1>8, SetupStep

LEMMA CacheKeeps ==
  ASSUME SetupInv, NEW t \in Turns, Gateway!Cache(t)
  PROVE  SetupInv'
<1>1. /\ Gateway!TypeOK /\ setup[t] \in Gateway!Turn /\ setup[t].pc = "cache"
      /\ setup[t].agent \in Agents /\ setup[t].desk \in Desks
      /\ UNCHANGED <<workspace, servers, applied, paired, file, ids, muddled, hits>>
  BY GatewayTyped, TurnsAct
     DEF SetupInv, OwnerFits, Gateway!Cache, Gateway!At, Gateway!config, Gateway!device
<1>2. PICK s \in Gateway!Turn, a \in Agents, d \in Desks :
        s = setup[t] /\ a = s.agent /\ d = s.desk
  BY <1>1
<1>3. Gateway!Goes(t, "mcp") /\ bound' = [bound EXCEPT ![a] = d]
  BY <1>2 DEF Gateway!Cache
<1>4. PICK u \in Gateway!Turn :
        /\ setup' = [setup EXCEPT ![t] = u] /\ u.pc = "mcp"
        /\ u.agent = s.agent /\ u.desk = s.desk /\ u.stale = s.stale
  BY <1>1, <1>2, <1>3, TurnGoes, PcsAre, TurnsAct
<1>5. ConfigInv => ConfigInv'
  <2> SUFFICES ASSUME ConfigInv PROVE ConfigInv'
    OBVIOUS
  <2>1. /\ \A r \in Turns : r # t => setup[r].pc = "idle"
        /\ \A b \in Agents : b # a => bound[b] \in {Nobody, workspace[b]}
        /\ applied = Nobody \/ ServedFor(applied)
        /\ ConfigFits(s)
    BY <1>1, <1>2, Alone
  <2>2. workspace[a] = d
    BY <1>1, <1>2, <2>1 DEF ConfigFits
  <2>3. \A b \in Agents : bound'[b] \in {Nobody, workspace'[b]}
    BY <1>1, <1>3, <2>1, <2>2 DEF Gateway!TypeOK
  <2>4. ConfigFits(u)'
    BY <1>1, <1>2, <1>4, <2>2 DEF ConfigFits, Later
  <2> QED
    BY <1>1, <1>4, <2>1, <2>3, <2>4, ConfigStep DEF ServedFor
<1>6. OwnerFits(u) /\ u.pc \notin Holding \cup {"create"}
  BY <1>2, <1>4 DEF OwnerFits, Holding
<1>7. /\ workspace' \in [Agents -> Desks \cup {Nobody}]
      /\ servers' \in [Servers -> Agents \cup {Nobody}]
      /\ bound' \in [Agents -> Desks \cup {Nobody}] /\ applied' \in Agents \cup {Nobody}
  BY <1>1, <1>3 DEF Gateway!TypeOK
<1>8. "config" \in muddled' \/ ConfigInv'
  BY <1>1, <1>5 DEF SetupInv
<1> QED
  BY <1>1, <1>2, <1>4, <1>6, <1>7, <1>8, SetupStep

LEMMA McpKeeps ==
  ASSUME SetupInv, NEW t \in Turns, Gateway!Mcp(t)
  PROVE  SetupInv'
<1>1. /\ Gateway!TypeOK /\ setup[t] \in Gateway!Turn /\ setup[t].pc = "mcp"
      /\ setup[t].agent \in Agents /\ setup[t].desk \in Desks
      /\ UNCHANGED <<workspace, servers, bound, applied, paired, file, ids, muddled, hits>>
  BY GatewayTyped, TurnsAct
     DEF SetupInv, OwnerFits, Gateway!Mcp, Gateway!At, Gateway!config, Gateway!caches, Gateway!device
<1>2. PICK s \in Gateway!Turn, a \in Agents, d \in Desks :
        s = setup[t] /\ a = s.agent /\ d = s.desk
  BY <1>1
<1>3. PICK u \in Gateway!Turn :
        /\ setup' = [setup EXCEPT ![t] = u]
        /\ u.agent = s.agent /\ u.desk = s.desk /\ u.stale = s.stale /\ u.failed = s.failed
        /\ \/ u.pc = "load" /\ applied = a
           \/ u.pc = "write" /\ \A n \in u.done : servers[n] = a
  <2>1. CASE applied = a /\ Gateway!Goes(t, "load")
    <3>1. PICK u \in Gateway!Turn :
            /\ setup' = [setup EXCEPT ![t] = u] /\ u.pc = "load"
            /\ u.agent = s.agent /\ u.desk = s.desk /\ u.stale = s.stale /\ u.failed = s.failed
      BY <1>1, <1>2, <2>1, TurnGoes, PcsAre, TurnsAct
    <3> QED
      BY <2>1, <3>1
  <2>2. CASE applied # a
    <3> DEFINE other == {n \in Servers : servers[n] # a}
    <3>1. setup' = [setup EXCEPT ![t].pc = "write", ![t].left = other, ![t].done = Servers \ other]
      BY <1>1, <1>2, <2>2 DEF Gateway!Mcp
    <3>2. PICK left \in SUBSET Servers, done \in SUBSET Servers : left = other /\ done = Servers \ other
      OBVIOUS
    <3>3. PICK u : u = [s EXCEPT !.pc = "write", !.left = left, !.done = done]
      OBVIOUS
    <3>4. /\ u \in Gateway!Turn /\ u.pc = "write" /\ u.done = done
          /\ u.agent = s.agent /\ u.desk = s.desk /\ u.stale = s.stale /\ u.failed = s.failed
      BY <3>3 DEF Gateway!Turn
    <3>5. setup' = [setup EXCEPT ![t] = u]
      BY <1>1, <1>2, <3>1, <3>2, <3>3 DEF Gateway!TypeOK
    <3> QED
      BY <2>2, <3>2, <3>4, <3>5
  <2> QED
    BY <1>2, <2>1, <2>2 DEF Gateway!Mcp
<1>4. ConfigInv => ConfigInv'
  <2> SUFFICES ASSUME ConfigInv PROVE ConfigInv'
    OBVIOUS
  <2>1. /\ \A r \in Turns : r # t => setup[r].pc = "idle"
        /\ \A b \in Agents : bound[b] \in {Nobody, workspace[b]}
        /\ applied = Nobody \/ ServedFor(applied)
        /\ ConfigFits(s)
    BY <1>1, <1>2, Alone
  <2>2. s.failed \/ workspace[a] = d
    BY <1>1, <1>2, <2>1 DEF ConfigFits, Rebound, Pcs
  <2>3. u.pc = "load" => ServedFor(a)
    BY <1>3, <2>1, TurnsAct
  <2>4. ConfigFits(u)'
    BY <1>1, <1>2, <1>3, <2>2, <2>3 DEF ConfigFits, ServedFor, Later
  <2> QED
    BY <1>1, <1>3, <2>1, <2>4, ConfigStep DEF ServedFor
<1>5. OwnerFits(u) /\ u.pc \notin Holding \cup {"create"}
  BY <1>2, <1>3 DEF OwnerFits, Holding
<1>6. /\ workspace' \in [Agents -> Desks \cup {Nobody}]
      /\ servers' \in [Servers -> Agents \cup {Nobody}]
      /\ bound' \in [Agents -> Desks \cup {Nobody}] /\ applied' \in Agents \cup {Nobody}
  BY <1>1 DEF Gateway!TypeOK
<1>7. "config" \in muddled' \/ ConfigInv'
  BY <1>1, <1>4 DEF SetupInv
<1> QED
  BY <1>1, <1>2, <1>3, <1>5, <1>6, <1>7, SetupStep

LEMMA WriteKeeps ==
  ASSUME SetupInv, NEW t \in Turns, NEW n \in Servers, Gateway!Write(t, n)
  PROVE  SetupInv'
<1>1. /\ Gateway!TypeOK /\ setup[t] \in Gateway!Turn /\ setup[t].pc = "write"
      /\ setup[t].agent \in Agents /\ setup[t].desk \in Desks
      /\ UNCHANGED <<workspace, bound, applied, paired, file, ids>>
  BY GatewayTyped, TurnsAct
     DEF SetupInv, OwnerFits, Gateway!Write, Gateway!At, Gateway!caches, Gateway!device
<1>2. PICK s \in Gateway!Turn, a \in Agents, d \in Desks :
        s = setup[t] /\ a = s.agent /\ d = s.desk
  BY <1>1
<1>3. ASSUME NEW more \in SUBSET {n},
             setup' = [setup EXCEPT ![t].left = @ \ {n}, ![t].done = @ \cup more]
      PROVE  \E u \in Gateway!Turn :
               /\ setup' = [setup EXCEPT ![t] = u] /\ u.pc = "write" /\ u.done = s.done \cup more
               /\ u.agent = s.agent /\ u.desk = s.desk /\ u.stale = s.stale /\ u.failed = s.failed
  <2>1. PICK left \in SUBSET Servers, done \in SUBSET Servers :
          left = s.left \ {n} /\ done = s.done \cup more
    BY DEF Gateway!Turn
  <2>2. PICK u : u = [s EXCEPT !.left = left, !.done = done]
    OBVIOUS
  <2>3. /\ u \in Gateway!Turn /\ u.pc = s.pc /\ u.done = done
        /\ u.agent = s.agent /\ u.desk = s.desk /\ u.stale = s.stale /\ u.failed = s.failed
    BY <2>2 DEF Gateway!Turn
  <2>4. setup' = [setup EXCEPT ![t] = u]
    BY <1>1, <1>2, <1>3, <2>1, <2>2 DEF Gateway!TypeOK
  <2> QED
    BY <1>1, <1>2, <2>1, <2>3, <2>4
<1>4. PICK u \in Gateway!Turn :
        /\ setup' = [setup EXCEPT ![t] = u] /\ u.pc = "write"
        /\ u.agent = s.agent /\ u.desk = s.desk /\ u.stale = s.stale /\ u.failed = s.failed
        /\ \/ /\ u.done = s.done \cup {n} /\ servers' = [servers EXCEPT ![n] = a]
              /\ UNCHANGED <<muddled, hits>>
           \/ u.done = s.done /\ UNCHANGED <<servers, muddled>> /\ Gateway!Fault
           \/ /\ u.done = s.done /\ servers' = [servers EXCEPT ![n] = a]
              /\ muddled' = muddled \cup {"config"} /\ Gateway!Fault
  <2>1. CASE /\ servers' = [servers EXCEPT ![n] = a]
             /\ setup' = [setup EXCEPT ![t].left = @ \ {n}, ![t].done = @ \cup {n}]
             /\ UNCHANGED <<muddled, hits>>
    BY <1>3, <2>1
  <2>2. CASE /\ setup' = [setup EXCEPT ![t].left = @ \ {n}, ![t].done = @ \cup {}]
             /\ Gateway!Fault
             /\ \/ UNCHANGED <<servers, muddled>>
                \/ /\ servers' = [servers EXCEPT ![n] = a]
                   /\ muddled' = muddled \cup {"config"}
    <3>1. \E u \in Gateway!Turn :
               /\ setup' = [setup EXCEPT ![t] = u] /\ u.pc = "write" /\ u.done = s.done
               /\ u.agent = s.agent /\ u.desk = s.desk /\ u.stale = s.stale /\ u.failed = s.failed
      <4>1. PICK more \in SUBSET {n} : more = {}
        OBVIOUS
      <4>2. setup' = [setup EXCEPT ![t].left = @ \ {n}, ![t].done = @ \cup more]
        BY <2>2, <4>1
      <4>3. s.done \cup more = s.done
        BY <4>1
      <4>4. PICK u \in Gateway!Turn :
              /\ setup' = [setup EXCEPT ![t] = u] /\ u.pc = "write" /\ u.done = s.done \cup more
              /\ u.agent = s.agent /\ u.desk = s.desk /\ u.stale = s.stale /\ u.failed = s.failed
        BY <1>3, <4>2
      <4> QED
        BY <4>3, <4>4
    <3> QED
      BY <2>2, <3>1
  <2> QED
    BY <1>2, <2>1, <2>2 DEF Gateway!Write
<1>5. servers' \in [Servers -> Agents \cup {Nobody}]
  BY <1>1, <1>4 DEF Gateway!TypeOK
<1>6. "config" \in muddled' \/ ConfigInv'
  <2> SUFFICES ASSUME ConfigInv, "config" \notin muddled' PROVE ConfigInv'
    BY <1>4 DEF SetupInv
  <2>1. /\ \A r \in Turns : r # t => setup[r].pc = "idle"
        /\ \A b \in Agents : bound[b] \in {Nobody, workspace[b]}
        /\ s.done = {} => applied = Nobody \/ ServedFor(applied)
        /\ ConfigFits(s)
    BY <1>1, <1>2, Alone
  <2>2. /\ s.failed \/ workspace[a] = d
        /\ \A m \in s.done : servers[m] = a
    BY <1>1, <1>2, <2>1 DEF ConfigFits, Rebound, Pcs
  <2>3. \A m \in u.done : servers'[m] = a
    <3>1. s.done \subseteq Servers
      BY DEF Gateway!Turn
    <3> QED
      BY <1>1, <1>4, <2>2, <3>1 DEF Gateway!TypeOK
  <2>4. ConfigFits(u)'
    BY <1>1, <1>2, <1>4, <2>2, <2>3 DEF ConfigFits, Later
  <2>5. u.done = {} => applied = Nobody \/ (\A m \in Servers : servers'[m] = applied)
    BY <1>4, <2>1 DEF ServedFor
  <2> QED
    BY <1>1, <1>4, <2>1, <2>4, <2>5, ConfigStep
<1>7. OwnerFits(u) /\ u.pc \notin Holding \cup {"create"}
  BY <1>2, <1>4 DEF OwnerFits, Holding
<1>8. /\ workspace' \in [Agents -> Desks \cup {Nobody}]
      /\ bound' \in [Agents -> Desks \cup {Nobody}] /\ applied' \in Agents \cup {Nobody}
  BY <1>1 DEF Gateway!TypeOK
<1>9. muddled' \in {muddled, muddled \cup {"config"}} /\ (UNCHANGED hits \/ Gateway!Fault)
  BY <1>4
<1> QED
  BY <1>1, <1>2, <1>4, <1>5, <1>6, <1>7, <1>8, <1>9, SetupStep

LEMMA StampKeeps ==
  ASSUME SetupInv, NEW t \in Turns, Gateway!Stamp(t)
  PROVE  SetupInv'
<1>1. /\ Gateway!TypeOK /\ setup[t] \in Gateway!Turn /\ setup[t].pc = "write"
      /\ setup[t].agent \in Agents /\ setup[t].desk \in Desks
      /\ UNCHANGED <<workspace, servers, bound, paired, file, ids, muddled, hits>>
  BY GatewayTyped, TurnsAct
     DEF SetupInv, OwnerFits, Gateway!Stamp, Gateway!At, Gateway!config, Gateway!device
<1>2. PICK s \in Gateway!Turn, a \in Agents, d \in Desks :
        s = setup[t] /\ a = s.agent /\ d = s.desk
  BY <1>1
<1>3. \/ s.done = Servers /\ applied' = a
      \/ s.done # Servers /\ s.done # {} /\ applied' = Nobody
      \/ s.done # Servers /\ s.done = {} /\ applied' = applied
  BY <1>2 DEF Gateway!Stamp, Gateway!Stamped
<1>4. PICK u \in Gateway!Turn :
        /\ setup' = [setup EXCEPT ![t] = u] /\ u.pc = "load"
        /\ u.agent = s.agent /\ u.desk = s.desk /\ u.stale = s.stale
        /\ u.failed <=> (s.failed \/ s.done # Servers)
  <2>1. PICK failed \in BOOLEAN :
          /\ failed = (s.failed \/ s.done # Servers) /\ (failed <=> (s.failed \/ s.done # Servers))
    BY DEF Gateway!Turn
  <2>2. PICK u : u = [s EXCEPT !.pc = "load", !.done = {}, !.failed = failed]
    OBVIOUS
  <2>3. /\ u \in Gateway!Turn /\ u.pc = "load" /\ u.failed = failed
        /\ u.agent = s.agent /\ u.desk = s.desk /\ u.stale = s.stale
    BY <2>2 DEF Gateway!Turn
  <2>4. setup' = [setup EXCEPT ![t] = u]
    <3>1. setup' = [setup EXCEPT ![t].pc = "load", ![t].done = {},
                                 ![t].failed = s.failed \/ s.done # Servers]
      BY <1>1, <1>2 DEF Gateway!Stamp, Gateway!TypeOK
    <3> QED
      BY <1>1, <1>2, <2>1, <2>2, <3>1 DEF Gateway!TypeOK
  <2> QED
    BY <2>1, <2>3, <2>4
<1>5. ConfigInv => ConfigInv'
  <2> SUFFICES ASSUME ConfigInv PROVE ConfigInv'
    OBVIOUS
  <2>1. /\ \A r \in Turns : r # t => setup[r].pc = "idle"
        /\ \A b \in Agents : bound[b] \in {Nobody, workspace[b]}
        /\ s.done = {} => applied = Nobody \/ ServedFor(applied)
        /\ ConfigFits(s)
    BY <1>1, <1>2, Alone
  <2>2. /\ s.failed \/ workspace[a] = d
        /\ \A m \in s.done : servers[m] = a
    BY <1>1, <1>2, <2>1 DEF ConfigFits, Rebound, Pcs
  <2>3. u.failed \/ ServedFor(a)
    BY <1>4, <2>2 DEF ServedFor
  <2>4. ConfigFits(u)'
    BY <1>1, <1>2, <1>4, <2>2, <2>3 DEF ConfigFits, ServedFor, Later
  <2>5. applied' = Nobody \/ \A m \in Servers : servers'[m] = applied'
    BY <1>1, <1>3, <2>1, <2>2 DEF ServedFor
  <2> QED
    BY <1>1, <1>4, <2>1, <2>4, <2>5, ConfigStep
<1>6. OwnerFits(u) /\ u.pc \notin Holding \cup {"create"}
  BY <1>2, <1>4 DEF OwnerFits, Holding
<1>7. /\ workspace' \in [Agents -> Desks \cup {Nobody}]
      /\ servers' \in [Servers -> Agents \cup {Nobody}]
      /\ bound' \in [Agents -> Desks \cup {Nobody}] /\ applied' \in Agents \cup {Nobody}
  BY <1>1, <1>3 DEF Gateway!TypeOK
<1>8. "config" \in muddled' \/ ConfigInv'
  BY <1>1, <1>5 DEF SetupInv
<1> QED
  BY <1>1, <1>2, <1>4, <1>6, <1>7, <1>8, SetupStep

-----------------------------------------------------------------------------
(* The device.                                                             *)
LEMMA DeviceMoves ==
  ASSUME Gateway!TypeOK, DeviceInv, NEW t \in Actors, NEW u \in Gateway!Turn,
         setup' = [setup EXCEPT ![t] = u],
         u.pc = "create" => \A s \in Actors : setup[s].pc # "create",
         file'.id = 0 => paired' = {}, paired' \subseteq {file'.id}, file'.token => file'.id \in paired',
         DeviceFits(u, file', paired'),
         \A s \in Actors : s # t => DeviceFits(setup[s], file', paired')
  PROVE  DeviceInv'
<1>1. /\ setup'[t] = u
      /\ \A s \in Actors : s # t => setup'[s] = setup[s]
  BY SetupBecomes DEF Actors
<1>2. ASSUME NEW s \in Actors PROVE DeviceFits(setup'[s], file', paired')
  BY <1>1
<1>3. \A r, s \in Actors : setup'[r].pc = "create" /\ setup'[s].pc = "create" => r = s
  BY <1>1 DEF DeviceInv
<1> QED
  BY <1>2, <1>3 DEF DeviceInv

LEMMA DeviceStep ==
  ASSUME SetupInv, NEW t \in Actors, NEW u \in Gateway!Turn, setup' = [setup EXCEPT ![t] = u],
         UNCHANGED <<workspace, servers, bound, applied>>,
         paired' \subseteq Gateway!Ids, file' \in [id : {0} \cup Gateway!Ids, token : BOOLEAN],
         ids' \in 0..MaxIds, UNCHANGED hits \/ Gateway!Fault,
         muddled' \in {muddled, muddled \cup {"device"}},
         t \in Turns => /\ setup[t].pc \in Later /\ u.pc \in Later \cup {"idle"}
                        /\ \/ u.pc = "idle"
                           \/ /\ u.agent = setup[t].agent /\ u.desk = setup[t].desk
                              /\ u.failed = setup[t].failed,
         NamesDevice(u), file'.id = 0 => file' = Gateway!NoFile,
         DeviceInv => "device" \in muddled' \/ DeviceInv'
  PROVE  SetupInv'
<1>1. Gateway!TypeOK
  BY DEF SetupInv
<1>2. /\ setup' \in [Actors -> Gateway!Turn]
      /\ \A s \in Actors : setup'[s] = IF s = t THEN u ELSE setup[s]
  BY <1>1, SetupBecomes DEF Actors
<1>3. Gateway!TypeOK'
  BY <1>1, <1>2, HitsType DEF Gateway!TypeOK, Actors
<1>4. ASSUME NEW s \in Turns PROVE OwnerFits(setup[s])'
  <2>1. OwnerFits(setup[s]) /\ s \in Actors
    BY TurnsAct DEF SetupInv, Actors
  <2>2. CASE s = t
    BY <1>2, <2>1, <2>2 DEF OwnerFits, Later, Rebound
  <2>3. CASE s # t
    BY <1>2, <2>1, <2>3 DEF OwnerFits
  <2> QED
    BY <2>2, <2>3
<1>5. ("config" \in muddled \/ ConfigInv)'
  BY <1>1, ConfigStays DEF SetupInv
<1>6. ("device" \in muddled \/ DeviceInv)'
  BY DEF SetupInv
<1>7. \A s \in Actors : NamesDevice(setup[s])'
  BY <1>2 DEF SetupInv, NamesDevice
<1> QED
  BY <1>3, <1>4, <1>5, <1>6, <1>7 DEF SetupInv

(* Of what the device steps of an actor start from.                        *)
LEMMA AtDevice ==
  ASSUME SetupInv, NEW t \in Actors,
         setup[t].pc \in {"load", "create", "register", "save", "list", "remove", "connect"}
  PROVE  /\ Gateway!TypeOK /\ setup[t] \in Gateway!Turn /\ setup[t].pc \in Later
         /\ setup[t].id \in {0} \cup Gateway!Ids /\ setup[t].stale \in SUBSET Gateway!Ids
         /\ DeviceInv => DeviceFits(setup[t], file, paired)
         /\ file.id = 0 => file = Gateway!NoFile
         /\ setup[t].pc # "load" => setup[t].id # 0
<1>1. Gateway!TypeOK /\ setup[t] \in Gateway!Turn
  BY GatewayTyped DEF SetupInv, Actors
<1> QED
  BY <1>1 DEF SetupInv, NamesDevice, Holding, DeviceInv, Later, Rebound, Pcs, Gateway!Turn

LEMMA LoadKeeps ==
  ASSUME SetupInv, NEW t \in Actors, Gateway!Load(t)
  PROVE  SetupInv'
<1>1. /\ setup[t].pc = "load"
      /\ UNCHANGED <<workspace, servers, bound, applied, paired, file, hits>>
  BY DEF Gateway!Load, Gateway!At, Gateway!config, Gateway!caches
<1>2. PICK s \in Gateway!Turn : s = setup[t]
  BY <1>1, AtDevice
<1>3. Gateway!TypeOK /\ s.pc \in Later /\ s.stale \in SUBSET Gateway!Ids
      /\ (DeviceInv => DeviceFits(s, file, paired))
  BY <1>1, <1>2, AtDevice
<1>4. file \in [id : {0} \cup Gateway!Ids, token : BOOLEAN]
  BY <1>3 DEF Gateway!TypeOK
<1>5. CASE /\ file = Gateway!NoFile /\ ids < MaxIds /\ ids' = ids + 1
           /\ setup' = [setup EXCEPT ![t].pc = "create", ![t].id = ids + 1]
           /\ muddled' = IF \E r \in Actors : setup[r].pc = "create"
                         THEN muddled \cup {"device"} ELSE muddled
  <2>1. PICK i \in Gateway!Ids : i = ids + 1
    BY <1>3, <1>5, HostAssumption DEF Gateway!TypeOK, Gateway!Ids, Gateway!GatewayAssumption
  <2>2. i # 0 /\ ids' \in 0..MaxIds
    BY <1>3, <1>5, <2>1, HostAssumption DEF Gateway!TypeOK, Gateway!Ids, Gateway!GatewayAssumption
  <2>3. PICK u : u = [s EXCEPT !.pc = "create", !.id = i]
    OBVIOUS
  <2>4. /\ u \in Gateway!Turn /\ u.pc = "create" /\ u.id = i /\ u.stale = s.stale
        /\ u.agent = s.agent /\ u.desk = s.desk /\ u.failed = s.failed
    BY <2>3 DEF Gateway!Turn
  <2>5. setup' = [setup EXCEPT ![t] = u]
    BY <1>2, <1>3, <1>5, <2>1, <2>3 DEF Gateway!TypeOK, Actors
  <2>6. ASSUME DeviceInv, "device" \notin muddled' PROVE DeviceInv'
    <3>1. \A r \in Actors : setup[r].pc # "create"
      BY <1>5, <2>6
    <3>2. DeviceFits(u, file', paired')
      BY <1>1, <1>3, <1>5, <2>2, <2>4, <2>6 DEF DeviceFits, Holding, Gateway!NoFile
    <3> QED
      BY <1>1, <1>3, <2>4, <2>5, <2>6, <3>1, <3>2, DeviceMoves DEF DeviceInv
  <2>7. u.pc \in Later
    BY <2>4 DEF Later, Rebound, Pcs
  <2>8. muddled' \in {muddled, muddled \cup {"device"}}
    BY <1>5
  <2>9. paired' \subseteq Gateway!Ids
    BY <1>1, <1>3 DEF Gateway!TypeOK
  <2>10. NamesDevice(u) /\ (file'.id = 0 => file' = Gateway!NoFile)
    BY <1>1, <2>2, <2>4, AtDevice DEF NamesDevice
  <2> QED
    BY <1>1, <1>2, <1>3, <1>4, <2>2, <2>4, <2>5, <2>6, <2>7, <2>8, <2>9, <2>10, DeviceStep
<1>6. CASE /\ file # Gateway!NoFile /\ UNCHANGED <<ids, muddled>>
           /\ setup' = [setup EXCEPT ![t].id = file.id,
                          ![t].pc = IF file.token /\ t # Cli THEN "connect" ELSE "register"]
  <2>1. PICK pc \in {"connect", "register"} : pc = IF file.token /\ t # Cli THEN "connect" ELSE "register"
    OBVIOUS
  <2>2. PICK i \in {0} \cup Gateway!Ids : i = file.id
    BY <1>4
  <2>3. PICK u : u = [s EXCEPT !.pc = pc, !.id = i]
    OBVIOUS
  <2>4. /\ u \in Gateway!Turn /\ u.pc = pc /\ u.id = i /\ u.stale = s.stale
        /\ u.agent = s.agent /\ u.desk = s.desk /\ u.failed = s.failed
    BY <2>3 DEF Gateway!Turn
  <2>5. setup' = [setup EXCEPT ![t] = u]
    BY <1>2, <1>3, <1>6, <2>1, <2>2, <2>3 DEF Gateway!TypeOK, Actors
  <2>9. i # 0
    BY <1>1, <1>6, <2>2, AtDevice
  <2>6. DeviceInv => DeviceInv'
    <3> SUFFICES ASSUME DeviceInv PROVE DeviceInv'
      OBVIOUS
    <3>2. pc = "connect" => file.id \in paired
      BY <2>1 DEF DeviceInv
    <3>3. DeviceFits(u, file', paired')
      BY <1>1, <1>3, <2>2, <2>4, <3>2, <2>9 DEF DeviceFits, Holding
    <3> QED
      BY <1>1, <1>3, <2>4, <2>5, <3>3, DeviceMoves DEF DeviceInv
  <2>7. u.pc \in Later
    BY <2>4 DEF Later, Rebound, Pcs
  <2>8. paired' \subseteq Gateway!Ids /\ ids' \in 0..MaxIds
    BY <1>1, <1>3, <1>6 DEF Gateway!TypeOK
  <2>10. NamesDevice(u) /\ (file'.id = 0 => file' = Gateway!NoFile)
    BY <1>1, <2>4, <2>9, AtDevice DEF NamesDevice
  <2> QED
    BY <1>1, <1>2, <1>3, <1>4, <1>6, <2>4, <2>5, <2>6, <2>7, <2>8, <2>10, DeviceStep
<1> QED
  BY <1>5, <1>6 DEF Gateway!Load, Gateway!At, Actors

LEMMA CreateKeeps ==
  ASSUME SetupInv, NEW t \in Actors, Gateway!Create(t)
  PROVE  SetupInv'
<1>1. /\ setup[t].pc = "create" /\ Gateway!Goes(t, "register")
      /\ file' = [id |-> setup[t].id, token |-> FALSE]
      /\ UNCHANGED <<workspace, servers, bound, applied, paired, ids, muddled, hits>>
  BY DEF Gateway!Create, Gateway!Saved, Gateway!At, Gateway!config, Gateway!caches
<1>2. PICK s \in Gateway!Turn : s = setup[t]
  BY <1>1, AtDevice
<1>3. Gateway!TypeOK /\ s.pc \in Later /\ s.id \in {0} \cup Gateway!Ids
      /\ (DeviceInv => DeviceFits(s, file, paired))
  BY <1>1, <1>2, AtDevice
<1>4. PICK u \in Gateway!Turn :
        /\ setup' = [setup EXCEPT ![t] = u] /\ u.pc = "register" /\ u.failed = s.failed
        /\ u.agent = s.agent /\ u.desk = s.desk /\ u.id = s.id /\ u.stale = s.stale
  BY <1>1, <1>2, <1>3, TurnGoes, PcsAre DEF Actors
<1>5. file' \in [id : {0} \cup Gateway!Ids, token : BOOLEAN] /\ file'.id = s.id /\ ~file'.token
  BY <1>1, <1>2, <1>3
<1>6. ASSUME DeviceInv PROVE DeviceInv'
  <2>1. s.id # 0 /\ file.id = 0 /\ s.stale = {} /\ paired = {}
    BY <1>1, <1>2, <1>3, <1>6 DEF DeviceFits, DeviceInv
  <2>2. DeviceFits(u, file', paired')
    BY <1>4, <1>5, <2>1 DEF DeviceFits, Holding
  <2>3. ASSUME NEW r \in Actors, r # t PROVE DeviceFits(setup[r], file', paired')
    <3>1. setup[r].pc # "create" /\ DeviceFits(setup[r], file, paired)
      BY <1>1, <1>6, <2>3 DEF DeviceInv
    <3> QED
      BY <2>1, <3>1 DEF DeviceFits, Holding
  <2> QED
    BY <1>1, <1>3, <1>4, <1>5, <1>6, <2>1, <2>2, <2>3, DeviceMoves
<1>7. u.pc \in Later
  BY <1>4 DEF Later, Rebound, Pcs
<1>8. paired' \subseteq Gateway!Ids /\ ids' \in 0..MaxIds
  BY <1>1, <1>3 DEF Gateway!TypeOK
<1>9. NamesDevice(u) /\ (file'.id = 0 => file' = Gateway!NoFile)
  BY <1>1, <1>2, <1>4, <1>5, AtDevice DEF NamesDevice
<1> QED
  BY <1>1, <1>2, <1>3, <1>4, <1>5, <1>6, <1>7, <1>8, <1>9, DeviceStep

LEMMA RegisterKeeps ==
  ASSUME SetupInv, NEW t \in Actors, Gateway!Register(t)
  PROVE  SetupInv'
<1>1. /\ setup[t].pc = "register"
      /\ UNCHANGED <<workspace, servers, bound, applied, file, ids, muddled>>
  BY DEF Gateway!Register, Gateway!At, Gateway!config, Gateway!caches
<1>2. PICK s \in Gateway!Turn : s = setup[t]
  BY <1>1, AtDevice
<1>3. Gateway!TypeOK /\ s.pc \in Later /\ s.id \in {0} \cup Gateway!Ids
      /\ (DeviceInv => DeviceFits(s, file, paired))
  BY <1>1, <1>2, AtDevice
<1>4. PICK u \in Gateway!Turn :
        /\ setup' = [setup EXCEPT ![t] = u] /\ paired' \in {paired, paired \cup {s.id}}
        /\ UNCHANGED hits \/ Gateway!Fault
        /\ \/ u = Gateway!Idle
           \/ /\ u.pc = "save" /\ u.failed = s.failed /\ u.agent = s.agent /\ u.desk = s.desk
              /\ u.id = s.id /\ u.stale = s.stale /\ paired' = paired \cup {s.id}
  <2>1. CASE paired' = paired \cup {s.id} /\ Gateway!Goes(t, "save") /\ UNCHANGED hits
    <3>1. PICK u \in Gateway!Turn :
            /\ setup' = [setup EXCEPT ![t] = u] /\ u.pc = "save" /\ u.failed = s.failed
            /\ u.agent = s.agent /\ u.desk = s.desk /\ u.id = s.id /\ u.stale = s.stale
      BY <1>2, <1>3, <2>1, TurnGoes, PcsAre DEF Actors
    <3> QED
      BY <2>1, <3>1
  <2>2. CASE /\ Gateway!Fault /\ setup' = [setup EXCEPT ![t] = Gateway!Idle]
             /\ paired' \in {paired, paired \cup {s.id}}
    BY <2>2, IdleType
  <2> QED
    BY <1>2, <2>1, <2>2 DEF Gateway!Register
<1>5. ASSUME DeviceInv PROVE DeviceInv'
  <2>1. s.id = file.id /\ file.id # 0 /\ s.stale = {}
    BY <1>1, <1>2, <1>3, <1>5 DEF DeviceFits, Holding
  <2>2. DeviceFits(u, file', paired')
    BY <1>1, <1>4, <2>1, IdleType DEF DeviceFits, Holding
  <2>3. ASSUME NEW r \in Actors, r # t PROVE DeviceFits(setup[r], file', paired')
    BY <1>1, <1>4, <1>5 DEF DeviceInv, DeviceFits
  <2>4. paired' \subseteq {file'.id} /\ (file'.token => file'.id \in paired')
    BY <1>1, <1>4, <1>5, <2>1 DEF DeviceInv
  <2>5. u.pc # "create"
    BY <1>4, IdleType
  <2> QED
    BY <1>1, <1>3, <1>4, <1>5, <2>1, <2>2, <2>3, <2>4, <2>5, DeviceMoves
<1>6. u.pc \in Later \cup {"idle"} /\ (u.pc = "idle" \/ u.pc = "save")
  BY <1>4, IdleType DEF Later, Rebound, Pcs
<1>7. paired' \subseteq Gateway!Ids /\ ids' \in 0..MaxIds
      /\ file' \in [id : {0} \cup Gateway!Ids, token : BOOLEAN]
  <2>1. s.id \in Gateway!Ids
    BY <1>1, <1>2, <1>3, AtDevice
  <2> QED
    BY <1>1, <1>3, <1>4, <2>1 DEF Gateway!TypeOK
<1>8. NamesDevice(u) /\ (file'.id = 0 => file' = Gateway!NoFile)
  BY <1>1, <1>2, <1>4, AtDevice, IdleType DEF NamesDevice, Holding
<1> QED
  BY <1>1, <1>2, <1>3, <1>4, <1>5, <1>6, <1>7, <1>8, IdleType, DeviceStep

LEMMA SaveKeeps ==
  ASSUME SetupInv, NEW t \in Actors, Gateway!Save(t)
  PROVE  SetupInv'
<1>1. /\ setup[t].pc = "save" /\ Gateway!Goes(t, "list")
      /\ file' = [id |-> setup[t].id, token |-> TRUE]
      /\ UNCHANGED <<workspace, servers, bound, applied, paired, ids, muddled, hits>>
  BY DEF Gateway!Save, Gateway!Saved, Gateway!At, Gateway!config, Gateway!caches
<1>2. PICK s \in Gateway!Turn : s = setup[t]
  BY <1>1, AtDevice
<1>3. Gateway!TypeOK /\ s.pc \in Later /\ s.id \in {0} \cup Gateway!Ids
      /\ (DeviceInv => DeviceFits(s, file, paired))
  BY <1>1, <1>2, AtDevice
<1>4. PICK u \in Gateway!Turn :
        /\ setup' = [setup EXCEPT ![t] = u] /\ u.pc = "list" /\ u.failed = s.failed
        /\ u.agent = s.agent /\ u.desk = s.desk /\ u.id = s.id /\ u.stale = s.stale
  BY <1>1, <1>2, <1>3, TurnGoes, PcsAre DEF Actors
<1>5. file' \in [id : {0} \cup Gateway!Ids, token : BOOLEAN] /\ file'.id = s.id
  BY <1>1, <1>2, <1>3
<1>6. ASSUME DeviceInv PROVE DeviceInv'
  <2>1. s.id = file.id /\ file.id # 0 /\ s.id \in paired /\ s.stale = {}
    BY <1>1, <1>2, <1>3, <1>6 DEF DeviceFits, Holding
  <2>2. DeviceFits(u, file', paired')
    BY <1>1, <1>4, <1>5, <2>1 DEF DeviceFits, Holding
  <2>3. ASSUME NEW r \in Actors, r # t PROVE DeviceFits(setup[r], file', paired')
    <3>1. DeviceFits(setup[r], file, paired)
      BY <1>6 DEF DeviceInv
    <3> QED
      BY <1>1, <1>5, <2>1, <3>1 DEF DeviceFits, Holding
  <2>4. paired' \subseteq {file'.id} /\ file'.id \in paired' /\ file'.id # 0
    BY <1>1, <1>5, <1>6, <2>1 DEF DeviceInv
  <2> QED
    BY <1>3, <1>4, <1>6, <2>2, <2>3, <2>4, DeviceMoves
<1>7. u.pc \in Later
  BY <1>4 DEF Later, Rebound, Pcs
<1>8. paired' \subseteq Gateway!Ids /\ ids' \in 0..MaxIds
  BY <1>1, <1>3 DEF Gateway!TypeOK
<1>9. NamesDevice(u) /\ (file'.id = 0 => file' = Gateway!NoFile)
  BY <1>1, <1>2, <1>4, <1>5, AtDevice DEF NamesDevice
<1> QED
  BY <1>1, <1>2, <1>3, <1>4, <1>5, <1>6, <1>7, <1>8, <1>9, DeviceStep

LEMMA ListKeeps ==
  ASSUME SetupInv, NEW t \in Actors, Gateway!List(t)
  PROVE  SetupInv'
<1>1. /\ setup[t].pc = "list" /\ (UNCHANGED hits \/ Gateway!Fault)
      /\ UNCHANGED <<workspace, servers, bound, applied, paired, file, ids, muddled>>
  BY DEF Gateway!List, Gateway!At, Gateway!config, Gateway!caches, Gateway!device
<1>2. PICK s \in Gateway!Turn : s = setup[t]
  BY <1>1, AtDevice
<1>3. Gateway!TypeOK /\ s.pc \in Later /\ s.id \in {0} \cup Gateway!Ids
      /\ (DeviceInv => DeviceFits(s, file, paired))
  BY <1>1, <1>2, AtDevice
<1>4. PICK stale \in SUBSET Gateway!Ids :
        /\ stale \in {{}, paired \ {s.id}}
        /\ setup' = [setup EXCEPT ![t].pc = "remove", ![t].stale = stale]
  <2>1. paired \ {s.id} \in SUBSET Gateway!Ids
    BY <1>3 DEF Gateway!TypeOK
  <2> QED
    BY <1>2, <2>1 DEF Gateway!List, Gateway!Stale
<1>5. PICK u : u = [s EXCEPT !.pc = "remove", !.stale = stale]
  OBVIOUS
<1>6. /\ u \in Gateway!Turn /\ u.pc = "remove" /\ u.failed = s.failed
      /\ u.agent = s.agent /\ u.desk = s.desk /\ u.id = s.id /\ u.stale = stale
  BY <1>5 DEF Gateway!Turn
<1>7. setup' = [setup EXCEPT ![t] = u]
  BY <1>2, <1>3, <1>4, <1>5 DEF Gateway!TypeOK, Actors
<1>8. ASSUME DeviceInv PROVE DeviceInv'
  <2>1. s.id = file.id /\ file.id # 0 /\ s.id \in paired
    BY <1>1, <1>2, <1>3, <1>8 DEF DeviceFits, Holding
  <2>2. stale = {}
    BY <1>4, <1>8, <2>1 DEF DeviceInv
  <2>3. DeviceFits(u, file', paired')
    BY <1>1, <1>6, <2>1, <2>2 DEF DeviceFits, Holding
  <2> QED
    BY <1>1, <1>3, <1>6, <1>7, <1>8, <2>3, DeviceMoves DEF DeviceInv
<1>9. u.pc \in Later
  BY <1>6 DEF Later, Rebound, Pcs
<1>10. /\ paired' \subseteq Gateway!Ids /\ ids' \in 0..MaxIds
       /\ file' \in [id : {0} \cup Gateway!Ids, token : BOOLEAN]
  BY <1>1, <1>3 DEF Gateway!TypeOK
<1>11. NamesDevice(u) /\ (file'.id = 0 => file' = Gateway!NoFile)
  BY <1>1, <1>2, <1>6, AtDevice DEF NamesDevice
<1> QED
  BY <1>1, <1>2, <1>3, <1>6, <1>7, <1>8, <1>9, <1>10, <1>11, DeviceStep

LEMMA RemoveKeeps ==
  ASSUME SetupInv, NEW t \in Actors, Gateway!Remove(t)
  PROVE  SetupInv'
<1>1. /\ setup[t].pc = "remove" /\ paired' = paired \ setup[t].stale
      /\ UNCHANGED <<workspace, servers, bound, applied, file, ids, muddled, hits>>
  BY DEF Gateway!Remove, Gateway!At, Gateway!config, Gateway!caches
<1>2. PICK s \in Gateway!Turn : s = setup[t]
  BY <1>1, AtDevice
<1>3. Gateway!TypeOK /\ s.pc \in Later /\ (DeviceInv => DeviceFits(s, file, paired))
  BY <1>1, <1>2, AtDevice
<1>4. PICK u \in Gateway!Turn :
        /\ setup' = [setup EXCEPT ![t] = u]
        /\ \/ u = Gateway!Idle
           \/ /\ u.pc = "connect" /\ u.failed = s.failed /\ u.agent = s.agent /\ u.desk = s.desk
              /\ u.id = s.id /\ u.stale = {}
  <2>1. CASE setup' = [setup EXCEPT ![t] = Gateway!Idle]
    BY <2>1, IdleType
  <2>2. CASE setup' = [setup EXCEPT ![t].pc = "connect", ![t].stale = {}]
    <3>1. PICK u : u = [s EXCEPT !.pc = "connect", !.stale = {}]
      OBVIOUS
    <3>2. /\ u \in Gateway!Turn /\ u.pc = "connect" /\ u.failed = s.failed
          /\ u.agent = s.agent /\ u.desk = s.desk /\ u.id = s.id /\ u.stale = {}
      BY <3>1 DEF Gateway!Turn
    <3>3. setup' = [setup EXCEPT ![t] = u]
      BY <1>2, <1>3, <2>2, <3>1 DEF Gateway!TypeOK, Actors
    <3> QED
      BY <3>2, <3>3
  <2> QED
    BY <2>1, <2>2 DEF Gateway!Remove
<1>5. ASSUME DeviceInv PROVE DeviceInv'
  <2>1. s.id = file.id /\ file.id # 0 /\ s.id \in paired /\ s.stale = {}
    BY <1>1, <1>2, <1>3, <1>5 DEF DeviceFits, Holding
  <2>2. paired' = paired
    BY <1>1, <1>2, <2>1
  <2>3. DeviceFits(u, file', paired')
    BY <1>1, <1>4, <2>1, <2>2, IdleType DEF DeviceFits, Holding
  <2>4. u.pc # "create"
    BY <1>4, IdleType
  <2> QED
    BY <1>1, <1>3, <1>4, <1>5, <2>2, <2>3, <2>4, DeviceMoves DEF DeviceInv
<1>6. u.pc \in Later \cup {"idle"} /\ (u.pc = "idle" \/ u.pc = "connect")
  BY <1>4, IdleType DEF Later, Rebound, Pcs
<1>7. /\ paired' \subseteq Gateway!Ids /\ ids' \in 0..MaxIds
      /\ file' \in [id : {0} \cup Gateway!Ids, token : BOOLEAN]
  BY <1>1, <1>3 DEF Gateway!TypeOK
<1>8. NamesDevice(u) /\ (file'.id = 0 => file' = Gateway!NoFile)
  BY <1>1, <1>2, <1>4, AtDevice, IdleType DEF NamesDevice, Holding
<1> QED
  BY <1>1, <1>2, <1>3, <1>4, <1>5, <1>6, <1>7, <1>8, IdleType, DeviceStep

LEMMA ConnectKeeps ==
  ASSUME SetupInv, NEW t \in Turns, Gateway!Connect(t)
  PROVE  SetupInv'
<1>1. /\ setup[t].pc = "connect" /\ setup' = [setup EXCEPT ![t] = Gateway!Idle] /\ t \in Actors
      /\ UNCHANGED <<workspace, servers, bound, applied, paired, file, ids, muddled, hits>>
  BY TurnsAct
     DEF Gateway!Connect, Gateway!At, Gateway!config, Gateway!caches, Gateway!device, Actors
<1>2. PICK u \in Gateway!Turn : u = Gateway!Idle /\ u.pc = "idle" /\ u.stale = {}
  BY IdleType
<1>3. Gateway!TypeOK /\ setup[t].pc \in Later
  BY <1>1, AtDevice
<1>4. DeviceInv => DeviceInv'
  BY <1>1, <1>2, <1>3, DeviceStays DEF Holding
<1>5. /\ paired' \subseteq Gateway!Ids /\ ids' \in 0..MaxIds
      /\ file' \in [id : {0} \cup Gateway!Ids, token : BOOLEAN]
  BY <1>1, <1>3 DEF Gateway!TypeOK
<1>6. NamesDevice(u) /\ (file'.id = 0 => file' = Gateway!NoFile)
  BY <1>1, <1>2, AtDevice DEF NamesDevice, Holding
<1> QED
  BY <1>1, <1>2, <1>3, <1>4, <1>5, <1>6, DeviceStep

LEMMA PairKeeps ==
  ASSUME SetupInv, Gateway!Pair
  PROVE  SetupInv'
<1>1. /\ setup[Cli].pc = "idle" /\ Gateway!Fault /\ Gateway!Goes(Cli, "load")
      /\ Cli \in Actors /\ Cli \notin Turns
      /\ UNCHANGED <<workspace, servers, bound, applied, paired, file, ids, muddled>>
  BY TurnsAct
     DEF Gateway!Pair, Gateway!At, Gateway!config, Gateway!caches, Gateway!device, Actors
<1>2. Gateway!TypeOK /\ setup[Cli] \in Gateway!Turn
  BY <1>1, GatewayTyped DEF SetupInv, Actors
<1>3. PICK s \in Gateway!Turn : s = setup[Cli]
  BY <1>2
<1>4. PICK u \in Gateway!Turn :
        setup' = [setup EXCEPT ![Cli] = u] /\ u.pc = "load" /\ u.stale = s.stale
  BY <1>1, <1>2, <1>3, TurnGoes, PcsAre DEF Actors
<1>5. ASSUME DeviceInv PROVE DeviceInv'
  <2>1. u.stale = {}
    BY <1>1, <1>3, <1>4, <1>5 DEF DeviceInv, DeviceFits
  <2> QED
    BY <1>1, <1>2, <1>4, <1>5, <2>1, DeviceStays DEF Holding
<1>6. /\ paired' \subseteq Gateway!Ids /\ ids' \in 0..MaxIds
      /\ file' \in [id : {0} \cup Gateway!Ids, token : BOOLEAN]
  BY <1>1, <1>2 DEF Gateway!TypeOK
<1>7. NamesDevice(u) /\ (file'.id = 0 => file' = Gateway!NoFile)
  BY <1>1, <1>4 DEF NamesDevice, Holding, SetupInv
<1> QED
  BY <1>1, <1>4, <1>5, <1>6, <1>7, DeviceStep

(* The daemon restarts: nothing is prepared, and nothing is remembered.    *)
LEMMA RestartKeeps ==
  ASSUME SetupInv, Gateway!Restart
  PROVE  SetupInv'
<1>1. /\ Gateway!TypeOK /\ Gateway!Fault
      /\ setup' = [t \in Actors |-> IF t = Cli THEN setup[t] ELSE Gateway!Idle]
      /\ bound' = [a \in Agents |-> Nobody] /\ applied' = Nobody
      /\ muddled' = muddled \ {"config"}
      /\ UNCHANGED <<workspace, servers, paired, file, ids>>
  BY DEF SetupInv, Gateway!Restart, Gateway!config, Gateway!device, Actors
<1>2. \A t \in Actors : setup'[t] \in Gateway!Turn
  BY <1>1, GatewayTyped, IdleType DEF Actors
<1>3. \A t \in Turns : setup'[t] = Gateway!Idle
  BY <1>1, TurnsAct DEF Actors
<1>4. Gateway!TypeOK'
  <2>1. setup' \in [Actors -> Gateway!Turn]
    BY <1>1, <1>2
  <2> QED
    BY <1>1, <2>1, HitsType DEF Gateway!TypeOK, Actors
<1>5. \A t \in Turns : OwnerFits(setup[t])'
  BY <1>3, IdleType DEF OwnerFits
<1>6. \A t \in Actors : NamesDevice(setup[t])'
  BY <1>1, IdleType DEF SetupInv, NamesDevice, Holding
<1>7. ConfigInv'
  <2>1. \A t \in Turns : setup'[t].pc = "idle"
    BY <1>3, IdleType
  <2> QED
    BY <1>1, <2>1 DEF ConfigInv, Remembered, AppliedServes, ConfigFits, Rebound, Later
<1>8. ASSUME DeviceInv PROVE DeviceInv'
  <2>1. ASSUME NEW t \in Actors PROVE DeviceFits(setup[t], file, paired)'
    <3>1. CASE t = Cli
      <4>1. setup'[t] = setup[t]
        BY <1>1, <3>1
      <4> QED
        BY <1>1, <1>8, <4>1 DEF DeviceInv, DeviceFits
    <3>2. CASE t # Cli
      <4>1. setup'[t] = Gateway!Idle
        BY <1>1, <3>2
      <4> QED
        BY <4>1, IdleType DEF DeviceFits, Holding
    <3> QED
      BY <3>1, <3>2
  <2>2. \A s \in Actors : setup'[s].pc = "create" => s = Cli
    BY <1>1, IdleType
  <2> QED
    BY <1>1, <1>8, <2>1, <2>2 DEF DeviceInv
<1>9. (file.id = 0 => file = Gateway!NoFile)' /\ ("device" \in muddled' => "device" \in muddled)
      /\ ("device" \in muddled => "device" \in muddled')
  BY <1>1 DEF SetupInv
<1> QED
  BY <1>4, <1>5, <1>6, <1>7, <1>8, <1>9 DEF SetupInv

-----------------------------------------------------------------------------
LEMMA SetupInvInit == Gateway!Init => SetupInv
<1> SUFFICES ASSUME Gateway!Init PROVE SetupInv
  OBVIOUS
<1>1. /\ setup = [t \in Actors |-> Gateway!Idle] /\ paired = {} /\ file = Gateway!NoFile
      /\ workspace = [a \in Agents |-> Nobody] /\ servers = [n \in Servers |-> Nobody]
      /\ bound = [a \in Agents |-> Nobody] /\ applied = Nobody /\ muddled = {}
      /\ ids = 0 /\ hits = 0
  BY DEF Gateway!Init, Actors
<1>2. \A t \in Actors : setup[t].pc = "idle" /\ setup[t].stale = {}
  BY <1>1, IdleType
<1>3. Gateway!TypeOK
  <2>1. setup \in [Actors -> Gateway!Turn]
    BY <1>1, IdleType
  <2>2. ids \in 0..MaxIds /\ hits \in 0..MaxHits
    BY <1>1, HostAssumption DEF Gateway!GatewayAssumption
  <2>3. file \in [id : {0} \cup Gateway!Ids, token : BOOLEAN]
    BY <1>1 DEF Gateway!NoFile
  <2> QED
    BY <1>1, <2>1, <2>2, <2>3 DEF Gateway!TypeOK, Actors
<1>4. \A t \in Turns : t \in Actors
  BY TurnsAct DEF Actors
<1>5. ConfigInv
  BY <1>1, <1>2, <1>4 DEF ConfigInv, Remembered, AppliedServes, ConfigFits, Rebound, Later
<1>6. DeviceInv
  BY <1>1, <1>2 DEF DeviceInv, DeviceFits, Holding, Gateway!NoFile
<1> QED
  BY <1>1, <1>2, <1>3, <1>4, <1>5, <1>6 DEF SetupInv, OwnerFits, NamesDevice, Holding

LEMMA SetupInvStep == SetupInv /\ [Gateway!Next]_gatewayVars => SetupInv'
<1> SUFFICES ASSUME SetupInv, [Gateway!Next]_gatewayVars PROVE SetupInv'
  OBVIOUS
<1>1. CASE Gateway!Pair
  BY <1>1, PairKeeps
<1>2. CASE Gateway!Restart
  BY <1>2, RestartKeeps
<1>3. ASSUME NEW t \in Actors,
             \/ Gateway!Load(t) \/ Gateway!Create(t) \/ Gateway!Register(t)
             \/ Gateway!Save(t) \/ Gateway!List(t) \/ Gateway!Remove(t)
      PROVE  SetupInv'
  BY <1>3, LoadKeeps, CreateKeeps, RegisterKeeps, SaveKeeps, ListKeeps, RemoveKeeps
<1>4. ASSUME NEW t \in Turns, NEW a \in Agents, NEW d \in Desks, Gateway!Begin(t, a, d)
      PROVE  SetupInv'
  BY <1>4, SetupBeginKeeps
<1>5. ASSUME NEW t \in Turns,
             \/ Gateway!Engine(t) \/ Gateway!BindSkips(t) \/ Gateway!BindWrites(t)
             \/ Gateway!Cache(t) \/ Gateway!Mcp(t) \/ Gateway!Stamp(t) \/ Gateway!Connect(t)
      PROVE  SetupInv'
  BY <1>5, EngineKeeps, BindSkipsKeeps, BindWritesKeeps, CacheKeeps, McpKeeps, StampKeeps,
     ConnectKeeps
<1>6. ASSUME NEW t \in Turns, NEW n \in Servers, Gateway!Write(t, n) PROVE SetupInv'
  BY <1>6, WriteKeeps
<1>7. CASE UNCHANGED gatewayVars
  <2> USE <1>7 DEF gatewayVars
  <2>1. Gateway!TypeOK'
    BY DEF SetupInv, Gateway!TypeOK
  <2>2. ConfigInv' <=> ConfigInv
    BY DEF ConfigInv, Remembered, AppliedServes, ConfigFits, ServedFor
  <2>3. DeviceInv' <=> DeviceInv
    BY DEF DeviceInv, DeviceFits
  <2> QED
    BY <2>1, <2>2, <2>3 DEF SetupInv, OwnerFits, NamesDevice
<1> QED
  BY <1>1, <1>2, <1>3, <1>4, <1>5, <1>6, <1>7 DEF Gateway!Next, Actors

LEMMA SetupInvShows == SetupInv => SetUpForTheTurn
<1> SUFFICES ASSUME SetupInv, NEW t \in Turns, setup[t].pc = "connect"
             PROVE  /\ setup[t].id \in paired \/ "device" \in muddled
                    /\ \/ /\ workspace[setup[t].agent] = setup[t].desk
                          /\ \A n \in Servers : servers[n] = setup[t].agent
                       \/ setup[t].failed \/ "config" \in muddled
  BY DEF SetUpForTheTurn, Gateway!SetUpForTheTurn, Gateway!At
<1>1. t \in Actors
  BY TurnsAct DEF Actors
<1>2. DeviceInv => setup[t].id \in paired
  BY <1>1 DEF DeviceInv, DeviceFits, Holding
<1>3. ConfigInv => \/ workspace[setup[t].agent] = setup[t].desk /\ ServedFor(setup[t].agent)
                   \/ setup[t].failed
  <2>1. setup[t].pc \in Rebound /\ setup[t].pc \in Later
    BY DEF Rebound, Later, Pcs
  <2> QED
    BY <2>1 DEF ConfigInv, ConfigFits
<1> QED
  BY <1>2, <1>3 DEF SetupInv, ServedFor

-----------------------------------------------------------------------------
(* The transcript of a turn.  Storing a batch goes event by event.         *)

LEMMA LeastOf ==
  ASSUME NEW S, S \subseteq Nat, S # {}
  PROVE  \E h \in S : \A k \in S : h <= k
<1> DEFINE R == {ss \in Nat \X Nat : ss[1] < ss[2]}
<1>1. IsWellFoundedOn(R, Nat)
  BY NatLessThanWellFounded DEF OpToRel
<1> HIDE DEF R
<1>2. PICK h \in S : \A k \in S : ~(<<k, h>> \in R)
  BY <1>1, WFMin
<1>3. ASSUME NEW k \in S  PROVE h <= k
  <2>1. ~(k < h)
    BY <1>2 DEF R
  <2> QED  BY <2>1
<1> QED  BY <1>3

NoneOpen(rs) == [rows |-> rs, open |-> 0]

(* f tells the rows and the open row after each of the first n events.     *)
Storing(f, rs, b, n) ==
  f = [k \in 0..n |-> IF k = 0 THEN NoneOpen(rs) ELSE Transcript!EventRow(f[k - 1], b[k])]

EventByEvent(f, rs, b, n) ==
  /\ f[0] = NoneOpen(rs)
  /\ \A k \in 1..n : f[k] = Transcript!EventRow(f[k - 1], b[k])

LEMMA StoringIs ==
  ASSUME NEW rs, NEW b, NEW n \in Nat, NEW f, Storing(f, rs, b, n)
  PROVE  EventByEvent(f, rs, b, n)
BY DEF Storing, EventByEvent

LEMMA StoringExists ==
  ASSUME NEW rs, NEW b, NEW n \in Nat
  PROVE  \E f : Storing(f, rs, b, n)
<1> DEFINE S == {m \in Nat : ~\E f : Storing(f, rs, b, m)}
<1> SUFFICES ASSUME S # {}  PROVE FALSE
  OBVIOUS
<1>1. PICK h \in S : \A k \in S : h <= k
  <2> HIDE DEF S
  <2>1. S \subseteq Nat
    BY DEF S
  <2> QED  BY <2>1, LeastOf
<1>2. CASE h = 0
  <2>1. PICK f : f = [k \in 0..0 |-> NoneOpen(rs)]
    OBVIOUS
  <2>2. f[0] = NoneOpen(rs)
    BY <2>1
  <2>3. f = [k \in 0..0 |-> IF k = 0 THEN NoneOpen(rs) ELSE Transcript!EventRow(f[k - 1], b[k])]
    <3>1. \A k \in 0..0 : k = 0
      OBVIOUS
    <3> QED  BY <2>1, <3>1
  <2> QED  BY <1>2, <2>3 DEF Storing
<1>3. CASE h # 0
  <2>1. h - 1 \in Nat /\ h \in Nat /\ ~(h <= h - 1)
    BY <1>3
  <2>2. PICK g : Storing(g, rs, b, h - 1)
    BY <1>1, <2>1
  <2>3. PICK v : v = Transcript!EventRow(g[h - 1], b[h])
    OBVIOUS
  <2>4. PICK f : f = [k \in 0..h |-> IF k = h THEN v ELSE g[k]]
    OBVIOUS
  <2>5. f[0] = NoneOpen(rs)
    <3>1. EventByEvent(g, rs, b, h - 1)
      BY <2>1, <2>2, StoringIs
    <3> QED  BY <2>1, <2>4, <1>3, <3>1 DEF EventByEvent
  <2>6. \A k \in 1..h : f[k] = Transcript!EventRow(f[k - 1], b[k])
    <3> SUFFICES ASSUME NEW k \in 1..h  PROVE f[k] = Transcript!EventRow(f[k - 1], b[k])
      OBVIOUS
    <3>1. f[k - 1] = g[k - 1] /\ k \in 0..h /\ k - 1 \in 0..h
      BY <2>1, <2>4
    <3>2. CASE k = h
      BY <2>3, <2>4, <3>1, <3>2
    <3>3. CASE k # h
      <4>1. k \in 1..h - 1 /\ f[k] = g[k]
        BY <2>1, <2>4, <3>1, <3>3
      <4>2. EventByEvent(g, rs, b, h - 1)
        BY <2>1, <2>2, StoringIs
      <4> QED  BY <3>1, <4>1, <4>2 DEF EventByEvent
    <3> QED  BY <3>2, <3>3
  <2>7. f = [k \in 0..h |-> IF k = 0 THEN NoneOpen(rs) ELSE Transcript!EventRow(f[k - 1], b[k])]
    <3>1. ASSUME NEW k \in 0..h
          PROVE  f[k] = IF k = 0 THEN NoneOpen(rs) ELSE Transcript!EventRow(f[k - 1], b[k])
      <4>1. k = 0 \/ k \in 1..h
        BY <2>1
      <4> QED  BY <2>5, <2>6, <4>1
    <3>2. DOMAIN f = 0..h /\ f = [k \in 0..h |-> f[k]]
      BY <2>4
    <3> QED  BY <3>1, <3>2
  <2> QED  BY <2>7 DEF Storing
<1> QED  BY <1>2, <1>3

LEMMA StoringUnique ==
  ASSUME NEW rs, NEW b, NEW c, NEW n \in Nat, NEW m \in Nat, n <= m,
         \A k \in 1..n : b[k] = c[k],
         NEW f, Storing(f, rs, b, n), NEW g, Storing(g, rs, c, m)
  PROVE  f[n] = g[n]
<1> DEFINE S == {k \in 0..n : f[k] # g[k]}
<1> SUFFICES ASSUME S # {}  PROVE FALSE
  BY DEF S
<1>1. PICK h \in S : \A k \in S : h <= k
  <2> HIDE DEF S
  <2>1. S \subseteq Nat
    BY DEF S
  <2> QED  BY <2>1, LeastOf
<1>2. h \in 0..n /\ f[h] # g[h] /\ EventByEvent(f, rs, b, n) /\ EventByEvent(g, rs, c, m)
  BY StoringIs
<1>3. h # 0
  BY <1>2 DEF EventByEvent
<1>4. h \in 1..n /\ h \in 1..m /\ h - 1 \in 0..n /\ ~(h <= h - 1)
  BY <1>2, <1>3
<1>5. f[h - 1] = g[h - 1]
  BY <1>1, <1>4
<1>6. f[h] = Transcript!EventRow(f[h - 1], b[h]) /\ g[h] = Transcript!EventRow(g[h - 1], c[h])
  BY <1>2, <1>4 DEF EventByEvent
<1>7. b[h] = c[h]
  BY <1>4
<1> QED  BY <1>2, <1>5, <1>6, <1>7

LEMMA StoredIs ==
  ASSUME NEW rs, NEW b, Len(b) \in Nat
  PROVE  \E f : Storing(f, rs, b, Len(b)) /\ Transcript!Stored(rs, b) = f[Len(b)]
<1>1. PICK f : f = CHOOSE g : Storing(g, rs, b, Len(b))
  OBVIOUS
<1>2. Storing(f, rs, b, Len(b))
  BY <1>1, StoringExists
<1>3. Transcript!Stored(rs, b) = f[Len(b)]
  BY <1>1 DEF Transcript!Stored, Storing, NoneOpen
<1> QED  BY <1>2, <1>3

LEMMA StoredNothing ==
  ASSUME NEW rs
  PROVE  Transcript!Stored(rs, <<>>) = NoneOpen(rs)
<1>1. PICK b : b = <<>>
  OBVIOUS
<1>2. Len(b) = 0
  BY <1>1
<1>3. PICK f : Storing(f, rs, b, Len(b)) /\ Transcript!Stored(rs, b) = f[Len(b)]
  BY <1>2, StoredIs
<1>4. EventByEvent(f, rs, b, 0)
  BY <1>2, <1>3, StoringIs
<1> QED  BY <1>1, <1>2, <1>3, <1>4 DEF EventByEvent

LEMMA StoredOneMore ==
  ASSUME NEW rs, NEW S, NEW b \in Seq(S), NEW e
  PROVE  Transcript!Stored(rs, Append(b, e)) = Transcript!EventRow(Transcript!Stored(rs, b), e)
<1>1. PICK c : c = Append(b, e)
  OBVIOUS
<1>2. PICK n : n = Len(b)
  OBVIOUS
<1>3. n \in Nat /\ Len(c) = n + 1 /\ c[n + 1] = e /\ \A k \in 1..n : b[k] = c[k]
  <2>1. b \in Seq(S \cup {e}) /\ e \in S \cup {e}
    BY SeqMonotonic
  <2> QED  BY <1>1, <1>2, <2>1, AppendProperties, LenProperties
<1>4. PICK f : Storing(f, rs, b, n) /\ Transcript!Stored(rs, b) = f[n]
  BY <1>2, <1>3, StoredIs
<1>5. PICK g : Storing(g, rs, c, n + 1) /\ Transcript!Stored(rs, c) = g[n + 1]
  BY <1>3, StoredIs
<1>6. g[n + 1] = Transcript!EventRow(g[n], e)
  <2>1. n + 1 \in 1..n + 1 /\ (n + 1) - 1 = n /\ n + 1 \in Nat
    BY <1>3
  <2>2. EventByEvent(g, rs, c, n + 1)
    BY <1>5, <2>1, StoringIs
  <2> QED  BY <1>3, <2>1, <2>2 DEF EventByEvent
<1>7. f[n] = g[n]
  BY <1>3, <1>4, <1>5, StoringUnique
<1> QED  BY <1>1, <1>4, <1>5, <1>6, <1>7

(* A text that ends the transcript so far, and its words.                  *)
EndsInText(s) == s # <<>> /\ Transcript!IsText(s[Len(s)])
EndWords(s)   == IF EndsInText(s) THEN s[Len(s)].words ELSE <<>>

(* What text may yet extend is the text that ends the transcript.          *)
OpenFits(o, s) == o = 0 \/ (o = Len(s) /\ EndsInText(s))

(* What may be said with the words up to n.                                *)
Pieces(n) == {Transcript!Text(w) : w \in Seq(1..n) \ {<<>>}}
             \cup {Transcript!Tool(c) : c \in Commands} \cup {Transcript!Result(c) : c \in Commands}

LEMMA PiecesAre ==
  ASSUME NEW n \in Nat
  PROVE  /\ \A p \in Pieces(n) : \/ /\ Transcript!IsText(p) /\ p = Transcript!Text(p.words)
                                    /\ p.words \in Seq(1..n) /\ p.words # <<>>
                                 \/ ~Transcript!IsText(p)
         /\ Pieces(n) \subseteq Pieces(n + 1)
         /\ \A w \in Seq(1..n) : w # <<>> => Transcript!Text(w) \in Pieces(n)
<1>1. \A w \in Seq(1..n) : w \in Seq(1..n + 1)
  BY SeqMonotonic, 1..n \subseteq 1..n + 1
<1>2. ASSUME NEW p \in Pieces(n)
      PROVE  \/ /\ Transcript!IsText(p) /\ p = Transcript!Text(p.words)
                /\ p.words \in Seq(1..n) /\ p.words # <<>>
             \/ ~Transcript!IsText(p)
  BY DEF Pieces, Transcript!Text, Transcript!Tool, Transcript!Result, Transcript!IsText
<1>3. Pieces(n) \subseteq Pieces(n + 1)
  BY <1>1 DEF Pieces
<1>4. \A w \in Seq(1..n) : w # <<>> => Transcript!Text(w) \in Pieces(n)
  BY DEF Pieces
<1> QED  BY <1>2, <1>3, <1>4

(* The last piece gives way to another.                                    *)
GivesWay(m, s, x, S) ==
  /\ m \in Seq(S) /\ Len(m) = Len(s) /\ m[Len(s)] = x
  /\ m = [s EXCEPT ![Len(s)] = x]

LEMMA LastGivesWay ==
  ASSUME NEW S, NEW s \in Seq(S), s # <<>>, NEW x \in S,
         NEW m, m = Append(Transcript!Front(s), x)
  PROVE  GivesWay(m, s, x, S)
<1>1. PICK n : n = Len(s)
  OBVIOUS
<1>2. n \in Nat /\ n # 0 /\ DOMAIN s = 1..n /\ \A j \in 1..n : s[j] \in S
  BY <1>1, LenProperties, ElementOfSeq, EmptySeq
<1>3. PICK f : f = Transcript!Front(s)
  OBVIOUS
<1>4. f = SubSeq(s, 1, n - 1)
  BY <1>1, <1>3 DEF Transcript!Front
<1>5. /\ f \in Seq(S) /\ Len(f) = n - 1 /\ \A j \in 1..n - 1 : f[j] = s[j]
  <2>1. \A j \in 1..n - 1 : s[j] \in S
    BY <1>2
  <2>2. /\ SubSeq(s, 1, n - 1) \in Seq(S)
        /\ Len(SubSeq(s, 1, n - 1)) = IF 1 <= n - 1 THEN (n - 1) - 1 + 1 ELSE 0
        /\ \A j \in 1..(n - 1) - 1 + 1 : SubSeq(s, 1, n - 1)[j] = s[1 + j - 1]
    <3>1. 1 \in Int /\ n - 1 \in Int
      BY <1>2
    <3> QED  BY <3>1, <2>1, SubSeqProperties
  <2> QED  BY <1>2, <1>4, <2>2
<1>6. /\ m \in Seq(S) /\ Len(m) = (n - 1) + 1 /\ m[(n - 1) + 1] = x
      /\ \A j \in 1..n - 1 : m[j] = f[j]
  <2>1. m = Append(f, x)
    BY <1>3
  <2> QED  BY <1>5, <2>1, AppendProperties
<1>7. Len(m) = n /\ m[n] = x /\ \A j \in 1..n - 1 : m[j] = s[j]
  BY <1>2, <1>5, <1>6
<1>8. PICK g : g = [s EXCEPT ![n] = x]
  OBVIOUS
<1>9. g \in Seq(S) /\ Len(g) = n /\ g[n] = x /\ \A j \in 1..n : j # n => g[j] = s[j]
  BY <1>1, <1>2, <1>8, ExceptSeq
<1>10. m = g
  <2>1. \A j \in 1..n : m[j] = g[j]
    <3> SUFFICES ASSUME NEW j \in 1..n  PROVE m[j] = g[j]
      OBVIOUS
    <3>1. j = n \/ j \in 1..n - 1
      BY <1>2
    <3> QED  BY <1>7, <1>9, <3>1
  <2> QED  BY <2>1, <1>6, <1>7, <1>9, SeqEqual
<1> QED  BY <1>1, <1>6, <1>7, <1>8, <1>10 DEF GivesWay

(* One more word in the rows: it joins the text that ends them.            *)
Also(s, w) == IF EndsInText(s)
              THEN Append(Transcript!Front(s), Transcript!Text(s[Len(s)].words \o w))
              ELSE Append(s, Transcript!Text(w))

TextJoins(n, s, w, q) ==
  /\ q = [rows |-> Also(s, w), open |-> Len(Also(s, w))]
  /\ EndsInText(Also(s, w)) /\ Also(s, w) \in Seq(Pieces(n))
  /\ EndWords(Also(s, w)) = EndWords(s) \o w

LEMMA TextAdded ==
  ASSUME NEW n \in Nat, NEW s \in Seq(Pieces(n)), NEW o, OpenFits(o, s),
         NEW st, st = [rows |-> s, open |-> o],
         NEW w \in Seq(1..n), w # <<>>, NEW e, e = Transcript!TextEvent(w, FALSE)
  PROVE  TextJoins(n, s, w, Transcript!EventRow(st, e))
<1>1. e.kind = "text" /\ ~e.replace /\ e.words = w
  BY DEF Transcript!TextEvent
<1>2. Transcript!EventRow(st, e) = Transcript!TextRow(st, e)
  BY <1>1 DEF Transcript!EventRow
<1>3. st.rows = s /\ st.open = o
  OBVIOUS
<1>4. Len(s) \in Nat /\ (s # <<>> => Len(s) # 0) /\ DOMAIN s = 1..Len(s)
  BY LenProperties, EmptySeq
<1>5. CASE EndsInText(s)
  <2>1. PICK k : k = Len(s)
    OBVIOUS
  <2>2. s[k] \in Pieces(n) /\ k \in DOMAIN s /\ k # 0 /\ s # <<>>
    BY <1>4, <1>5, <2>1, ElementOfSeq DEF EndsInText
  <2>3. s[k] = Transcript!Text(s[k].words) /\ s[k].words \in Seq(1..n)
    BY <1>5, <2>1, <2>2, PiecesAre DEF EndsInText
  <2>4. PICK x : x = Transcript!Text(s[k].words \o w)
    OBVIOUS
  <2>5. s[k].words \o w \in Seq(1..n) /\ s[k].words \o w # <<>>
    BY <2>3, ConcatProperties, EmptySeq
  <2>6. x \in Pieces(n) /\ Transcript!IsText(x) /\ x.words = s[k].words \o w
    BY <2>4, <2>5, PiecesAre DEF Transcript!IsText, Transcript!Text
  <2>7. PICK m : m = Append(Transcript!Front(s), x)
    OBVIOUS
  <2>8. Also(s, w) = m
    BY <1>5, <2>1, <2>4, <2>7 DEF Also
  <2>9. m \in Seq(Pieces(n)) /\ Len(m) = k /\ m[k] = x /\ m = [s EXCEPT ![k] = x]
    <3>1. GivesWay(m, s, x, Pieces(n))
      BY <2>2, <2>6, <2>7, LastGivesWay
    <3> QED  BY <2>1, <3>1 DEF GivesWay
  <2>10. [s EXCEPT ![k].words = @ \o w] = [s EXCEPT ![k] = x]
    <3>1. [s[k] EXCEPT !.words = @ \o w] = x
      <4>1. PICK u : u = s[k].words
        OBVIOUS
      <4>2. s[k] = [kind |-> "text", words |-> u] /\ x = [kind |-> "text", words |-> u \o w]
        BY <2>3, <2>4, <4>1 DEF Transcript!Text
      <4>3. PICK y, v : y = s[k] /\ v = u \o w
        OBVIOUS
      <4>4. y = [kind |-> "text", words |-> u] /\ x = [kind |-> "text", words |-> v]
        BY <4>2, <4>3
      <4>5. [y EXCEPT !.words = v] = x
        BY <4>4
      <4>6. [y EXCEPT !.words = @ \o w] = [y EXCEPT !.words = v]
        BY <4>1, <4>3, Zenon
      <4> QED  BY <4>3, <4>5, <4>6
    <3>2. [s EXCEPT ![k].words = @ \o w] = [s EXCEPT ![k] = [s[k] EXCEPT !.words = @ \o w]]
      BY Zenon
    <3> QED  BY <3>1, <3>2
  <2>11. Transcript!TextRow(st, e) = [rows |-> [s EXCEPT ![k].words = @ \o w], open |-> k]
    <3>1. o # 0 => o = k
      BY <2>1 DEF OpenFits
    <3>2. Transcript!LatestOpen(s) = k
      BY <1>5, <2>1, <2>2 DEF EndsInText, Transcript!LatestOpen, Transcript!Last
    <3>3. Transcript!TextGoesTo(st, e) = k
      BY <1>1, <1>3, <2>2, <3>1, <3>2 DEF Transcript!TextGoesTo
    <3> QED  BY <1>1, <1>3, <2>2, <3>3 DEF Transcript!TextRow
  <2>12. m # <<>>
    BY <2>2, <2>9, EmptySeq
  <2>13. EndsInText(m) /\ EndWords(m) = EndWords(s) \o w
    BY <1>5, <2>1, <2>6, <2>9, <2>12 DEF EndsInText, EndWords
  <2> QED  BY <1>2, <2>8, <2>9, <2>10, <2>11, <2>13 DEF TextJoins
<1>6. CASE ~EndsInText(s)
  <2>1. PICK k, x, m : k = Len(s) /\ x = Transcript!Text(w) /\ m = Append(s, x)
    OBVIOUS
  <2>2. x \in Pieces(n) /\ Transcript!IsText(x) /\ x.words = w
    BY <2>1, PiecesAre DEF Transcript!IsText, Transcript!Text
  <2>3. Also(s, w) = m
    BY <1>6, <2>1 DEF Also
  <2>4. m \in Seq(Pieces(n)) /\ Len(m) = k + 1 /\ m[k + 1] = x /\ m # <<>>
    BY <2>1, <2>2, AppendProperties
  <2>5. o = 0
    BY <1>6 DEF OpenFits
  <2>6. Transcript!LatestOpen(s) = 0
    BY <1>6 DEF EndsInText, Transcript!LatestOpen, Transcript!Last
  <2>7. Transcript!TextRow(st, e) = [rows |-> m, open |-> k + 1]
    BY <1>1, <1>3, <2>1, <2>5, <2>6 DEF Transcript!TextRow, Transcript!TextGoesTo
  <2>8. <<>> \o w = w
    BY ConcatEmptySeq
  <2>9. EndsInText(m) /\ EndWords(m) = EndWords(s) \o w
    BY <1>6, <2>2, <2>4, <2>8 DEF EndsInText, EndWords
  <2> QED  BY <1>2, <2>3, <2>4, <2>7, <2>9 DEF TextJoins
<1> QED  BY <1>5, <1>6

LEMMA OnlyText ==
  ASSUME NEW s, {i \in DOMAIN s : Transcript!IsText(s[i])} = {1}
  PROVE  Transcript!LatestText(s) = 1
BY DEF Transcript!LatestText

OneText(n, w, m, q) ==
  /\ q = [rows |-> m, open |-> Len(m)]
  /\ m \in Seq(Pieces(n)) /\ Len(m) = 1 /\ EndsInText(m) /\ EndWords(m) = w

(* The only piece is said anew, and its row is rewritten.                  *)
LEMMA TextRewritten ==
  ASSUME NEW n \in Nat, NEW s \in Seq(Pieces(n)), Len(s) = 1, EndsInText(s),
         NEW o, OpenFits(o, s), NEW st, st = [rows |-> s, open |-> o],
         NEW w \in Seq(1..n), w # <<>>, NEW e, e = Transcript!TextEvent(w, TRUE),
         NEW m, m = Append(Transcript!Front(s), Transcript!Text(w))
  PROVE  OneText(n, w, m, Transcript!EventRow(st, e))
<1>1. e.kind = "text" /\ e.replace /\ e.words = w
  BY DEF Transcript!TextEvent
<1>2. Transcript!EventRow(st, e) = Transcript!TextRow(st, e)
  BY <1>1 DEF Transcript!EventRow
<1>3. st.rows = s /\ st.open = o
  OBVIOUS
<1>4. DOMAIN s = {1} /\ Transcript!IsText(s[1]) /\ s # <<>>
  BY LenProperties DEF EndsInText
<1>5. PICK x : x = Transcript!Text(w)
  OBVIOUS
<1>6. x \in Pieces(n) /\ Transcript!IsText(x) /\ x.words = w
  BY <1>5, PiecesAre DEF Transcript!IsText, Transcript!Text
<1>7. m \in Seq(Pieces(n)) /\ Len(m) = 1 /\ m[1] = x /\ m = [s EXCEPT ![1] = x]
  <2>1. GivesWay(m, s, x, Pieces(n))
    BY <1>4, <1>5, <1>6, LastGivesWay
  <2> QED  BY <2>1 DEF GivesWay
<1>8. Transcript!Rewrite(s, 1, w) = m
  BY <1>4, <1>5, <1>7 DEF Transcript!Rewrite
<1>9. Transcript!LatestText(s) = 1
  BY <1>4, OnlyText
<1>10. DOMAIN m = {1} /\ m # <<>>
  BY <1>7, LenProperties, EmptySeq
<1>11. Transcript!LatestText(m) = 1
  <2>1. m[1] = x
    BY <1>7
  <2>2. {i \in DOMAIN m : Transcript!IsText(m[i])} = {1}
    BY <1>6, <1>10, <2>1
  <2> QED  BY <2>2, OnlyText
<1>12. Transcript!TextRow(st, e) = [rows |-> m, open |-> 1]
  <2>1. o = 0 \/ o = 1
    BY DEF OpenFits
  <2>2. Transcript!TextGoesTo(st, e) = 1
    BY <1>1, <1>3, <1>9, <2>1 DEF Transcript!TextGoesTo
  <2>3. e.replace = TRUE /\ Transcript!Rewrite(st.rows, 1, e.words) = m
    BY <1>1, <1>3, <1>8 DEF Transcript!TextEvent
  <2>4. PICK i : i = 1
    OBVIOUS
  <2>5. PICK r : r = Transcript!Rewrite(st.rows, i, e.words)
    OBVIOUS
  <2>6. r = m /\ i # 0
    <3>1. r = m
      BY <2>3, <2>4, <2>5, Zenon
    <3> QED  BY <2>4, <3>1
  <2>9. Transcript!LatestText(r) = 1
    BY <1>11, <2>6, Zenon
  <2>7. Transcript!TextGoesTo(st, e) = i
    BY <2>2, <2>4
  <2>8. Transcript!TextRow(st, e) = [rows |-> r, open |-> Transcript!LatestText(r)]
    BY <2>3, <2>5, <2>6, <2>7 DEF Transcript!TextRow
  <2> QED  BY <2>6, <2>8, <2>9, Zenon
<1>13. EndsInText(m) /\ EndWords(m) = w
  BY <1>6, <1>7, <1>10 DEF EndsInText, EndWords
<1> QED  BY <1>2, <1>7, <1>12, <1>13 DEF OneText

ToolEnds(n, m, e, q) ==
  /\ q = [rows |-> m, open |-> 0]
  /\ m \in Seq(Pieces(n)) /\ ~EndsInText(m) /\ Len(m) \in Nat /\ m[Len(m)] = e

(* A tool, and what it answers, is a row at the end, and closes the text.  *)
LEMMA ToolAdded ==
  ASSUME NEW n \in Nat, NEW s \in Seq(Pieces(n)), NEW o, NEW st, st = [rows |-> s, open |-> o],
         NEW c \in Commands, NEW e,
         \/ e = Transcript!Tool(c) /\ ~Transcript!Contains(s, e)
         \/ e = Transcript!Result(c)
  PROVE  ToolEnds(n, Append(s, e), e, Transcript!EventRow(st, e))
<1>1. st.rows = s /\ st.open = o
  OBVIOUS
<1>2. Transcript!EventRow(st, e) = [rows |-> Append(s, e), open |-> 0]
  <2>1. CASE e = Transcript!Tool(c) /\ ~Transcript!Contains(s, e)
    <3>1. e.kind = "tool" /\ Transcript!Tool(e.command) = e
      BY <2>1 DEF Transcript!Tool
    <3>2. Transcript!EventRow(st, e) = Transcript!ToolRow(st, e)
      BY <3>1 DEF Transcript!EventRow
    <3> QED  BY <1>1, <2>1, <3>1, <3>2 DEF Transcript!ToolRow
  <2>2. CASE e = Transcript!Result(c)
    <3>1. e.kind = "result" /\ Transcript!Result(e.command) = e
      BY <2>2 DEF Transcript!Result
    <3>2. Transcript!EventRow(st, e) = Transcript!ResultRow(st, e)
      BY <3>1 DEF Transcript!EventRow
    <3> QED  BY <1>1, <3>1, <3>2 DEF Transcript!ResultRow
  <2> QED  BY <2>1, <2>2
<1>3. e \in Pieces(n) /\ ~Transcript!IsText(e)
  BY DEF Pieces, Transcript!Tool, Transcript!Result, Transcript!IsText
<1>4. PICK m : m = Append(s, e)
  OBVIOUS
<1>5. m \in Seq(Pieces(n)) /\ Len(m) = Len(s) + 1 /\ m[Len(s) + 1] = e /\ Len(m) \in Nat
  BY <1>3, <1>4, AppendProperties, LenProperties
<1>6. ~EndsInText(m) /\ m[Len(m)] = e
  BY <1>3, <1>5 DEF EndsInText
<1> QED  BY <1>2, <1>4, <1>5, <1>6 DEF ToolEnds

-----------------------------------------------------------------------------
(* What the daemon carries, when n words and k calls are behind it, s is   *)
(* what was said and rs the rows: with its batch stored, the rows are s.   *)
WholeRecord(d) ==
  d = [streamed |-> d.streamed, collected |-> d.collected, seen |-> d.seen, batch |-> d.batch]
WholeDaemon(d) ==
  /\ WholeRecord(d)
  /\ \E S : d.batch \in Seq(S)

Tracks(n, k, s, rs, d) ==
  /\ n \in Nat /\ k \in Nat /\ s \in Seq(Pieces(n)) /\ WholeDaemon(d)
  /\ \E o : OpenFits(o, s) /\ Transcript!Stored(rs, d.batch) = [rows |-> s, open |-> o]

(* While it reads, it has streamed the text that ends s, and seen no call  *)
(* that is yet to come, nor the answer of one that is out.                 *)
InTool(s) == s # <<>> /\ s[Len(s)].kind = "tool"
Reads(k, s, d) ==
  /\ d.streamed = EndWords(s) /\ d.seen \subseteq {"tool", "result"} \X (1..k)
  /\ InTool(s) => <<"result", k>> \notin d.seen /\ k >= 1

(* An event more in the batch is an event more in the rows.                *)
EventJoins(rs, s, o, q, e) ==
  /\ \E S : q.batch \in Seq(S)
  /\ Transcript!Stored(rs, q.batch) = Transcript!EventRow([rows |-> s, open |-> o], e)

LEMMA EventStored ==
  ASSUME NEW rs, NEW s, NEW o, NEW d, NEW e, NEW q, q.batch = Append(d.batch, e),
         \E S : d.batch \in Seq(S), Transcript!Stored(rs, d.batch) = [rows |-> s, open |-> o]
  PROVE  EventJoins(rs, s, o, q, e)
<1>1. PICK S : d.batch \in Seq(S)
  OBVIOUS
<1>2. Transcript!Stored(rs, Append(d.batch, e)) = Transcript!EventRow([rows |-> s, open |-> o], e)
  BY <1>1, StoredOneMore
<1>3. d.batch \in Seq(S \cup {e}) /\ e \in S \cup {e}
  BY <1>1, SeqMonotonic, S \subseteq S \cup {e}
<1>4. Append(d.batch, e) \in Seq(S \cup {e})
  BY <1>3, AppendProperties
<1> QED  BY <1>2, <1>4 DEF EventJoins

(* A snapshot that is longer by w sends w.                                 *)
Sends(q, d, text, e) ==
  /\ q.streamed = text /\ q.seen = d.seen /\ q.batch = Append(d.batch, e)
  /\ WholeRecord(q)

LEMMA SendsAre ==
  ASSUME NEW d, WholeDaemon(d), NEW text, NEW c, NEW e,
         NEW q, q = [d EXCEPT !.streamed = text, !.collected = c, !.batch = Append(@, e)]
  PROVE  Sends(q, d, text, e)
<1>1. PICK ds, dc, dn, db : ds = d.streamed /\ dc = d.collected /\ dn = d.seen /\ db = d.batch
  OBVIOUS
<1>2. d = [streamed |-> ds, collected |-> dc, seen |-> dn, batch |-> db]
  BY <1>1 DEF WholeDaemon, WholeRecord
<1>3. PICK b : b = Append(db, e)
  OBVIOUS
<1>4. PICK d1 : d1 = [d EXCEPT !.streamed = text]
  OBVIOUS
<1>5. d1 = [streamed |-> text, collected |-> dc, seen |-> dn, batch |-> db]
  BY <1>2, <1>4
<1>6. PICK d2 : d2 = [d1 EXCEPT !.collected = c]
  OBVIOUS
<1>7. d2 = [streamed |-> text, collected |-> c, seen |-> dn, batch |-> db]
  BY <1>5, <1>6
<1>8. PICK d3 : d3 = [d2 EXCEPT !.batch = Append(@, e)]
  OBVIOUS
<1>9. d3 = [streamed |-> text, collected |-> c, seen |-> dn, batch |-> b]
  <2>1. d3 = [d2 EXCEPT !.batch = b]
    BY <1>3, <1>7, <1>8
  <2> QED  BY <1>7, <2>1
<1>10. q = d3
  <2>1. d3 = [[[d EXCEPT !.streamed = text] EXCEPT !.collected = c] EXCEPT !.batch = Append(@, e)]
    BY <1>4, <1>6, <1>8, Zenon
  <2> QED  BY <2>1, Zenon
<1>11. PICK y : y = q
  OBVIOUS
<1>12. y = [streamed |-> text, collected |-> c, seen |-> dn, batch |-> b]
  BY <1>9, <1>10, <1>11
<1>13. y.streamed = text /\ y.collected = c /\ y.seen = dn /\ y.batch = b
  BY <1>12
<1>14. y = [streamed |-> y.streamed, collected |-> y.collected, seen |-> y.seen, batch |-> y.batch]
  BY <1>12
<1> QED  BY <1>1, <1>3, <1>11, <1>13, <1>14 DEF Sends, WholeRecord

(* u is t with x added.                                                    *)
LongerBy(t, u, x) ==
  /\ Transcript!IsPrefix(t, u) /\ u # t /\ ~Transcript!IsPrefix(u, t)
  /\ SubSeq(u, Len(t) + 1, Len(u)) = <<x>>

LEMMA LongerByOne ==
  ASSUME NEW N, NEW t \in Seq(N), NEW x \in N, NEW u \in Seq(N), Len(u) = Len(t) + 1,
         u[Len(t) + 1] = x, \A j \in 1..Len(t) : u[j] = t[j]
  PROVE  LongerBy(t, u, x)
<1>1. PICK k : k = Len(t)
  OBVIOUS
<1>2. k \in Nat /\ u \in Seq(N) /\ Len(u) = k + 1 /\ u[k + 1] = x /\ \A j \in 1..k : u[j] = t[j]
  BY <1>1, LenProperties
<1>3. u # t
  BY <1>1, <1>2
<1>4. PICK f, g : f = SubSeq(t, 1, k) /\ g = SubSeq(u, 1, k)
  OBVIOUS
<1>5. 1 \in Int /\ k \in Int /\ k + 1 \in Int /\ k - 1 + 1 = k /\ (k + 1) - (k + 1) + 1 = 1
  BY <1>2
<1>6. \A j \in 1..k : t[j] \in N
  BY <1>1, <1>2, ElementOfSeq
<1>7. \A j \in 1..k : u[j] \in N
  BY <1>2, <1>6
<1>8. /\ f \in Seq(N) /\ Len(f) = IF 1 <= k THEN k - 1 + 1 ELSE 0
      /\ \A j \in 1..k - 1 + 1 : f[j] = t[1 + j - 1]
  BY <1>4, <1>5, <1>6, SubSeqProperties
<1>9. /\ g \in Seq(N) /\ Len(g) = IF 1 <= k THEN k - 1 + 1 ELSE 0
      /\ \A j \in 1..k - 1 + 1 : g[j] = u[1 + j - 1]
  BY <1>4, <1>5, <1>7, SubSeqProperties
<1>10. Len(f) = k /\ Len(g) = k /\ \A j \in 1..k : f[j] = g[j]
  BY <1>2, <1>5, <1>8, <1>9
<1>11. f = g
  BY <1>8, <1>9, <1>10, SeqEqual
<1>12. Transcript!IsPrefix(t, u)
  BY <1>1, <1>2, <1>4, <1>11 DEF Transcript!IsPrefix
<1>13. PICK h : h = k + 1
  OBVIOUS
<1>14. PICK v, w : v = SubSeq(u, h, h) /\ w = <<x>>
  OBVIOUS
<1>15. /\ v \in Seq(N) /\ Len(v) = IF h <= h THEN h - h + 1 ELSE 0
       /\ \A j \in 1..h - h + 1 : v[j] = u[h + j - 1]
  <2>1. \A j \in h..h : u[j] \in N
    BY <1>2, <1>13
  <2>2. h \in Int
    BY <1>5, <1>13
  <2> QED  BY <1>14, <2>1, <2>2, SubSeqProperties
<1>16. Len(v) = 1 /\ v[1] = x
  BY <1>2, <1>5, <1>15, <1>13
<1>17. w \in Seq(N) /\ Len(w) = 1 /\ w[1] = x
  BY <1>14
<1>18. v = w
  <2>1. \A j \in 1..Len(v) : v[j] = w[j]
    BY <1>16, <1>17
  <2> QED  BY <1>15, <1>16, <1>17, <2>1, SeqEqual
<1>19. ~Transcript!IsPrefix(u, t)
  BY <1>1, <1>2 DEF Transcript!IsPrefix
<1> QED  BY <1>1, <1>2, <1>3, <1>12, <1>14, <1>18, <1>13, <1>19 DEF LongerBy

LEMMA OneMoreWord ==
  ASSUME NEW N, NEW t \in Seq(N), NEW x \in N, NEW u, u = Append(t, x)
  PROVE  LongerBy(t, u, x)
<1>1. /\ u \in Seq(N) /\ Len(u) = Len(t) + 1 /\ u[Len(t) + 1] = x
      /\ \A j \in 1..Len(t) : u[j] = t[j]
  BY AppendProperties
<1> QED  BY <1>1, LongerByOne

LEMMA LongerSends ==
  ASSUME NEW N, NEW d, WholeDaemon(d), d.streamed \in Seq(N), NEW x \in N,
         NEW text, text = Append(d.streamed, x)
  PROVE  Sends(Transcript!Snapshot(d, text), d, text, Transcript!TextEvent(<<x>>, FALSE))
<1>1. PICK t, w, e : t = d.streamed /\ w = <<x>> /\ e = Transcript!TextEvent(<<x>>, FALSE)
  OBVIOUS
<1>2. /\ Transcript!IsPrefix(t, text) /\ text # t /\ ~Transcript!IsPrefix(text, t)
      /\ SubSeq(text, Len(t) + 1, Len(text)) = w
  <2>1. LongerBy(d.streamed, text, x)
    BY OneMoreWord
  <2> QED  BY <1>1, <2>1 DEF LongerBy
<1>3. PICK c : c = d.collected \o w
  OBVIOUS
<1>4. PICK q : q = [d EXCEPT !.streamed = text, !.collected = c, !.batch = Append(@, e)]
  OBVIOUS
<1>5. Sends(q, d, text, e)
  BY <1>4, SendsAre
<1>6. Transcript!Snapshot(d, text) = q
  <2>1. Transcript!IsPrefix(d.streamed, text) /\ d.streamed # text /\ ~Transcript!IsPrefix(text, d.streamed)
    BY <1>1, <1>2, Zenon
  <2>2. SubSeq(text, Len(d.streamed) + 1, Len(text)) = w
    BY <1>1, <1>2, Zenon
  <2>3. Transcript!Snapshot(d, text) =
          LET delta == SubSeq(text, Len(d.streamed) + 1, Len(text)) IN
          [d EXCEPT !.streamed = text, !.collected = @ \o delta,
                    !.batch = Append(@, Transcript!TextEvent(delta, FALSE))]
    BY <2>1, SMTT(30) DEF Transcript!Snapshot
  <2>4. Transcript!Snapshot(d, text) =
          [d EXCEPT !.streamed = text, !.collected = @ \o w,
                    !.batch = Append(@, Transcript!TextEvent(w, FALSE))]
    BY <2>2, <2>3, Zenon
  <2>5. Transcript!Snapshot(d, text) =
          [d EXCEPT !.streamed = text, !.collected = d.collected \o w, !.batch = Append(@, e)]
    BY <1>1, <2>4, Zenon
  <2> QED  BY <1>3, <1>4, <2>5, Zenon
<1> QED  BY <1>1, <1>5, <1>6, Zenon

(* A snapshot that begins with another word goes out whole.                *)
LEMMA NoPrefix ==
  ASSUME NEW M, NEW t \in Seq(M), NEW u \in Seq(M), t # <<>>, u # <<>>, t[1] # u[1]
  PROVE  ~Transcript!IsPrefix(t, u)
<1> SUFFICES ASSUME Transcript!IsPrefix(t, u)  PROVE FALSE
  OBVIOUS
<1>1. PICK k : k = Len(t)
  OBVIOUS
<1>2. k \in Nat /\ k >= 1 /\ k <= Len(u) /\ Len(u) \in Nat
  BY <1>1, EmptySeq, LenProperties DEF Transcript!IsPrefix
<1>3. PICK f, g : f = SubSeq(t, 1, k) /\ g = SubSeq(u, 1, k)
  OBVIOUS
<1>4. f = g
  BY <1>1, <1>3 DEF Transcript!IsPrefix
<1>5. 1 \in Int /\ k \in Int /\ 1 \in 1..k - 1 + 1 /\ 1 + 1 - 1 = 1
  BY <1>2
<1>6. \A j \in 1..k : t[j] \in M
  BY <1>1, ElementOfSeq
<1>7. \A j \in 1..k : u[j] \in M
  <2>1. \A j \in 1..k : j \in 1..Len(u)
    BY <1>2
  <2> QED  BY <2>1, ElementOfSeq
<1>8. \A j \in 1..k - 1 + 1 : f[j] = t[1 + j - 1]
  BY <1>3, <1>5, <1>6, SubSeqProperties
<1>9. \A j \in 1..k - 1 + 1 : g[j] = u[1 + j - 1]
  BY <1>3, <1>5, <1>7, SubSeqProperties
<1> QED  BY <1>4, <1>5, <1>8, <1>9

LEMMA AnewSends ==
  ASSUME NEW N, NEW d, WholeDaemon(d), d.streamed \in Seq(N), d.streamed # <<>>, NEW x, x \notin N,
         NEW text, text = <<x>>
  PROVE  Sends(Transcript!Snapshot(d, text), d, text, Transcript!TextEvent(text, TRUE))
<1>1. PICK t, M : t = d.streamed /\ M = N \cup {x}
  OBVIOUS
<1>2. t \in Seq(M) /\ text \in Seq(M) /\ text # <<>> /\ text[1] = x /\ t[1] # x
  <2>1. t \in Seq(N) /\ N \subseteq M
    BY <1>1
  <2>2. t \in Seq(M)
    BY <2>1, SeqMonotonic
  <2>3. Len(t) \in Nat \ {0}
    BY <1>1, <2>1, EmptySeq
  <2>4. t[1] \in N
    BY <2>1, <2>3, ElementOfSeq
  <2>5. text \in Seq(M) /\ text # <<>> /\ text[1] = x
    BY <1>1
  <2> QED  BY <2>2, <2>4, <2>5
<1>3. ~Transcript!IsPrefix(t, text) /\ ~Transcript!IsPrefix(text, t)
  BY <1>1, <1>2, NoPrefix
<1>4. PICK e : e = Transcript!TextEvent(text, TRUE)
  OBVIOUS
<1>5. PICK q : q = [d EXCEPT !.streamed = text, !.collected = text, !.batch = Append(@, e)]
  OBVIOUS
<1>6. Sends(q, d, text, e)
  BY <1>5, SendsAre
<1>7. Transcript!Snapshot(d, text) = q
  BY <1>1, <1>3, <1>4, <1>5 DEF Transcript!Snapshot
<1> QED  BY <1>4, <1>6, <1>7

(* What follows once the batch has an event more.                          *)
LEMMA FollowsOn ==
  ASSUME NEW n \in Nat, NEW k \in Nat, NEW s, NEW rs, NEW d, Tracks(n, k, s, rs, d),
         NEW e, NEW q, q.batch = Append(d.batch, e)
  PROVE  \E o : OpenFits(o, s) /\ EventJoins(rs, s, o, q, e)
<1>1. PICK o : OpenFits(o, s) /\ Transcript!Stored(rs, d.batch) = [rows |-> s, open |-> o]
  BY DEF Tracks
<1>2. \E S : d.batch \in Seq(S)
  BY DEF Tracks, WholeDaemon
<1>3. EventJoins(rs, s, o, q, e)
  BY <1>1, <1>2, EventStored
<1> QED  BY <1>1, <1>3

(* The agent says one more word, which joins the text at the end.          *)
Adding(n, s, t) ==
  t = IF EndsInText(s) THEN Append(Transcript!Front(s), Transcript!Text(Append(EndWords(s), n + 1)))
                       ELSE Append(s, Transcript!Text(Append(EndWords(s), n + 1)))

LEMMA EndWordsAre ==
  ASSUME NEW n \in Nat, NEW s \in Seq(Pieces(n))
  PROVE  EndWords(s) \in Seq(1..n)
<1>1. CASE EndsInText(s)
  <2>1. s # <<>> /\ Transcript!IsText(s[Len(s)]) /\ EndWords(s) = s[Len(s)].words
    BY <1>1 DEF EndsInText, EndWords
  <2>2. s[Len(s)] \in Pieces(n)
    BY <2>1, EmptySeq, ElementOfSeq
  <2> QED  BY <2>1, <2>2, PiecesAre
<1>2. CASE ~EndsInText(s)
  BY <1>2 DEF EndWords
<1> QED  BY <1>1, <1>2

WordIn(n, k, s, rs, t, q) ==
  Tracks(n + 1, k, t, rs, q) /\ EndsInText(t) /\ EndWords(t) = Append(EndWords(s), n + 1)

LEMMA WordJoins ==
  ASSUME NEW n \in Nat, NEW k \in Nat, NEW s, NEW rs, NEW d, Tracks(n, k, s, rs, d),
         NEW t, Adding(n, s, t), NEW q, WholeRecord(q),
         q.batch = Append(d.batch, Transcript!TextEvent(<<n + 1>>, FALSE))
  PROVE  WordIn(n, k, s, rs, t, q)
<1>1. PICK e, w, m : e = Transcript!TextEvent(<<n + 1>>, FALSE) /\ w = <<n + 1>> /\ m = n + 1
  OBVIOUS
<1>2. m \in Nat /\ w \in Seq(1..m) /\ w # <<>> /\ s \in Seq(Pieces(m))
  <2>1. s \in Seq(Pieces(n)) /\ Pieces(n) \subseteq Pieces(n + 1)
    BY PiecesAre DEF Tracks
  <2>2. s \in Seq(Pieces(m))
    BY <1>1, <2>1, SeqMonotonic
  <2>3. m \in 1..m /\ m \in Nat
    BY <1>1
  <2> QED  BY <1>1, <2>2, <2>3
<1>3. PICK o : OpenFits(o, s) /\ EventJoins(rs, s, o, q, e)
  <2>1. q.batch = Append(d.batch, e)
    BY <1>1
  <2> QED  BY <2>1, FollowsOn
<1>4. PICK st : st = [rows |-> s, open |-> o]
  OBVIOUS
<1>5. e = Transcript!TextEvent(w, FALSE)
  BY <1>1
<1>6. TextJoins(m, s, w, Transcript!EventRow(st, e))
  BY <1>2, <1>3, <1>4, <1>5, TextAdded
<1>7. EndWords(s) \o w = Append(EndWords(s), m)
  <2>1. EndWords(s) \in Seq(1..m) /\ m \in 1..m
    BY <1>1, <1>2, EndWordsAre
  <2> QED  BY <1>1, <2>1, AppendIsConcat
<1>8. Also(s, w) = t
  <2>1. CASE EndsInText(s)
    <3>1. s[Len(s)].words \o w = Append(EndWords(s), m)
      BY <1>7, <2>1, Zenon DEF EndWords
    <3> QED  BY <1>1, <2>1, <3>1 DEF Also, Adding
  <2>2. CASE ~EndsInText(s)
    <3>1. Append(EndWords(s), m) = w
      BY <1>1, <2>2 DEF EndWords
    <3> QED  BY <1>1, <2>2, <3>1 DEF Also, Adding
  <2> QED  BY <2>1, <2>2
<1>9. Transcript!Stored(rs, q.batch) = [rows |-> t, open |-> Len(t)] /\ \E S : q.batch \in Seq(S)
  BY <1>3, <1>4, <1>6, <1>8 DEF EventJoins, TextJoins
<1>10. EndsInText(t) /\ t \in Seq(Pieces(n + 1)) /\ EndWords(t) = Append(EndWords(s), n + 1)
  BY <1>1, <1>6, <1>7, <1>8 DEF TextJoins
<1>11. OpenFits(Len(t), t)
  BY <1>10 DEF OpenFits
<1> QED  BY <1>1, <1>2, <1>9, <1>10, <1>11 DEF WordIn, Tracks, WholeDaemon, WholeRecord

LEMMA SaidFollows ==
  ASSUME NEW n \in Nat, NEW k \in Nat, NEW s, NEW rs, NEW d, Tracks(n, k, s, rs, d), Reads(k, s, d),
         NEW t, Adding(n, s, t), NEW q, q = Transcript!Snapshot(d, Append(EndWords(s), n + 1))
  PROVE  Tracks(n + 1, k, t, rs, q) /\ Reads(k, t, q)
<1>1. PICK u, v : u = EndWords(s) /\ v = Append(u, n + 1)
  OBVIOUS
<1>2. d.streamed = u /\ u \in Seq(1..n + 1) /\ n + 1 \in 1..n + 1 /\ WholeDaemon(d)
  <2>1. s \in Seq(Pieces(n)) /\ WholeDaemon(d) /\ 1..n \subseteq 1..n + 1
    BY DEF Tracks
  <2>2. u \in Seq(1..n) /\ d.streamed = u
    BY <1>1, <2>1, EndWordsAre DEF Reads
  <2> QED  BY <2>1, <2>2, SeqMonotonic
<1>3. Sends(q, d, v, Transcript!TextEvent(<<n + 1>>, FALSE))
  <2>1. v = Append(d.streamed, n + 1) /\ d.streamed \in Seq(1..n + 1) /\ q = Transcript!Snapshot(d, v)
    BY <1>1, <1>2
  <2> QED  BY <1>2, <2>1, LongerSends
<1>4. Tracks(n + 1, k, t, rs, q) /\ EndsInText(t) /\ EndWords(t) = v
  <2>1. WholeRecord(q) /\ q.batch = Append(d.batch, Transcript!TextEvent(<<n + 1>>, FALSE))
    BY <1>3 DEF Sends
  <2>2. WordIn(n, k, s, rs, t, q)
    BY <1>2, <2>1, WordJoins
  <2> QED  BY <1>1, <2>2 DEF WordIn
<1>5. Reads(k, t, q)
  <2>1. q.streamed = EndWords(t) /\ q.seen = d.seen
    BY <1>3, <1>4 DEF Sends
  <2>2. ~InTool(t)
    BY <1>4 DEF InTool, EndsInText, Transcript!IsText
  <2> QED  BY <2>1, <2>2 DEF Reads
<1> QED  BY <1>4, <1>5

(* It starts its only piece over.                                          *)
LEMMA AnewFollows ==
  ASSUME NEW n \in Nat, NEW k \in Nat, NEW s, NEW rs, NEW d, Tracks(n, k, s, rs, d), Reads(k, s, d),
         EndsInText(s), Len(s) = 1,
         NEW t, t = Append(Transcript!Front(s), Transcript!Text(<<n + 1>>)),
         NEW q, q = Transcript!Snapshot(d, <<n + 1>>)
  PROVE  Tracks(n + 1, k, t, rs, q) /\ Reads(k, t, q)
<1>1. PICK m, w : m = n + 1 /\ w = <<n + 1>>
  OBVIOUS
<1>2. m \in Nat /\ m \notin 1..n /\ w \in Seq(1..m) /\ w # <<>> /\ s \in Seq(Pieces(m))
  <2>1. s \in Seq(Pieces(n)) /\ Pieces(n) \subseteq Pieces(n + 1)
    BY PiecesAre DEF Tracks
  <2>2. s \in Seq(Pieces(m))
    BY <1>1, <2>1, SeqMonotonic
  <2>3. m \in 1..m /\ m \in Nat /\ m \notin 1..n
    BY <1>1
  <2> QED  BY <1>1, <2>2, <2>3
<1>3. WholeDaemon(d) /\ d.streamed \in Seq(1..n) /\ d.streamed # <<>>
  <2>1. WholeDaemon(d) /\ s \in Seq(Pieces(n)) /\ d.streamed = EndWords(s)
    BY DEF Tracks, Reads
  <2>2. EndWords(s) = s[1].words /\ Transcript!IsText(s[1]) /\ 1 \in 1..Len(s)
    BY DEF EndsInText, EndWords
  <2>3. s[1] \in Pieces(n)
    BY <2>1, <2>2, ElementOfSeq
  <2>4. s[1].words \in Seq(1..n) /\ s[1].words # <<>>
    BY <2>2, <2>3, PiecesAre
  <2> QED  BY <2>1, <2>2, <2>4
<1>4. PICK e : e = Transcript!TextEvent(w, TRUE)
  OBVIOUS
<1>5. Sends(q, d, w, e)
  <2>1. w = <<m>> /\ q = Transcript!Snapshot(d, w)
    BY <1>1
  <2>2. Sends(Transcript!Snapshot(d, w), d, w, Transcript!TextEvent(w, TRUE))
    BY <1>2, <1>3, <2>1, AnewSends
  <2> QED  BY <1>4, <2>1, <2>2
<1>6. PICK o : OpenFits(o, s) /\ EventJoins(rs, s, o, q, e)
  <2>1. q.batch = Append(d.batch, e)
    BY <1>5 DEF Sends
  <2> QED  BY <2>1, FollowsOn
<1>7. PICK st : st = [rows |-> s, open |-> o]
  OBVIOUS
<1>8. t = Append(Transcript!Front(s), Transcript!Text(w))
  BY <1>1
<1>9. /\ Transcript!EventRow(st, e) = [rows |-> t, open |-> Len(t)]
      /\ t \in Seq(Pieces(m)) /\ Len(t) = 1 /\ EndsInText(t) /\ EndWords(t) = w
  <2>1. OneText(m, w, t, Transcript!EventRow(st, e))
    BY <1>2, <1>4, <1>6, <1>7, <1>8, TextRewritten
  <2> QED  BY <2>1 DEF OneText
<1>10. Transcript!Stored(rs, q.batch) = [rows |-> t, open |-> Len(t)] /\ \E S : q.batch \in Seq(S)
  BY <1>6, <1>7, <1>9 DEF EventJoins
<1>11. OpenFits(Len(t), t)
  BY <1>9 DEF OpenFits
<1>12. WholeDaemon(q)
  BY <1>5, <1>10 DEF Sends, WholeDaemon
<1>13. Tracks(n + 1, k, t, rs, q)
  BY <1>1, <1>2, <1>9, <1>10, <1>11, <1>12 DEF Tracks
<1>14. Reads(k, t, q)
  <2>1. q.streamed = EndWords(t) /\ q.seen = d.seen
    BY <1>5, <1>9 DEF Sends
  <2>2. ~InTool(t)
    BY <1>9 DEF InTool, EndsInText, Transcript!IsText
  <2> QED  BY <2>1, <2>2 DEF Reads
<1> QED  BY <1>13, <1>14

(* A frame that is new is taken once, though it comes twice.               *)
Takes(q, d, e, c) ==
  /\ q.streamed = <<>> /\ q.seen = d.seen \cup {<<e.kind, c>>} /\ q.batch = Append(d.batch, e)
  /\ WholeRecord(q)

LEMMA TwiceTakes ==
  ASSUME NEW d, NEW e, NEW c, <<e.kind, c>> \notin d.seen, NEW q, q = Transcript!Twice(d, e, c)
  PROVE  Takes(q, d, e, c)
<1>1. PICK b, z : b = Append(d.batch, e) /\ z = d.seen \cup {<<e.kind, c>>}
  OBVIOUS
<1>2. PICK y : y = [streamed |-> <<>>, collected |-> <<>>, seen |-> z, batch |-> b]
  OBVIOUS
<1>3. Transcript!ToolFrame(d, e, c) = y
  BY <1>1, <1>2 DEF Transcript!ToolFrame
<1>4. y.seen = z /\ <<e.kind, c>> \in z
  BY <1>1, <1>2
<1>5. Transcript!ToolFrame(y, e, c) = y
  BY <1>4 DEF Transcript!ToolFrame
<1>6. q = y
  BY <1>3, <1>5, Zenon DEF Transcript!Twice
<1>7. y.streamed = <<>> /\ y.collected = <<>> /\ y.batch = b
  BY <1>2
<1>8. WholeRecord(y)
  BY <1>2 DEF WholeRecord
<1> QED  BY <1>1, <1>4, <1>6, <1>7, <1>8 DEF Takes

ToolIn(n, h, rs, t, q, e) ==
  /\ Tracks(n, h, t, rs, q) /\ ~EndsInText(t) /\ EndWords(t) = <<>>
  /\ t # <<>> => t[Len(t)] = e

LEMMA ToolJoins ==
  ASSUME NEW n \in Nat, NEW k \in Nat, NEW h \in Nat, NEW s, NEW rs, NEW d, Tracks(n, k, s, rs, d),
         NEW c \in Commands, NEW e, NEW r,
         \/ e = Transcript!Tool(c) /\ ~Transcript!Contains(s, e)
         \/ e = Transcript!Result(c),
         NEW t, t = Append(s, e), NEW q, Takes(q, d, e, r)
  PROVE  ToolIn(n, h, rs, t, q, e)
<1>1. PICK o : OpenFits(o, s) /\ EventJoins(rs, s, o, q, e)
  <2>1. q.batch = Append(d.batch, e)
    BY DEF Takes
  <2> QED  BY <2>1, FollowsOn
<1>2. PICK st : st = [rows |-> s, open |-> o]
  OBVIOUS
<1>3. s \in Seq(Pieces(n))
  BY DEF Tracks
<1>4. PICK m : m = Append(s, e)
  OBVIOUS
<1>5. /\ Transcript!EventRow(st, e) = [rows |-> m, open |-> 0]
      /\ m \in Seq(Pieces(n)) /\ ~EndsInText(m)
      /\ Len(m) \in Nat /\ m[Len(m)] = e
  <2>1. ToolEnds(n, Append(s, e), e, Transcript!EventRow(st, e))
    BY <1>2, <1>3, ToolAdded
  <2> QED  BY <1>4, <2>1 DEF ToolEnds
<1>6. Transcript!Stored(rs, q.batch) = [rows |-> m, open |-> 0] /\ \E S : q.batch \in Seq(S)
  BY <1>1, <1>2, <1>5 DEF EventJoins
<1>7. OpenFits(0, m) /\ EndWords(m) = <<>>
  BY <1>5 DEF OpenFits, EndWords
<1>8. WholeDaemon(q)
  BY <1>6 DEF Takes, WholeDaemon
<1>9. Tracks(n, h, m, rs, q)
  BY <1>5, <1>6, <1>7, <1>8 DEF Tracks
<1> QED  BY <1>4, <1>5, <1>7, <1>9 DEF ToolIn

LEMMA CallFollows ==
  ASSUME NEW n \in Nat, NEW k \in Nat, NEW s, NEW rs, NEW d, Tracks(n, k, s, rs, d), Reads(k, s, d),
         NEW c \in Commands, ~Transcript!Contains(s, Transcript!Tool(c)),
         NEW t, t = Append(s, Transcript!Tool(c)),
         NEW q, q = Transcript!Twice(d, Transcript!Tool(c), k + 1)
  PROVE  Tracks(n, k + 1, t, rs, q) /\ Reads(k + 1, t, q)
<1>1. PICK e : e = Transcript!Tool(c)
  OBVIOUS
<1>2. e.kind = "tool"
  BY <1>1 DEF Transcript!Tool
<1>3. d.seen \subseteq {"tool", "result"} \X (1..k)
  BY DEF Reads
<1>4. \A x \in {"tool", "result"} : <<x, k + 1>> \notin d.seen
  BY <1>3
<1>5. Takes(q, d, e, k + 1)
  BY <1>1, <1>2, <1>4, TwiceTakes
<1>6. /\ Tracks(n, k + 1, t, rs, q) /\ ~EndsInText(t) /\ EndWords(t) = <<>>
  <2>1. k + 1 \in Nat /\ t = Append(s, e) /\ ~Transcript!Contains(s, e)
    BY <1>1
  <2>2. ToolIn(n, k + 1, rs, t, q, e)
    BY <1>1, <1>5, <2>1, ToolJoins
  <2> QED  BY <2>2 DEF ToolIn
<1>7. Reads(k + 1, t, q)
  <2>1. q.streamed = EndWords(t) /\ q.seen = d.seen \cup {<<"tool", k + 1>>}
    BY <1>2, <1>5, <1>6 DEF Takes
  <2>2. q.seen \subseteq {"tool", "result"} \X (1..k + 1)
    BY <1>3, <2>1
  <2>3. <<"result", k + 1>> \notin q.seen /\ k + 1 >= 1
    BY <1>4, <2>1
  <2> QED  BY <2>1, <2>2, <2>3 DEF Reads
<1> QED  BY <1>6, <1>7

LEMMA AnswerFollows ==
  ASSUME NEW n \in Nat, NEW k \in Nat, NEW s, NEW rs, NEW d, Tracks(n, k, s, rs, d), Reads(k, s, d),
         InTool(s), NEW r, r = Transcript!Result(s[Len(s)].command),
         NEW t, t = Append(s, r), NEW q, q = Transcript!Twice(d, r, k)
  PROVE  Tracks(n, k, t, rs, q) /\ Reads(k, t, q)
<1>1. PICK c \in Commands : r = Transcript!Result(c)
  <2>1. s # <<>> /\ s[Len(s)].kind = "tool" /\ s \in Seq(Pieces(n))
    BY DEF InTool, Tracks
  <2>2. s[Len(s)] \in Pieces(n)
    BY <2>1, EmptySeq, ElementOfSeq
  <2>3. s[Len(s)].command \in Commands
    BY <2>1, <2>2 DEF Pieces, Transcript!Text, Transcript!Tool, Transcript!Result
  <2> QED  BY <2>3
<1>2. r.kind = "result"
  BY <1>1 DEF Transcript!Result
<1>3. d.seen \subseteq {"tool", "result"} \X (1..k) /\ <<"result", k>> \notin d.seen /\ k >= 1
  BY DEF Reads
<1>4. Takes(q, d, r, k)
  BY <1>2, <1>3, TwiceTakes
<1>5. /\ Tracks(n, k, t, rs, q) /\ ~EndsInText(t) /\ EndWords(t) = <<>>
      /\ t # <<>> => t[Len(t)] = r
  <2>1. ToolIn(n, k, rs, t, q, r)
    BY <1>1, <1>4, ToolJoins
  <2> QED  BY <2>1 DEF ToolIn
<1>6. Reads(k, t, q)
  <2>1. q.streamed = EndWords(t) /\ q.seen = d.seen \cup {<<"result", k>>}
    BY <1>2, <1>4, <1>5 DEF Takes
  <2>2. q.seen \subseteq {"tool", "result"} \X (1..k)
    BY <1>3, <2>1
  <2>3. ~InTool(t)
    BY <1>2, <1>5 DEF InTool
  <2> QED  BY <2>1, <2>2, <2>3 DEF Reads
<1> QED  BY <1>5, <1>6

(* The words of the error that ends the turn.                              *)
LEMMA FailFollows ==
  ASSUME NEW n \in Nat, NEW k \in Nat, NEW s, NEW rs, NEW d, Tracks(n, k, s, rs, d),
         NEW t, Adding(n, s, t),
         NEW q, q = [d EXCEPT !.batch = Append(@, Transcript!TextEvent(<<n + 1>>, FALSE))]
  PROVE  Tracks(n + 1, k, t, rs, q)
<1>1. PICK e : e = Transcript!TextEvent(<<n + 1>>, FALSE)
  OBVIOUS
<1>2. WholeRecord(d)
  BY DEF Tracks, WholeDaemon
<1>3. PICK ds, dc, dn, db : ds = d.streamed /\ dc = d.collected /\ dn = d.seen /\ db = d.batch
  OBVIOUS
<1>4. PICK b : b = Append(db, e)
  OBVIOUS
<1>5. d = [streamed |-> ds, collected |-> dc, seen |-> dn, batch |-> db]
  BY <1>2, <1>3 DEF WholeRecord
<1>6. q = [d EXCEPT !.batch = b]
  BY <1>1, <1>3, <1>4, Zenon
<1>7. PICK y : y = q
  OBVIOUS
<1>8. y = [streamed |-> ds, collected |-> dc, seen |-> dn, batch |-> b]
  BY <1>5, <1>6, <1>7
<1>9. WholeRecord(y) /\ y.batch = b
  BY <1>8 DEF WholeRecord
<1>10. q.batch = Append(d.batch, e) /\ WholeRecord(q)
  BY <1>3, <1>4, <1>7, <1>9
<1>11. WordIn(n, k, s, rs, t, q)
  BY <1>1, <1>10, WordJoins
<1> QED  BY <1>11 DEF WordIn

(* A batch that is stored leaves an empty one.                             *)
LEMMA FlushFollows ==
  ASSUME NEW n \in Nat, NEW k \in Nat, NEW s, NEW rs, NEW d, Tracks(n, k, s, rs, d),
         NEW q, q = [d EXCEPT !.batch = <<>>],
         NEW rt, rt = Transcript!Stored(rs, d.batch).rows
  PROVE  Tracks(n, k, s, rt, q) /\ q.batch = <<>> /\ (Reads(k, s, d) => Reads(k, s, q))
<1>1. WholeRecord(d)
  BY DEF Tracks, WholeDaemon
<1>2. PICK ds, dc, dn, db, none : ds = d.streamed /\ dc = d.collected /\ dn = d.seen /\ db = d.batch /\ none = <<>>
  OBVIOUS
<1>3. d = [streamed |-> ds, collected |-> dc, seen |-> dn, batch |-> db]
  BY <1>1, <1>2 DEF WholeRecord
<1>4. PICK y : y = q
  OBVIOUS
<1>5. y = [d EXCEPT !.batch = none]
  BY <1>2, <1>4
<1>6. y = [streamed |-> ds, collected |-> dc, seen |-> dn, batch |-> none]
  BY <1>3, <1>5
<1>7. WholeRecord(y) /\ y.batch = none /\ y.streamed = ds /\ y.seen = dn
  BY <1>6 DEF WholeRecord
<1>8. rt = s
  BY DEF Tracks
<1>9. Transcript!Stored(rt, y.batch) = [rows |-> s, open |-> 0]
  BY <1>2, <1>7, <1>8, StoredNothing DEF NoneOpen
<1>10. y.batch \in Seq(Nat)
  BY <1>2, <1>7
<1>11. Tracks(n, k, s, rt, q)
  BY <1>4, <1>7, <1>9, <1>10 DEF Tracks, WholeDaemon, OpenFits
<1>12. Reads(k, s, d) => Reads(k, s, q)
  BY <1>2, <1>4, <1>7 DEF Reads
<1> QED  BY <1>2, <1>4, <1>7, <1>11, <1>12

(* The inductive invariant: as long as nothing has hit the transcript, the *)
(* rows are what was said once the batch is stored, and the daemon reads   *)
(* until the gateway has ended the turn.                                   *)
TalkInv ==
  excused = {} =>
    /\ Tracks(spoken, called, said, rows, daemon)
    /\ reported => daemon.batch = <<>>
    /\ verdict = "none" <=> gateway = "talks"
    /\ verdict = "none" => Reads(called, said, daemon)

LEMMA TalkBegins == Transcript!Init => TalkInv
<1> SUFFICES ASSUME Transcript!Init  PROVE TalkInv
  OBVIOUS
<1>1. PICK s, d : s = <<>> /\ d = [streamed |-> s, collected |-> s, seen |-> {}, batch |-> s]
  OBVIOUS
<1>2. said = s /\ daemon = d /\ rows = s /\ spoken = 0 /\ called = 0
  BY <1>1 DEF Transcript!Init
<1>3. WholeRecord(d) /\ d.streamed = s /\ d.seen = {} /\ d.batch = s
  BY <1>1 DEF WholeRecord
<1>4. Transcript!Stored(s, s) = [rows |-> s, open |-> 0]
  BY <1>1, StoredNothing DEF NoneOpen
<1>5. s \in Seq(Pieces(0)) /\ s \in Seq(Nat) /\ EndWords(s) = s /\ ~InTool(s)
  BY <1>1, EmptySeq DEF EndWords, EndsInText, InTool
<1>6. Tracks(0, 0, s, s, d)
  BY <1>3, <1>4, <1>5 DEF Tracks, WholeDaemon, OpenFits
<1>7. Reads(0, s, d)
  BY <1>3, <1>5 DEF Reads
<1>8. verdict = "none" /\ gateway = "talks"
  BY DEF Transcript!Init
<1> QED  BY <1>1, <1>2, <1>3, <1>6, <1>7, <1>8 DEF TalkInv

(* Longer and Piecewise, in the terms of the lemmas.                       *)
LEMMA LongerIs ==
  /\ Transcript!AtText <=> EndsInText(said)
  /\ Transcript!Pending <=> InTool(said)
  /\ Transcript!Longer = Append(EndWords(said), spoken + 1)
<1>1. Transcript!AtText <=> EndsInText(said)
  BY DEF Transcript!AtText, EndsInText, Transcript!Last
<1>2. Transcript!Pending <=> InTool(said)
  BY DEF Transcript!Pending, InTool, Transcript!Last
<1>3. Transcript!Longer = Append(EndWords(said), spoken + 1)
  <2>1. CASE EndsInText(said)
    BY <1>1, <2>1 DEF Transcript!Longer, EndWords, Transcript!Last
  <2>2. CASE ~EndsInText(said)
    BY <1>1, <2>2 DEF Transcript!Longer, EndWords
  <2> QED  BY <2>1, <2>2
<1> QED  BY <1>1, <1>2, <1>3

LEMMA TalkGoesOn == TalkInv /\ [Transcript!Next]_transcriptVars => TalkInv'
<1> SUFFICES ASSUME TalkInv, [Transcript!Next]_transcriptVars, excused' = {}
             PROVE  TalkInv'
  BY DEF TalkInv
<1>1. CASE UNCHANGED transcriptVars
  BY <1>1 DEF transcriptVars, TalkInv
<1>2. CASE excused # {}
  BY <1>2 DEF Transcript!Next, transcriptVars, Transcript!Say, Transcript!StartOver, Transcript!Answer,
     Transcript!Final, Transcript!Fail, Transcript!Silence, Transcript!Flush, Transcript!FlushLost,
     Transcript!Report, Transcript!Call
<1>3. CASE excused = {} /\ Transcript!Next
  <2>0. /\ Tracks(spoken, called, said, rows, daemon)
        /\ reported => daemon.batch = <<>>
        /\ verdict = "none" <=> gateway = "talks"
        /\ verdict = "none" => Reads(called, said, daemon)
        /\ spoken \in Nat /\ called \in Nat
    BY <1>3 DEF TalkInv, Tracks
  <2>1. CASE Transcript!Say
    <3>1. ~reported /\ verdict = "none" /\ Reads(called, said, daemon)
      BY <2>0, <2>1 DEF Transcript!Say, Transcript!Speaks, Transcript!Talks
    <3>2. Adding(spoken, said, said')
      BY <2>1, LongerIs DEF Transcript!Say, Transcript!Piecewise, Adding
    <3>3. daemon' = Transcript!Snapshot(daemon, Append(EndWords(said), spoken + 1))
      BY <2>1, <3>1, LongerIs DEF Transcript!Say, Transcript!Read, Transcript!Reading
    <3>4. Tracks(spoken + 1, called, said', rows, daemon') /\ Reads(called, said', daemon')
      BY <2>0, <3>1, <3>2, <3>3, SaidFollows
    <3>5. /\ spoken' = spoken + 1 /\ UNCHANGED <<called, gateway, verdict, rows, reported, excused>>
      BY <2>1 DEF Transcript!Say, Transcript!Speaks
    <3> QED  BY <2>0, <3>1, <3>4, <3>5 DEF TalkInv
  <2>2. CASE Transcript!StartOver
    <3>1. ~reported /\ verdict = "none" /\ Reads(called, said, daemon) /\ EndsInText(said)
      BY <2>0, <2>2, LongerIs DEF Transcript!StartOver, Transcript!Speaks, Transcript!Talks
    <3>2. Len(said) = 1
      <4>1. ~(Len(said) > 1)
        BY <2>2 DEF Transcript!StartOver
      <4>2. said \in Seq(Pieces(spoken)) /\ said # <<>>
        BY <2>0, <3>1 DEF Tracks, EndsInText
      <4>3. Len(said) \in Nat \ {0}
        BY <4>2, EmptySeq
      <4> QED  BY <4>1, <4>3
    <3>3. said' = Append(Transcript!Front(said), Transcript!Text(<<spoken + 1>>))
      BY <2>2, <3>1, LongerIs DEF Transcript!StartOver, Transcript!Piecewise
    <3>4. daemon' = Transcript!Snapshot(daemon, <<spoken + 1>>)
      BY <2>2, <3>1 DEF Transcript!StartOver, Transcript!Read, Transcript!Reading
    <3>5. Tracks(spoken + 1, called, said', rows, daemon') /\ Reads(called, said', daemon')
      BY <2>0, <3>1, <3>2, <3>3, <3>4, AnewFollows
    <3>6. /\ spoken' = spoken + 1 /\ UNCHANGED <<called, gateway, verdict, rows, reported>>
      BY <2>2 DEF Transcript!StartOver, Transcript!Speaks
    <3> QED  BY <2>0, <3>1, <3>5, <3>6 DEF TalkInv
  <2>3. CASE \E c \in Commands : Transcript!Call(c)
    <3>1. PICK c \in Commands : Transcript!Call(c)
      BY <2>3
    <3>2. ~reported /\ verdict = "none" /\ Reads(called, said, daemon)
      BY <2>0, <3>1 DEF Transcript!Call, Transcript!Talks
    <3>3. ~Transcript!Contains(said, Transcript!Tool(c))
      BY <3>1 DEF Transcript!Call
    <3>4. /\ said' = Append(said, Transcript!Tool(c))
          /\ daemon' = Transcript!Twice(daemon, Transcript!Tool(c), called + 1)
      BY <3>1, <3>2 DEF Transcript!Call, Transcript!Read, Transcript!Reading
    <3>5. Tracks(spoken, called + 1, said', rows, daemon') /\ Reads(called + 1, said', daemon')
      BY <2>0, <3>2, <3>3, <3>4, CallFollows
    <3>6. /\ called' = called + 1 /\ UNCHANGED <<spoken, gateway, verdict, rows, reported>>
      BY <3>1 DEF Transcript!Call
    <3> QED  BY <2>0, <3>2, <3>5, <3>6 DEF TalkInv
  <2>4. CASE Transcript!Answer
    <3>1. ~reported /\ verdict = "none" /\ Reads(called, said, daemon) /\ InTool(said)
      BY <2>0, <2>4, LongerIs DEF Transcript!Answer, Transcript!Talks
    <3>2. PICK r : r = Transcript!Result(said[Len(said)].command)
      OBVIOUS
    <3>3. said' = Append(said, r) /\ daemon' = Transcript!Twice(daemon, r, called)
      BY <2>4, <3>1, <3>2 DEF Transcript!Answer, Transcript!Read, Transcript!Reading, Transcript!Last
    <3>4. Tracks(spoken, called, said', rows, daemon') /\ Reads(called, said', daemon')
      BY <2>0, <3>1, <3>2, <3>3, AnswerFollows
    <3>5. UNCHANGED <<spoken, called, gateway, verdict, rows, reported>>
      BY <2>4 DEF Transcript!Answer
    <3> QED  BY <2>0, <3>1, <3>4, <3>5 DEF TalkInv
  <2>5. CASE Transcript!Final
    <3>1. verdict = "none" /\ gateway' = "ended" /\ verdict' # "none"
      BY <2>0, <2>5 DEF Transcript!Final, Transcript!Talks, Transcript!Reading, Transcript!Verdict
    <3>2. UNCHANGED <<said, spoken, called, daemon, rows, reported>>
      BY <2>5 DEF Transcript!Final
    <3> QED  BY <2>0, <3>1, <3>2 DEF TalkInv
  <2>6. CASE Transcript!Fail
    <3>1. ~reported /\ verdict = "none" /\ gateway' = "ended" /\ verdict' = "failed"
      BY <2>0, <2>6 DEF Transcript!Fail, Transcript!Speaks, Transcript!Talks, Transcript!Reading
    <3>2. Adding(spoken, said, said')
      BY <2>6, LongerIs DEF Transcript!Fail, Transcript!Piecewise, Adding
    <3>3. daemon' = [daemon EXCEPT !.batch = Append(@, Transcript!TextEvent(<<spoken + 1>>, FALSE))]
      BY <2>6, <3>1 DEF Transcript!Fail, Transcript!Read, Transcript!Reading
    <3>4. Tracks(spoken + 1, called, said', rows, daemon')
      BY <2>0, <3>2, <3>3, FailFollows
    <3>5. spoken' = spoken + 1 /\ UNCHANGED <<called, rows, reported>>
      BY <2>6 DEF Transcript!Fail, Transcript!Speaks
    <3> QED  BY <2>0, <3>1, <3>4, <3>5 DEF TalkInv
  <2>7. CASE Transcript!Flush
    <3>1. /\ daemon' = [daemon EXCEPT !.batch = <<>>] /\ rows' = Transcript!Stored(rows, daemon.batch).rows
          /\ UNCHANGED <<said, spoken, called, gateway, verdict, reported>>
      BY <2>7 DEF Transcript!Flush
    <3>2. /\ Tracks(spoken, called, said, rows', daemon') /\ daemon'.batch = <<>>
          /\ Reads(called, said, daemon) => Reads(called, said, daemon')
      BY <2>0, <3>1, FlushFollows
    <3> QED  BY <2>0, <3>1, <3>2 DEF TalkInv
  <2>8. CASE Transcript!Report
    <3>1. daemon.batch = <<>> /\ UNCHANGED <<said, spoken, called, gateway, daemon, verdict, rows>>
      BY <2>8 DEF Transcript!Report
    <3> QED  BY <2>0, <3>1 DEF TalkInv
  <2>9. CASE Transcript!Silence \/ Transcript!FlushLost
    BY <2>9 DEF Transcript!Silence, Transcript!FlushLost
  <2> QED  BY <1>3, <2>1, <2>2, <2>3, <2>4, <2>5, <2>6, <2>7, <2>8, <2>9 DEF Transcript!Next
<1> QED  BY <1>1, <1>2, <1>3

LEMMA TalkTells == TalkInv => TranscriptIsWhatWasSaid
<1> SUFFICES ASSUME TalkInv, reported, excused = {}  PROVE rows = said
  BY DEF TranscriptIsWhatWasSaid, Transcript!TranscriptIsWhatWasSaid
<1>1. Tracks(spoken, called, said, rows, daemon) /\ daemon.batch = <<>>
  BY DEF TalkInv
<1>2. PICK o : Transcript!Stored(rows, daemon.batch) = [rows |-> said, open |-> o]
  BY <1>1 DEF Tracks
<1>3. Transcript!Stored(rows, daemon.batch) = [rows |-> rows, open |-> 0]
  BY <1>1, StoredNothing DEF NoneOpen
<1> QED  BY <1>2, <1>3

-----------------------------------------------------------------------------
(* The host.                                                               *)
LEMMA HostDesks ==
  /\ HostInit => DeskInv
  /\ DeskInv /\ [HostNext]_hostVars => DeskInv'
<1>1. HostInit => DeskInv
  BY DeskInvInit DEF HostInit
<1>2. DeskInv /\ [HostNext]_hostVars => DeskInv'
  <2>1. [HostNext]_hostVars => [Next]_vars
    BY DEF HostNext, hostVars, deskVars
  <2> QED
    BY <2>1, DeskInvStep
<1> QED
  BY <1>1, <1>2

(* The commits of an agent stay on its branch, and what it has not         *)
(* committed stays in its tree as long as the task keeps its repository:   *)
(* through every change of layout, clone and base, whatever fails, and     *)
(* wherever a turn or the host dies.                                       *)
THEOREM WorkIsKept == HostSpec => []WorkKept
<1>1. HostInit => DeskInv
  BY HostDesks
<1>2. DeskInv /\ [HostNext]_hostVars => DeskInv'
  BY HostDesks
<1>3. DeskInv => WorkKept
  BY DeskInvShows
<1> QED
  BY <1>1, <1>2, <1>3, PTL DEF HostSpec

(* An agent of one repository that is to follow its base and is told "ok"  *)
(* has under its work the base that its turn fetched, however many agents  *)
(* share the clone and whatever they fetch, rebase or push meanwhile.      *)
THEOREM TurnsAreFreshOrSaySo == HostSpec => []FreshOrSaid
<1>1. HostInit => DeskInv
  BY HostDesks
<1>2. DeskInv /\ [HostNext]_hostVars => DeskInv'
  BY HostDesks
<1>3. DeskInv => FreshOrSaid
  BY DeskInvShows
<1> QED
  BY <1>1, <1>2, <1>3, PTL DEF HostSpec

(* A turn that connects finds OpenClaw set up for it, however many came    *)
(* before it, failed half-way or were cut off by a restart, unless turns   *)
(* overlapped, or a call took effect after it was given up.                *)
THEOREM TurnsFindTheirSetup == HostSpec => []SetUpForTheTurn
<1>1. HostInit => SetupInv
  BY SetupInvInit DEF HostInit
<1>2. SetupInv /\ [HostNext]_hostVars => SetupInv'
  <2>1. [HostNext]_hostVars => [Gateway!Next]_gatewayVars
    BY DEF HostNext, hostVars
  <2> QED
    BY <2>1, SetupInvStep
<1>3. SetupInv => SetUpForTheTurn
  BY SetupInvShows
<1> QED
  BY <1>1, <1>2, <1>3, PTL DEF HostSpec

(* A finished turn shows in the chat what the agent said and did, piece by *)
(* piece and in its order, however the gateway repeats and starts over and *)
(* however the events fall into batches, unless a post was lost, the       *)
(* gateway fell silent, a command was given twice or a piece was started   *)
(* over after a tool.                                                      *)
THEOREM TranscriptsTell == HostSpec => []TranscriptIsWhatWasSaid
<1>1. HostInit => TalkInv
  BY TalkBegins DEF HostInit
<1>2. TalkInv /\ [HostNext]_hostVars => TalkInv'
  <2>1. [HostNext]_hostVars => [Transcript!Next]_transcriptVars
    BY DEF HostNext, hostVars
  <2> QED
    BY <2>1, TalkGoesOn
<1>3. TalkInv => TranscriptIsWhatWasSaid
  BY TalkTells
<1> QED
  BY <1>1, <1>2, <1>3, PTL DEF HostSpec
===============================================================================
