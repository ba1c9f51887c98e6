----------------------------- MODULE Workspaces -----------------------------
(***************************************************************************)
(* The working trees of the agents (daemon/core.py _ensure_worktree,       *)
(* sources.py).  A desk is an agent's place for one task, a directory and  *)
(* a branch; every repository of the project has one bare clone on the     *)
(* daemon's host, of which each desk is a worktree.  A task that names a   *)
(* repository has its tree at the root of the desk; one that names none    *)
(* has the trees of all repositories side by side below it.                *)
(*                                                                         *)
(* A turn provisions its desk in git commands, between which the daemon    *)
(* may die.  A branch is the version of the base it contains, and how many *)
(* commits of the agent; turns on one desk follow one another.             *)
(***************************************************************************)
EXTENDS Integers, FiniteSets

CONSTANTS
  Desks, Repos,
  All,           \* a task that names no repository
  Freshness,     \* Freshness[r]: worktree_freshness of the repository
  MaxBase,       \* bound: versions of the base
  MaxCommits,    \* bound: commits of an agent on a branch
  MaxMoves,      \* bound: times that people change a task's repository
  MaxFaults      \* bound: failing commands, deaths of the daemon

ASSUME WorkspacesAssumption ==
  /\ All \notin Repos /\ "no" \notin Repos \cup {All}
  /\ Freshness \in [Repos -> {"always_latest", "new_only", "pinned"}]
  /\ MaxBase \in Nat /\ MaxCommits \in Nat \ {0} /\ MaxMoves \in Nat /\ MaxFaults \in Nat

VARIABLES
  base,      \* base[r]: of the remote
  clone,     \* clone[r]: the daemon's
  desk,      \* desk[d][r]
  pin,       \* pin[d]: the task's repo_name, or All
  turn,      \* turn[d]
  moves, faults

vars == <<base, clone, desk, pin, turn, moves, faults>>

Places  == {"none", "root", "sub"}
NoRef   == -1
Version == 0..MaxBase
Count   == 0..MaxCommits

Clone  == [state  : {"none", "bare", "ready", "legacy"},   \* ready: it has a fetch refspec
           head   : Version,                               \* of the base when it was cloned
           origin : {NoRef} \cup Version]                  \* origin/<base>
NoClone == [state |-> "none", head |-> 0, origin |-> NoRef]

Desk == [branch : BOOLEAN, base : Version, commits : Count,
         pushed : Count, pushedBase : Version,
         tree   : Places,                  \* where the working tree is
         listed : Places,                  \* where the clone believes it is
         dirty  : BOOLEAN,
         made   : Count,                   \* history: commits that count
         left   : Repos \cup {All, "no"}]  \* history: uncommitted work, of this layout
NoDesk == [branch |-> FALSE, base |-> 0, commits |-> 0, pushed |-> 0, pushedBase |-> 0,
           tree |-> "none", listed |-> "none", dirty |-> FALSE, made |-> 0, left |-> "no"]

Turn == [pc     : {"idle", "clone", "configure", "clear", "add", "freshen", "work"},
         at     : Repos \cup {All},        \* the layout of its frame
         todo   : SUBSET Repos, repo : Repos \cup {All},
         reason : {"ok", "recreated", "kept_base", "pinned", "used_head", "multi_repo"},
         got    : Version]                 \* history: the base it fetched
NoTurn == [pc |-> "idle", at |-> All, todo |-> {}, repo |-> All, reason |-> "ok", got |-> 0]

-----------------------------------------------------------------------------
At(d, pc) == turn[d].pc = pc
Repo(d)   == turn[d].repo
Here(d)   == desk[d][turn[d].repo]
Place(d)  == IF turn[d].at = All THEN "sub" ELSE "root"
Fault     == faults < MaxFaults /\ faults' = faults + 1

Goes(d, pc) == turn' = [turn EXCEPT ![d].pc = pc]

(* _post_setup_failure, after an exception.                                *)
Fails(d) == turn' = [turn EXCEPT ![d] = NoTurn]

(* A desk that an earlier version of the daemon has left.                  *)
Inherited(dirty) == [NoDesk EXCEPT !.branch = TRUE, !.commits = 1, !.made = 1,
                                   !.tree = "root", !.listed = "root", !.dirty = dirty]

Init ==
  /\ base = [r \in Repos |-> 0] /\ pin \in [Desks -> Repos \cup {All}]
  /\ \/ /\ clone = [r \in Repos |-> NoClone]
        /\ desk = [d \in Desks |-> [r \in Repos |-> NoDesk]]
     \/ \E r \in Repos, dirty \in BOOLEAN :
          /\ clone = [q \in Repos |-> IF q = r THEN [NoClone EXCEPT !.state = "legacy"] ELSE NoClone]
          /\ desk = [d \in Desks |-> [q \in Repos |->
                       IF q = r /\ pin[d] = r THEN Inherited(dirty) ELSE NoDesk]]
  /\ turn = [d \in Desks |-> NoTurn] /\ moves = 0 /\ faults = 0

(* dispatch_pending_run lays the desk out.                                 *)
Begin(d) ==
  /\ At(d, "idle")
  /\ \E r \in Repos :
       /\ pin[d] \in {r, All}
       /\ turn' = [turn EXCEPT ![d] = [NoTurn EXCEPT !.pc = "clone", !.at = pin[d], !.repo = r,
                     !.todo = IF pin[d] = All THEN Repos \ {r} ELSE {}]]
  /\ UNCHANGED <<base, clone, desk, pin, moves, faults>>

-----------------------------------------------------------------------------
(* ensure_source_clone, under the lock of the clone.                       *)
Unlocked(d) == ~\E e \in Desks \ {d} : At(e, "configure") /\ Repo(e) = Repo(d)

(* The clone is there: it is fetched, or not, which nobody is told.        *)
Fetch(d) ==
  LET r == Repo(d) IN
  /\ At(d, "clone") /\ Unlocked(d) /\ clone[r].state \in {"bare", "ready"}
  /\ \/ /\ clone' = [clone EXCEPT ![r].origin = IF clone[r].state = "ready" THEN base[r] ELSE @]
        /\ turn' = [turn EXCEPT ![d].pc = "clear", ![d].got = base[r]]
        /\ UNCHANGED faults
     \/ Fault /\ Goes(d, "clear") /\ UNCHANGED clone
  /\ UNCHANGED <<base, desk, pin, moves>>

(* A clone with a working tree is discarded, with every branch that was    *)
(* not pushed, and all desks on it lose their administration.              *)
Recloned(r) ==
  [d \in Desks |-> [desk[d] EXCEPT ![r] =
     LET k == desk[d][r] IN
     [k EXCEPT !.branch = k.pushed > 0, !.base = k.pushedBase, !.commits = k.pushed,
               !.listed = "none", !.made = k.pushed, !.left = "no"]]]
CloneBare(d) ==
  LET r == Repo(d) IN
  /\ At(d, "clone") /\ Unlocked(d) /\ clone[r].state \in {"none", "legacy"}
  /\ desk' = Recloned(r)
  /\ \/ /\ clone' = [clone EXCEPT ![r] = [state |-> "bare", head |-> base[r], origin |-> NoRef]]
        /\ Goes(d, "configure") /\ UNCHANGED faults
     \/ Fault /\ Fails(d) /\ clone' = [clone EXCEPT ![r] = NoClone]
  /\ UNCHANGED <<base, pin, moves>>

(* The refspec and the first fetch; neither is checked.                    *)
Configure(d) ==
  LET r == Repo(d) IN
  /\ At(d, "configure")
  /\ \/ /\ clone' = [clone EXCEPT ![r].state = "ready", ![r].origin = base[r]]
        /\ turn' = [turn EXCEPT ![d].pc = "clear", ![d].got = base[r]]
        /\ UNCHANGED faults
     \/ /\ Fault /\ Goes(d, "clear")
        /\ clone' \in {clone, [clone EXCEPT ![r].state = "ready"]}
  /\ UNCHANGED <<base, desk, pin, moves>>

-----------------------------------------------------------------------------
(* _ensure_worktree.                                                       *)

(* The worktree at the target is this clone's: it is used again.           *)
Reused(d) == Here(d).tree = Place(d) /\ Here(d).listed = Place(d)
Reuse(d) ==
  /\ At(d, "clear") /\ Reused(d) /\ Goes(d, "freshen")
  /\ UNCHANGED <<base, clone, desk, pin, moves, faults>>

(* Something else is in the way.  A worktree of another clone at the       *)
(* target is removed (that clone, being bare, is not told); so is the one  *)
(* that holds the branch elsewhere, and a directory that is no worktree.   *)
(* Removing the root removes what is below.                                *)
Cleared(d) ==
  LET elsewhere == Here(d).listed \notin {"none", Place(d)}
      root      == Place(d) = "root" \/ Here(d).listed = "root" IN
  [desk EXCEPT ![d] = [r \in Repos |->
     IF r # Repo(d) /\ ~root THEN desk[d][r]
     ELSE [desk[d][r] EXCEPT !.tree = "none", !.dirty = FALSE,
                             !.listed = IF r = Repo(d) /\ elsewhere THEN "none" ELSE @]]]
InTheWay(d) == IF Place(d) = "root" THEN \E r \in Repos : desk[d][r].tree = "root"
               ELSE Here(d).tree = "sub"
Clear(d) ==
  /\ At(d, "clear") /\ ~Reused(d)
  /\ desk' = Cleared(d)
  /\ turn' = [turn EXCEPT ![d].pc = "add", ![d].reason = IF InTheWay(d) THEN "recreated" ELSE @]
  /\ UNCHANGED <<base, clone, pin, moves, faults>>

(* The first reason that is not ok stays.                                  *)
Reason(d, reason) == IF turn[d].reason = "ok" THEN reason ELSE turn[d].reason

(* On to the next repository, or to the agent, which of several            *)
(* repositories learns nothing.                                            *)
Onward(d, reason) ==
  IF turn[d].todo = {}
  THEN turn' = [turn EXCEPT ![d].pc = "work",
                            ![d].reason = IF turn[d].at = All THEN "multi_repo" ELSE reason]
  ELSE \E r \in turn[d].todo :
         turn' = [turn EXCEPT ![d].pc = "clone", ![d].repo = r, ![d].todo = @ \ {r},
                              ![d].reason = "ok"]

(* git refuses a path that it has registered and that is missing.          *)
Registered(d) == Here(d).listed = Place(d)

(* Mutant of HasBranch: the branch is always cut anew.                     *)
HasBranchNever(d) == FALSE

HasBranch(d) == Here(d).branch

Added(d, version) ==
  [desk EXCEPT ![d][Repo(d)] =
     [@ EXCEPT !.tree = Place(d), !.listed = Place(d), !.branch = TRUE, !.base = version,
               !.commits = 0]]
AddFails(d) ==
  /\ At(d, "add") /\ Fails(d)
  /\ IF Registered(d) THEN UNCHANGED faults ELSE Fault
  /\ UNCHANGED <<base, clone, desk, pin, moves>>
AddKnown(d) ==
  /\ At(d, "add") /\ ~Registered(d) /\ HasBranch(d)
  /\ desk' = [desk EXCEPT ![d][Repo(d)].tree = Place(d), ![d][Repo(d)].listed = Place(d)]
  /\ Goes(d, "freshen")
  /\ UNCHANGED <<base, clone, pin, moves, faults>>
AddNew(d) ==
  LET c == clone[Repo(d)]  pinned == Freshness[Repo(d)] = "pinned" IN
  /\ At(d, "add") /\ ~Registered(d) /\ ~HasBranch(d)
  /\ IF pinned \/ c.origin = NoRef
     THEN desk' = Added(d, c.head) /\ Onward(d, Reason(d, IF pinned THEN "pinned" ELSE "used_head"))
     ELSE desk' = Added(d, c.origin) /\ Onward(d, Reason(d, "ok"))
  /\ UNCHANGED <<base, clone, pin, moves, faults>>

(* Mutant of Aborted: the aborted rebase is not told.                      *)
AbortedQuietly == "ok"

(* _freshen: a rebase that does not go through is aborted, and that is     *)
(* the reason given.  One that meets uncommitted work or no base does not. *)
Aborted == "kept_base"
Latest(d) == Freshness[Repo(d)] = "always_latest"
Rebases(d) ==
  /\ clone[Repo(d)].origin # NoRef /\ ~Here(d).dirty
Freshen(d) ==
  LET k == Here(d)  onto == clone[Repo(d)].origin IN
  /\ At(d, "freshen")
  /\ \/ /\ ~Latest(d) /\ UNCHANGED desk
        /\ Onward(d, Reason(d, IF Freshness[Repo(d)] = "pinned" THEN "pinned" ELSE "ok"))
     \/ /\ Latest(d) /\ Rebases(d)
        /\ desk' = [desk EXCEPT ![d][Repo(d)].base = IF @ < onto THEN onto ELSE @]
        /\ Onward(d, Reason(d, "ok"))
     \/ /\ Latest(d) /\ (Rebases(d) => k.base < onto /\ k.commits > 0)
        /\ UNCHANGED desk /\ Onward(d, Reason(d, Aborted))
  /\ UNCHANGED <<base, clone, pin, moves, faults>>

-----------------------------------------------------------------------------
(* The agent at work, in a tree that git knows.                            *)
AtWork(d, r) == /\ At(d, "work") /\ turn[d].at \in {r, All}
                /\ desk[d][r].tree = Place(d) /\ desk[d][r].listed = Place(d)
Edit(d, r) ==
  /\ AtWork(d, r) /\ ~desk[d][r].dirty /\ desk[d][r].commits < MaxCommits
  /\ desk' = [desk EXCEPT ![d][r].dirty = TRUE, ![d][r].left = turn[d].at]
  /\ UNCHANGED <<base, clone, pin, turn, moves, faults>>
Commit(d, r) ==
  /\ AtWork(d, r) /\ desk[d][r].dirty
  /\ desk[d][r].commits < MaxCommits /\ desk[d][r].made < MaxCommits
  /\ desk' = [desk EXCEPT ![d][r].dirty = FALSE, ![d][r].left = "no",
                          ![d][r].commits = @ + 1, ![d][r].made = @ + 1]
  /\ UNCHANGED <<base, clone, pin, turn, moves, faults>>
Push(d, r) ==
  /\ AtWork(d, r) /\ desk[d][r].commits > 0
  /\ desk' = [desk EXCEPT ![d][r].pushed = desk[d][r].commits, ![d][r].pushedBase = desk[d][r].base]
  /\ UNCHANGED <<base, clone, pin, turn, moves, faults>>
End(d) ==
  /\ At(d, "work") /\ Fails(d)
  /\ UNCHANGED <<base, clone, desk, pin, moves, faults>>

(* People give the task another repository: what was not committed is      *)
(* theirs to lose ("stale-by-definition").                                 *)
Move(d, p) ==
  /\ pin[d] # p /\ moves < MaxMoves /\ moves' = moves + 1
  /\ pin' = [pin EXCEPT ![d] = p]
  /\ desk' = [desk EXCEPT ![d] = [r \in Repos |-> [desk[d][r] EXCEPT !.left = "no"]]]
  /\ UNCHANGED <<base, clone, turn, faults>>
BaseMoves(r) ==
  /\ base[r] < MaxBase /\ base' = [base EXCEPT ![r] = @ + 1]
  /\ UNCHANGED <<clone, desk, pin, turn, moves, faults>>
Death ==
  /\ Fault /\ turn' = [d \in Desks |-> NoTurn]
  /\ UNCHANGED <<base, clone, desk, pin, moves>>

Next ==
  \/ Death \/ \E r \in Repos : BaseMoves(r)
  \/ \E d \in Desks :
       \/ Begin(d) \/ Fetch(d) \/ CloneBare(d) \/ Configure(d)
       \/ Reuse(d) \/ Clear(d) \/ AddFails(d) \/ AddKnown(d) \/ AddNew(d) \/ Freshen(d)
       \/ End(d) \/ \E p \in Repos \cup {All} : Move(d, p)
       \/ \E r \in Repos : Edit(d, r) \/ Commit(d, r) \/ Push(d, r)

Spec == Init /\ [][Next]_vars

-----------------------------------------------------------------------------
TypeOK ==
  /\ base \in [Repos -> Version] /\ clone \in [Repos -> Clone]
  /\ desk \in [Desks -> [Repos -> Desk]] /\ pin \in [Desks -> Repos \cup {All}]
  /\ turn \in [Desks -> Turn] /\ moves \in 0..MaxMoves /\ faults \in 0..MaxFaults

(* No provisioning loses an agent's work: its commits stay on its branch   *)
(* through every change of layout, clone and base, and what it has not     *)
(* committed stays in its tree as long as the task keeps its repository,   *)
(* whatever fails or dies in between ("no `-B` reset", "keep the work on   *)
(* its old base").                                                         *)
WorkKept ==
  \A d \in Desks, r \in Repos :
    /\ desk[d][r].commits = desk[d][r].made
    /\ desk[d][r].left = pin[d] => desk[d][r].dirty

(* An agent that is told "ok" has the base that its turn fetched under its *)
(* work; a rebase that conflicted, met uncommitted work or found no base   *)
(* is told ("flag it so the run badge can warn").  Not so in a desk of     *)
(* several repositories, of which nothing is told.                         *)
FreshOrSaid ==
  \A d \in Desks :
    LET r == turn[d].at IN
    At(d, "work") /\ r \in Repos /\ turn[d].reason = "ok"
      => (Freshness[r] = "always_latest" => desk[d][r].base >= turn[d].got)

(* "Create / repair a git worktree ... Never crashes the dispatch": no     *)
(* path is in the way that git refuses for good.  TLC refutes this.        *)
DeskRepaired == \A d \in Desks : At(d, "add") => ~Registered(d)
=============================================================================
