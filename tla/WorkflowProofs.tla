---------------------------- MODULE WorkflowProofs ----------------------------
(***************************************************************************)
(* Theorems about Workflow, for any number of agents, requests at once,    *)
(* merges, turns and pushes, every budget of attempts and every set of     *)
(* faults.                                                                 *)
(***************************************************************************)
EXTENDS Workflow, SequenceTheorems, TLAPS

-----------------------------------------------------------------------------
(* What gets merged.                                                       *)

(* The merge is pinned to a head that passed, so what is merged passed.    *)
THEOREM MergedHeadIsVerified == Spec => []MergedIsVerified
<1>1. Init => MergedIsVerified
  BY DEF Init, MergedIsVerified
<1>2. MergedIsVerified /\ [Next]_vars => MergedIsVerified'
  <2> SUFFICES ASSUME MergedIsVerified, [Next]_vars PROVE MergedIsVerified'
    OBVIOUS
  <2>1. ASSUME NEW j \in Jobs, VerifyPasses(j) PROVE MergedIsVerified'
    BY <2>1 DEF VerifyPasses, MergedIsVerified
  <2>2. ASSUME NEW j \in Jobs, MergePR(j) PROVE MergedIsVerified'
    BY <2>2 DEF MergePR, PinHolds, MergedIsVerified
  <2>3. CASE UNCHANGED <<merged, proved>>
    BY <2>3 DEF MergedIsVerified
  <2> QED
    BY <2>1, <2>2, <2>3 DEF Next, vars, Work, Reject, TurnEnds, SubmitReview, Finish,
       HumanMove, ManualDispatch, Drive, Log, Send, Move, Assign, Dispatch,
       CompleteIntegration, ReadPR, VerifyFails, AnswerLost, Crash
<1> QED
  BY <1>1, <1>2, PTL DEF Spec

-----------------------------------------------------------------------------
(* Who closes the task.                                                    *)

(* A request for the merge, on the driver's way to it or sent, is about a  *)
(* linked pull request; a request that drives a turn or logs after a       *)
(* dispatch has no column of its own to move to.                           *)
ThreadInv(d) ==
  LET t == thread[d] IN
  /\ t.pc = "drive" => t.col = "todo" /\ t.then = "idle" /\ t.by # Nobody
  /\ t.then = "log" => t.col = "todo"
  /\ t.pc = "send" => t.col = "done"
  /\ t.pc \in {"log", "send"} /\ t.col = "done" => head # 0
  /\ t.pc = "move" /\ t.col = "done" => merged # 0
  /\ t.pc \in {"assign", "dispatch"} => t.to # Nobody

(* A merge was asked for while a pull request was linked, checks a head    *)
(* that exists, and answers "ok" only of one that is merged.               *)
JobInv(j) ==
  /\ job[j].st = "sent" => head # 0
  /\ job[j].st = "read" => job[j].head # 0
  /\ job[j].st = "ok" => merged # 0

WorkflowInv ==
  /\ \A d \in Threads : ThreadInv(d)
  /\ \A j \in Jobs : JobInv(j)
  /\ ClosedMeansMerged

(* A linked pull request stays linked, a merged one stays merged.          *)
LEMMA Grows ==
  ASSUME TypeOK, WorkflowInv, [Next]_vars
  PROVE  (head # 0 => head' # 0) /\ (merged # 0 => merged' # 0)
<1>1. head \in Nat
  BY BoundAssumption DEF TypeOK
<1>2. ASSUME NEW a \in Agents, Work(a)
      PROVE  (head # 0 => head' # 0) /\ (merged # 0 => merged' # 0)
  BY <1>1, <1>2 DEF Work
<1>3. ASSUME NEW j \in Jobs, MergePR(j)
      PROVE  (head # 0 => head' # 0) /\ (merged # 0 => merged' # 0)
  BY <1>3 DEF MergePR, PinHolds, task
<1>4. CASE UNCHANGED <<head, merged>>
  BY <1>4
<1>5. CASE \E a \in Agents, v \in Verdicts : SubmitReview(a, v)
  BY <1>5 DEF SubmitReview, task
<1> QED
  BY <1>2, <1>3, <1>4, <1>5 DEF Next, vars, task, Reject, TurnEnds, Finish, MoveTo,
     HumanMove, ManualDispatch, Drive, Log, Send, Move, Assign, Dispatch, Integrated,
     HandedBack, StaysPut, CompleteIntegration, ReadPR, VerifyPasses, VerifyFails,
     AnswerLost, Crash

(* A request that does not move in a step stays what it was.               *)
LEMMA ThreadStays ==
  ASSUME TypeOK, WorkflowInv, [Next]_vars, NEW d \in Threads, thread'[d] = thread[d]
  PROVE  ThreadInv(d)'
BY Grows DEF WorkflowInv, ThreadInv

LEMMA JobStays ==
  ASSUME TypeOK, WorkflowInv, [Next]_vars, NEW j \in Jobs, job'[j] = job[j]
  PROVE  JobInv(j)'
BY Grows DEF WorkflowInv, JobInv

(* A request that moves on to r: what is left to show is about r.          *)
LEMMA ThreadMoves ==
  ASSUME TypeOK, WorkflowInv, [Next]_vars, NEW d \in Threads, NEW r, Goes(d, r),
         r.pc = "drive" => r.col = "todo" /\ r.then = "idle" /\ r.by # Nobody,
         r.then = "log" => r.col = "todo",
         r.pc = "send" => r.col = "done",
         r.pc \in {"log", "send"} /\ r.col = "done" => head' # 0,
         r.pc = "move" /\ r.col = "done" => merged' # 0,
         r.pc \in {"assign", "dispatch"} => r.to # Nobody
  PROVE  \A e \in Threads : ThreadInv(e)'
<1> SUFFICES ASSUME NEW e \in Threads PROVE ThreadInv(e)'
  OBVIOUS
<1>1. CASE e = d
  <2>1. thread'[e] = r
    BY <1>1 DEF Goes, TypeOK
  <2> QED
    BY <2>1 DEF ThreadInv
<1>2. CASE e # d
  <2>1. thread'[e] = thread[e]
    BY <1>2 DEF Goes, TypeOK
  <2> QED
    BY <2>1, ThreadStays
<1> QED
  BY <1>1, <1>2

(* Whatever the driver decides, it moves its request on as it should.      *)
LEMMA DecisionMoves ==
  ASSUME TypeOK, WorkflowInv, [Next]_vars, NEW d \in Threads, thread[d].pc = "drive",
         NEW a \in Agents, Decision(d, a)
  PROVE  \A e \in Threads : ThreadInv(e)'
<1> DEFINE t == [thread[d] EXCEPT !.said = run[a].said]
<1>1. /\ thread[d] \in Thread /\ t \in Thread /\ t.pc = "drive" /\ t.col = "todo" /\ t.then = "idle"
  BY ZenonT(40) DEF WorkflowInv, ThreadInv, TypeOK, Thread, Row
<1>2. a # Nobody
  BY RoleAssumption
<1>3. \/ Goes(d, Idle)
      \/ Goes(d, [t EXCEPT !.pc = "log"])
      \/ /\ HandBackTo(a) # Nobody
         /\ Goes(d, [t EXCEPT !.pc = "assign", !.to = HandBackTo(a), !.then = "log"])
      \/ Goes(d, [t EXCEPT !.pc = "dispatch", !.to = a, !.then = "log"])
      \/ Evidence /\ Goes(d, [t EXCEPT !.pc = "log", !.col = "done"])
      \/ \E b : Goes(d, [t EXCEPT !.pc = "log", !.to = b, !.col = "review"])
  BY DEF Decision, Over, Bounced
<1> HIDE DEF t
<1>4. CASE Goes(d, Idle)
  BY <1>4, ThreadMoves DEF Idle
<1>5. CASE Goes(d, [t EXCEPT !.pc = "log"])
  <2> DEFINE r == [t EXCEPT !.pc = "log"]
  <2>1. r.pc = "log" /\ r.col = "todo"
    BY <1>1 DEF Thread
  <2> HIDE DEF r
  <2> QED
    BY <1>5, <2>1, ThreadMoves DEF r
<1>6. CASE /\ HandBackTo(a) # Nobody
           /\ Goes(d, [t EXCEPT !.pc = "assign", !.to = HandBackTo(a), !.then = "log"])
  <2> DEFINE r == [t EXCEPT !.pc = "assign", !.to = HandBackTo(a), !.then = "log"]
  <2>1. r.pc = "assign" /\ r.col = "todo" /\ r.to # Nobody
    BY <1>1, <1>6 DEF Thread
  <2> HIDE DEF r
  <2> QED
    BY <1>6, <2>1, ThreadMoves DEF r
<1>7. CASE Goes(d, [t EXCEPT !.pc = "dispatch", !.to = a, !.then = "log"])
  <2> DEFINE r == [t EXCEPT !.pc = "dispatch", !.to = a, !.then = "log"]
  <2>1. r.pc = "dispatch" /\ r.col = "todo" /\ r.to # Nobody
    BY <1>1, <1>2 DEF Thread
  <2> HIDE DEF r
  <2> QED
    BY <1>7, <2>1, ThreadMoves DEF r
<1>8. CASE Evidence /\ Goes(d, [t EXCEPT !.pc = "log", !.col = "done"])
  <2> DEFINE r == [t EXCEPT !.pc = "log", !.col = "done"]
  <2>1. head # 0 /\ head' # 0
    BY <1>8, Grows, BoundAssumption DEF Evidence, TypeOK
  <2>2. r.pc = "log" /\ r.then = "idle"
    BY <1>1 DEF Thread
  <2> HIDE DEF r
  <2> QED
    BY <1>8, <2>1, <2>2, ThreadMoves DEF r
<1>9. ASSUME NEW b, Goes(d, [t EXCEPT !.pc = "log", !.to = b, !.col = "review"])
      PROVE  \A e \in Threads : ThreadInv(e)'
  <2> DEFINE r == [t EXCEPT !.pc = "log", !.to = b, !.col = "review"]
  <2>1. r.pc = "log" /\ r.col = "review" /\ r.then = "idle"
    BY <1>1 DEF Thread
  <2> HIDE DEF r
  <2> QED
    BY <1>9, <2>1, ThreadMoves DEF r
<1> QED
  BY <1>3, <1>4, <1>5, <1>6, <1>7, <1>8, <1>9

(* Each step of a request keeps what is known of requests.                 *)
LEMMA RequestMoves ==
  ASSUME TypeOK, WorkflowInv, [Next]_vars, NEW d \in Threads,
         \/ \E a \in Agents : Finish(d, a)
         \/ \E c \in Columns : HumanMove(d, c)
         \/ ManualDispatch(d) \/ Drive(d) \/ Log(d) \/ Send(d)
         \/ Move(d) \/ Assign(d) \/ Dispatch(d)
         \/ \E j \in Jobs : CompleteIntegration(d, j)
  PROVE  \A e \in Threads : ThreadInv(e)'
<1> DEFINE t == thread[d]
<1>1. t \in Thread /\ ThreadInv(d) /\ Idle.pc = "idle" /\ Idle.then = "idle" /\ Idle.col = "todo"
  BY DEF WorkflowInv, TypeOK, Idle
<1>0. CASE Over(d)
  BY <1>0, <1>1, ThreadMoves DEF Over
<1>2. ASSUME NEW a \in Agents, Finish(d, a) PROVE \A e \in Threads : ThreadInv(e)'
  <2> DEFINE r == [Idle EXCEPT !.pc = "drive", !.by = a, !.id = run[a].id]
  <2>1. r.pc = "drive" /\ r.col = "todo" /\ r.then = "idle" /\ r.by # Nobody
    BY RoleAssumption DEF Idle
  <2>2. Goes(d, r)
    BY <1>2 DEF Finish
  <2> HIDE DEF r
  <2> QED
    BY <2>1, <2>2, ThreadMoves
<1>3. ASSUME NEW c \in Columns, HumanMove(d, c) PROVE \A e \in Threads : ThreadInv(e)'
  <2> DEFINE r == [Idle EXCEPT !.pc = "manual", !.col = c]
  <2>1. r.pc = "manual" /\ r.then = "idle"
    BY DEF Idle
  <2>2. Goes(d, r)
    BY <1>3 DEF HumanMove
  <2> HIDE DEF r
  <2> QED
    BY <2>1, <2>2, ThreadMoves
<1>4. CASE ManualDispatch(d)
  <2>1. ASSUME NEW b, NEW pc \in {"dispatch", "assign"}, b # Nobody,
               Goes(d, [thread[d] EXCEPT !.to = b, !.pc = pc])
        PROVE  \A e \in Threads : ThreadInv(e)'
    <3> DEFINE r == [thread[d] EXCEPT !.to = b, !.pc = pc]
    <3>1. r.pc = pc /\ r.then = t.then /\ r.col = t.col /\ r.to # Nobody
      BY <1>1, <2>1 DEF Thread
    <3>2. t.then = "log" => t.col = "todo"
      BY <1>1 DEF ThreadInv
    <3> HIDE DEF r
    <3> QED
      BY <2>1, <3>1, <3>2, ThreadMoves DEF r
  <2> QED
    BY <1>0, <1>4, <2>1 DEF ManualDispatch
<1>5. CASE Drive(d)
  <2>1. t.by \in Agents
    BY <1>1, <1>5 DEF Drive, ThreadInv, Thread
  <2> QED
    BY <1>0, <1>5, <2>1, DecisionMoves DEF Drive
<1>6. ASSUME NEW pc, Goes(d, [thread[d] EXCEPT !.pc = pc]), pc \notin {"drive", "idle"},
             pc = "send" => t.col = "done",
             pc \in {"log", "send"} /\ t.col = "done" => head' # 0,
             pc = "move" /\ t.col = "done" => merged' # 0,
             pc \in {"assign", "dispatch"} => t.to # Nobody
      PROVE  \A e \in Threads : ThreadInv(e)'
  <2> DEFINE r == [thread[d] EXCEPT !.pc = pc]
  <2>1. r.pc = pc /\ r.then = t.then /\ r.col = t.col /\ r.to = t.to
    BY <1>1 DEF Thread
  <2>2. t.then = "log" => t.col = "todo"
    BY <1>1 DEF ThreadInv
  <2> HIDE DEF r
  <2> QED
    BY <1>6, <2>1, <2>2, ThreadMoves DEF r
<1>7. CASE Log(d)
  <2>1. AfterLog(t) = "send" => t.col = "done" /\ head' # 0
    BY <1>1, <1>7, Grows DEF Log, AfterLog, ThreadInv
  <2>2. AfterLog(t) = "move" => t.col # "done"
    BY DEF AfterLog
  <2>3. AfterLog(t) \in {"send", "move", "idle"}
    BY DEF AfterLog
  <2> QED
    BY <1>0, <1>6, <1>7, <2>1, <2>2, <2>3 DEF Log, Becomes
<1>8. CASE Send(d)
  BY <1>0, <1>8 DEF Send
<1>9. CASE Move(d)
  BY <1>0, <1>6, <1>9 DEF Move, Becomes
<1>10. CASE Assign(d)
  BY <1>1, <1>6, <1>10 DEF Assign, Becomes, ThreadInv
<1>11. CASE Dispatch(d)
  <2>1. t.then \in {"idle", "log"} /\ (t.then = "log" => t.col = "todo")
    BY <1>1 DEF Thread, ThreadInv
  <2> QED
    BY <1>0, <1>6, <1>11, <2>1 DEF Dispatch, Becomes
<1>12. ASSUME NEW j \in Jobs, CompleteIntegration(d, j) PROVE \A e \in Threads : ThreadInv(e)'
  <2>1. CASE Integrated(d, j)
    <3>1. PICK w : Goes(d, [Idle EXCEPT !.pc = "move", !.col = NextColumn(column),
                                        !.skip = TRUE, !.to = w])
      BY <2>1 DEF Integrated
    <3> DEFINE r == [Idle EXCEPT !.pc = "move", !.col = NextColumn(column),
                                 !.skip = TRUE, !.to = w]
    <3>2. r.pc = "move" /\ r.then = "idle"
      BY DEF Idle
    <3>3. merged' # 0
      BY <2>1, Grows DEF Integrated, WorkflowInv, JobInv
    <3> HIDE DEF r
    <3> QED
      BY <3>1, <3>2, <3>3, ThreadMoves DEF r
  <2>2. CASE HandedBack(d, j)
    <3> DEFINE b == HandBackTo(job[j].by)
               k == [Idle EXCEPT !.by = job[j].by, !.id = job[j].id, !.then = "log"]
    <3>1. \/ Goes(d, [k EXCEPT !.pc = "log"])
          \/ b # Nobody /\ Goes(d, [k EXCEPT !.pc = "assign", !.to = b])
      BY <2>2 DEF HandedBack
    <3>2. /\ [k EXCEPT !.pc = "log"].pc = "log" /\ [k EXCEPT !.pc = "log"].col = "todo"
          /\ [k EXCEPT !.pc = "assign", !.to = b].pc = "assign"
          /\ [k EXCEPT !.pc = "assign", !.to = b].to = b
          /\ [k EXCEPT !.pc = "assign", !.to = b].col = "todo"
      BY DEF Idle
    <3> HIDE DEF k, b
    <3>3. CASE Goes(d, [k EXCEPT !.pc = "log"])
      BY <3>2, <3>3, ThreadMoves
    <3>4. CASE b # Nobody /\ Goes(d, [k EXCEPT !.pc = "assign", !.to = b])
      BY <3>2, <3>4, ThreadMoves
    <3> QED
      BY <3>1, <3>3, <3>4
  <2>3. CASE StaysPut(d, j)
    BY <2>3, ThreadStays DEF StaysPut
  <2> QED
    BY <1>12, <2>1, <2>2, <2>3 DEF CompleteIntegration
<1> QED
  BY <1>2, <1>3, <1>4, <1>5, <1>7, <1>8, <1>9, <1>10, <1>11, <1>12

(* The merges on the daemon.  MergePR merges a head that is not 0, for     *)
(* only heads that were read pass; and a merge is asked for by a request   *)
(* that is about a linked pull request.                                    *)
LEMMA JobMoves ==
  ASSUME TypeOK, WorkflowInv, Next, NEW j \in Jobs
  PROVE  JobInv(j)'
<1> USE DEF JobInv
<1>0. [Next]_vars
  OBVIOUS
<1>1. JobInv(j) /\ job \in [Jobs -> Job] /\ 0 \notin proved
  BY DEF WorkflowInv, TypeOK
<1>2. ASSUME NEW d \in Threads, Send(d) PROVE JobInv(j)'
  <2>1. head' # 0
    BY <1>0, <1>2, Grows DEF Send, WorkflowInv, ThreadInv
  <2>2. CASE UNCHANGED job
    BY <1>0, <2>2, JobStays
  <2>3. ASSUME NEW i \in Jobs, NEW st \in {"sent", "gone"}, job[i].st = "none",
               job' = [job EXCEPT ![i] = [NoJob EXCEPT !.st = st, !.by = thread[d].by,
                                          !.id = thread[d].id, !.said = thread[d].said]]
        PROVE  JobInv(j)'
    <3>1. CASE j = i
      BY <1>1, <2>1, <2>3, <3>1 DEF NoJob
    <3>2. CASE j # i
      BY <1>0, <2>3, <3>2, JobStays DEF TypeOK
    <3> QED
      BY <3>1, <3>2
  <2> QED
    BY <1>2, <2>2, <2>3 DEF Send
<1>3. ASSUME NEW d \in Threads, NEW i \in Jobs, CompleteIntegration(d, i) PROVE JobInv(j)'
  BY <1>0, <1>1, <1>3, JobStays DEF CompleteIntegration, Job
<1>4. ASSUME NEW i \in Jobs, ReadPR(i) PROVE JobInv(j)'
  <2>1. head = head' /\ merged = merged'
    BY <1>4 DEF ReadPR, task
  <2>2. CASE j = i
    BY <1>1, <1>4, <2>1, <2>2 DEF ReadPR, Job
  <2>3. CASE j # i
    BY <1>0, <1>1, <1>4, <2>3, JobStays DEF ReadPR
  <2> QED
    BY <2>2, <2>3
<1>5. ASSUME NEW i \in Jobs, VerifyFails(i) \/ AnswerLost(i) PROVE JobInv(j)'
  BY <1>0, <1>1, <1>5, JobStays DEF VerifyFails, AnswerLost, Job
<1>6. ASSUME NEW i \in Jobs, MergePR(i) PROVE JobInv(j)'
  <2>1. CASE j = i
    BY <1>1, <1>6, <2>1 DEF MergePR, PinHolds, Refused, Job
  <2>2. CASE j # i
    BY <1>0, <1>1, <1>6, <2>2, JobStays DEF MergePR
  <2> QED
    BY <2>1, <2>2
<1>7. CASE UNCHANGED job
  BY <1>0, <1>7, JobStays
<1> QED
  BY <1>2, <1>3, <1>4, <1>5, <1>6, <1>7 DEF Next, Work, Reject, TurnEnds, SubmitReview,
     Finish, HumanMove, ManualDispatch, Drive, Log, Move, Assign, Dispatch,
     VerifyPasses, Crash

(* Who moves the task: a person, an agent, or the workflow, to done only   *)
(* once the pull request is merged.                                        *)
LEMMA CloserMoves ==
  ASSUME TypeOK, WorkflowInv, Next
  PROVE  ClosedMeansMerged'
<1>0. merged # 0 => merged' # 0
  BY Grows
<1>1. ClosedMeansMerged
  BY DEF WorkflowInv
<1>2. ASSUME NEW to \in Columns, MoveTo(to, "workflow"), to = "done" => merged # 0
      PROVE  ClosedMeansMerged'
  BY <1>0, <1>1, <1>2 DEF MoveTo, ClosedMeansMerged
<1>3. ASSUME NEW d \in Threads, NEW c \in Columns, HumanMove(d, c) PROVE ClosedMeansMerged'
  BY <1>0, <1>1, <1>3 DEF HumanMove, MoveTo, ClosedMeansMerged
<1>4. ASSUME NEW d \in Threads, Move(d) PROVE ClosedMeansMerged'
  <2>1. thread[d].col \in Columns /\ (thread[d].col = "done" => merged # 0)
    BY <1>4 DEF Move, WorkflowInv, ThreadInv, TypeOK, Thread
  <2>2. CASE MoveTo(thread[d].col, "workflow")
    BY <1>2, <2>1, <2>2
  <2>3. CASE UNCHANGED closer
    BY <1>0, <1>1, <2>3 DEF ClosedMeansMerged
  <2> QED
    BY <1>4, <2>2, <2>3 DEF Move
<1>5. ASSUME NEW d \in Threads, NEW j \in Jobs, CompleteIntegration(d, j)
      PROVE  ClosedMeansMerged'
  <2>1. CASE HandedBack(d, j)
    <3>1. MoveTo("in_progress", "workflow") /\ "in_progress" \in Columns
      BY <2>1 DEF HandedBack, Columns
    <3> QED
      BY <1>2, <3>1
  <2>2. CASE UNCHANGED closer
    BY <1>0, <1>1, <2>2 DEF ClosedMeansMerged
  <2> QED
    BY <1>5, <2>1, <2>2 DEF CompleteIntegration, Integrated, StaysPut
<1>6. ASSUME NEW a \in Agents, Reject(a) PROVE ClosedMeansMerged'
  BY <1>6 DEF Reject, ClosedMeansMerged
<1>7. CASE UNCHANGED closer
  BY <1>0, <1>1, <1>7 DEF ClosedMeansMerged
<1> QED
  BY <1>3, <1>4, <1>5, <1>6, <1>7 DEF Next, Work, TurnEnds, SubmitReview, Finish,
     ManualDispatch, Drive, Log, Send, Assign, Dispatch, ReadPR, VerifyPasses,
     VerifyFails, MergePR, AnswerLost, Crash

(* Every step keeps the invariant.                                         *)
LEMMA StepInv ==
  ASSUME TypeOK, WorkflowInv, [Next]_vars
  PROVE  WorkflowInv'
<1>1. CASE UNCHANGED vars
  BY <1>1, ThreadStays, JobStays DEF vars, WorkflowInv, ClosedMeansMerged
<1>2. CASE Next
  <2>1. \A d \in Threads : ThreadInv(d)'
    <3>1. CASE UNCHANGED thread
      BY <3>1, ThreadStays
    <3>2. CASE Crash
      <4>1. \A d \in Threads : thread'[d] = Idle
        BY <3>2 DEF Crash
      <4> QED
        BY <4>1 DEF ThreadInv, Idle
    <3>3. ASSUME NEW d \in Threads,
                 \/ \E a \in Agents : Finish(d, a)
                 \/ \E c \in Columns : HumanMove(d, c)
                 \/ ManualDispatch(d) \/ Drive(d) \/ Log(d) \/ Send(d)
                 \/ Move(d) \/ Assign(d) \/ Dispatch(d)
                 \/ \E j \in Jobs : CompleteIntegration(d, j)
          PROVE  \A e \in Threads : ThreadInv(e)'
      BY <3>3, RequestMoves
    <3> QED
      BY <1>2, <3>1, <3>2, <3>3 DEF Next, Work, Reject, TurnEnds, SubmitReview, ReadPR,
         VerifyPasses, VerifyFails, MergePR, AnswerLost
  <2> QED
    BY <1>2, <2>1, JobMoves, CloserMoves DEF WorkflowInv
<1> QED
  BY <1>1, <1>2

-----------------------------------------------------------------------------
(* Type correctness.  It needs the invariant: a merge that verifies head 0 *)
(* would put 0 among the proved heads.                                     *)

(* The run rows, and what the ledger holds of them: one row per agent.     *)
LedgerOK ==
  /\ rows \in Seq(Agents) /\ \A i, k \in DOMAIN rows : rows[i] = rows[k] => i = k
  /\ \A a \in Agents : a \in Members(rows) <=> run[a].st # "none"
  /\ run \in [Agents -> Row] /\ turns \in 1..MaxTurns

BoardOK ==
  /\ column \in Columns /\ assignee \in Agents /\ dod \in BOOLEAN
  /\ head \in 0..MaxHead /\ proof \in 0..head /\ merged \in 0..head
  /\ closer \in {"none", "person", "workflow"} /\ moves \in 0..MaxMoves

RequestsOK ==
  /\ thread \in [Threads -> Thread] /\ job \in [Jobs -> Job]
  /\ proved \subseteq 1..MaxHead

LEMMA TypeParts == TypeOK <=> LedgerOK /\ BoardOK /\ RequestsOK
BY DEF TypeOK, LedgerOK, BoardOK, RequestsOK

(* An agent without a row gets the newest one.                             *)
LEMMA RowAdded ==
  ASSUME LedgerOK, NEW a \in Agents, a \notin Members(rows)
  PROVE  LET r == Append(rows, a) IN
         /\ r \in Seq(Agents) /\ \A i, k \in DOMAIN r : r[i] = r[k] => i = k
         /\ Members(r) = Members(rows) \cup {a}
<1> DEFINE r == Append(rows, a)
<1>1. /\ rows \in Seq(Agents) /\ r \in Seq(Agents) /\ Len(r) = Len(rows) + 1
      /\ DOMAIN r = 1..Len(rows) + 1 /\ DOMAIN rows = 1..Len(rows) /\ Len(rows) \in Nat
  BY DEF LedgerOK
<1>2. r[Len(rows) + 1] = a /\ \A i \in 1..Len(rows) : r[i] = rows[i]
  BY <1>1
<1>3. \A i \in DOMAIN rows : rows[i] # a
  BY DEF Members
<1> HIDE DEF r
<1>4. ASSUME NEW i \in DOMAIN r, NEW k \in DOMAIN r, r[i] = r[k] PROVE i = k
  BY <1>1, <1>2, <1>3, <1>4 DEF LedgerOK
<1>5. Members(r) = Members(rows) \cup {a}
  BY <1>1, <1>2 DEF Members
<1> QED
  BY <1>1, <1>4, <1>5 DEF r

(* A discarded row leaves the others as they were.                         *)
LEMMA RowRemoved ==
  ASSUME LedgerOK, NEW a \in Agents
  PROVE  LET r == RowsWithout(a) IN
         /\ r \in Seq(Agents) /\ \A i, k \in DOMAIN r : r[i] = r[k] => i = k
         /\ Members(r) = Members(rows) \ {a}
<1> DEFINE n == Len(rows)
<1>1. /\ rows \in Seq(Agents) /\ DOMAIN rows = 1..n /\ n \in Nat
      /\ \A i, k \in 1..n : rows[i] = rows[k] => i = k
  BY DEF LedgerOK
<1>2. CASE a \notin Members(rows)
  BY <1>1, <1>2 DEF RowsWithout
<1>3. CASE a \in Members(rows)
  <2>1. PICK k \in 1..n : /\ rows[k] = a
                          /\ RowsWithout(a) = [i \in 1..(n - 1) |-> rows[IF i < k THEN i ELSE i + 1]]
    BY <1>1, <1>3 DEF RowsWithout, Members
  <2> DEFINE r == [i \in 1..(n - 1) |-> rows[IF i < k THEN i ELSE i + 1]]
  <2>2. n - 1 \in Nat
    BY <1>1
  <2>3. \A i \in 1..(n - 1) : r[i] = rows[IF i < k THEN i ELSE i + 1]
    OBVIOUS
  <2>4. \A i \in 1..(n - 1) : rows[IF i < k THEN i ELSE i + 1] \in Agents
    BY <1>1
  <2>5. r \in Seq(Agents) /\ DOMAIN r = 1..(n - 1)
    BY <2>2, <2>4
  <2> HIDE DEF r
  <2>6. ASSUME NEW i \in DOMAIN r, NEW j \in DOMAIN r, r[i] = r[j] PROVE i = j
    BY <1>1, <2>1, <2>3, <2>5, <2>6
  <2>7. Members(r) = Members(rows) \ {a}
    <3>1. ASSUME NEW i \in 1..(n - 1) PROVE r[i] \in Members(rows) /\ r[i] # a
      <4> DEFINE m == IF i < k THEN i ELSE i + 1
      <4>1. m \in 1..n /\ m # k
        BY <1>1, <2>1
      <4>2. r[i] = rows[m]
        BY <2>3
      <4> HIDE DEF m
      <4>3. rows[m] # a
        BY <1>1, <2>1, <4>1
      <4> QED
        BY <1>1, <4>1, <4>2, <4>3 DEF Members
    <3>2. ASSUME NEW i \in 1..n, rows[i] # a PROVE \E j \in 1..(n - 1) : r[j] = rows[i]
      <4>1. i # k
        BY <2>1, <3>2
      <4>2. CASE i < k
        BY <1>1, <2>1, <2>3, <4>2
      <4>3. CASE i > k
        <5>1. i - 1 \in 1..(n - 1) /\ ~(i - 1 < k) /\ (i - 1) + 1 = i
          BY <1>1, <2>1, <4>3
        <5> QED
          BY <2>3, <5>1
      <4> QED
        BY <2>1, <4>1, <4>2, <4>3
    <3> QED
      <4>1. ASSUME NEW x \in Members(r) PROVE x \in Members(rows) \ {a}
        <5>1. PICK i \in 1..(n - 1) : x = r[i]
          BY <2>5 DEF Members
        <5> QED
          BY <3>1, <5>1
      <4>2. ASSUME NEW x \in Members(rows), x # a PROVE x \in Members(r)
        <5>1. PICK i \in 1..n : x = rows[i]
          BY <1>1 DEF Members
        <5>2. PICK j \in 1..(n - 1) : r[j] = x
          BY <3>2, <4>2, <5>1
        <5> QED
          BY <2>5, <5>2 DEF Members
      <4> QED
        BY <4>1, <4>2
  <2> QED
    BY <2>1, <2>5, <2>6, <2>7, SMTT(30) DEF r
<1> QED
  BY <1>2, <1>3

(* A step that edits rows in place, leaving who has one.                   *)
LEMMA LedgerEdits ==
  ASSUME LedgerOK, UNCHANGED <<rows, turns>>, run' \in [Agents -> Row],
         \A a \in Agents : run'[a].st = "none" <=> run[a].st = "none"
  PROVE  LedgerOK'
BY DEF LedgerOK, Members

(* A new row, and one with another id or state, is a row.                  *)
LEMMA RowEdits ==
  /\ FreshTurn \in Row /\ FreshTurn.st = "running"
  /\ \A k \in Row :
       /\ \A id \in 0..MaxTurns : /\ [k EXCEPT !.id = id] \in Row
                                 /\ [k EXCEPT !.id = id].st = k.st
       /\ \A st \in {"none", "running", "over"} : /\ [k EXCEPT !.st = st] \in Row
                                                 /\ [k EXCEPT !.st = st].st = st
<1>1. 0 \in 0..MaxTurns
  BY BoundAssumption
<1>2. FreshTurn \in Row /\ FreshTurn.st = "running"
  BY <1>1 DEF FreshTurn, Row, Verdicts
<1>3. ASSUME NEW k \in Row, NEW id \in 0..MaxTurns
      PROVE  [k EXCEPT !.id = id] \in Row /\ [k EXCEPT !.id = id].st = k.st
  BY DEF Row
<1>4. ASSUME NEW k \in Row, NEW st \in {"none", "running", "over"}
      PROVE  [k EXCEPT !.st = st] \in Row /\ [k EXCEPT !.st = st].st = st
  BY DEF Row
<1> QED
  BY <1>2, <1>3, <1>4, Zenon

(* Scheduling a turn of an agent: its row begins anew, is created, or is   *)
(* discarded.                                                              *)
LEMMA ScheduleType ==
  ASSUME LedgerOK, NEW a \in Agents, Schedule(a)
  PROVE  LedgerOK'
<1>1. run \in [Agents -> Row] /\ turns \in 1..MaxTurns
  BY DEF LedgerOK
<1>2. CASE StartTurn(a)
  <2>1. turns' \in 1..MaxTurns /\ turns' = turns + 1
    BY <1>1, <1>2, BoundAssumption DEF StartTurn
  <2>2. CASE a \in Members(rows)
    <3>1. NextTurn(a) \in Row /\ NextTurn(a).st = "running"
      BY <1>1 DEF NextTurn, FreshTurn, Row, Verdicts
    <3>2. run' = [run EXCEPT ![a] = NextTurn(a)] /\ rows' = rows
      BY <1>2, <2>2 DEF StartTurn
    <3> QED
      BY <2>1, <2>2, <3>1, <3>2 DEF LedgerOK
  <2>3. CASE a \notin Members(rows)
    <3> DEFINE k == [FreshTurn EXCEPT !.id = turns + 1]
    <3>1. k \in Row /\ k.st = "running"
      <4>1. turns + 1 \in 0..MaxTurns
        BY <2>1
      <4> QED
        BY <4>1, RowEdits, Zenon
    <3>2. run' = [run EXCEPT ![a] = k] /\ rows' = Append(rows, a)
      BY <1>2, <2>3 DEF StartTurn
    <3> HIDE DEF k
    <3> QED
      BY <2>1, <2>3, <3>1, <3>2, RowAdded DEF LedgerOK
  <2> QED
    BY <2>2, <2>3
<1>3. CASE Discard(a)
  <2>1. NoRow \in Row /\ NoRow.st = "none"
    BY RowEdits DEF NoRow
  <2>2. run' = [run EXCEPT ![a] = NoRow] /\ rows' = RowsWithout(a) /\ turns' = turns
    BY <1>3 DEF Discard
  <2> QED
    BY <2>1, <2>2, RowRemoved DEF LedgerOK
<1>4. CASE UNCHANGED <<run, rows, turns>>
  BY <1>4 DEF LedgerOK, Members
<1> QED
  BY <1>2, <1>3, <1>4 DEF Schedule

(* The ledger: turns begin and end, are decided, demoted and judged.       *)
LEMMA LedgerMoves ==
  ASSUME TypeOK, WorkflowInv, [Next]_vars
  PROVE  LedgerOK'
<1>0. /\ LedgerOK /\ run \in [Agents -> Row]
      /\ thread \in [Threads -> Thread] /\ job \in [Jobs -> Job]
  BY TypeParts DEF LedgerOK, RequestsOK
<1>1. ASSUME UNCHANGED <<run, rows, turns>> PROVE LedgerOK'
  BY <1>0, <1>1, LedgerEdits
<1>2. ASSUME UNCHANGED <<rows, turns>>,
             run' = [b \in Agents |-> [run[b] EXCEPT !.demoted = TRUE]]
      PROVE  LedgerOK'
  <2>1. ASSUME NEW b \in Agents
        PROVE  [run[b] EXCEPT !.demoted = TRUE] \in Row
               /\ [run[b] EXCEPT !.demoted = TRUE].st = run[b].st
    BY <1>0 DEF Row
  <2> QED
    BY <1>0, <1>2, <2>1, LedgerEdits
<1>3. ASSUME NEW to \in Columns, NEW who, MoveTo(to, who), UNCHANGED <<rows, turns>>
      PROVE  LedgerOK'
  BY <1>1, <1>2, <1>3 DEF MoveTo
<1>4. ASSUME NEW a, NEW id, run' = Logged(a, id), UNCHANGED <<rows, turns>>
      PROVE  LedgerOK'
  <2>1. CASE a \in Agents
    <3>1. [run[a] EXCEPT !.decided = TRUE] \in Row
          /\ [run[a] EXCEPT !.decided = TRUE].st = run[a].st
      BY <1>0, <2>1 DEF Row
    <3> QED
      BY <1>0, <1>4, <2>1, <3>1, LedgerEdits DEF Logged
  <2>2. CASE a \notin Agents
    <3>1. run' = run
      BY <1>0, <1>4, <2>2 DEF Logged
    <3> QED
      BY <1>1, <1>4, <3>1
  <2> QED
    BY <2>1, <2>2
<1>5. ASSUME NEW a \in Agents, NEW v \in Verdicts, SubmitReview(a, v) PROVE LedgerOK'
  <2> DEFINE k == [Recorded(run[a], v) EXCEPT !.said = v]
  <2>1. Recorded(run[a], v) \in Row /\ Recorded(run[a], v).st = run[a].st
    BY <1>0 DEF Recorded, Row
  <2>2. k \in Row /\ k.st = run[a].st
    <3> DEFINE m == Recorded(run[a], v)
    <3> HIDE DEF m
    <3>1. m \in Row /\ m.st = run[a].st /\ k = [m EXCEPT !.said = v]
      BY <2>1 DEF m
    <3> QED
      BY <3>1 DEF Row
  <2>3. run' = [run EXCEPT ![a] = k] /\ UNCHANGED <<rows, turns>>
    BY <1>5 DEF SubmitReview
  <2> HIDE DEF k
  <2> QED
    BY <1>0, <2>2, <2>3, LedgerEdits
<1>6. ASSUME NEW a \in Agents, TurnEnds(a) PROVE LedgerOK'
  <2>1. [run[a] EXCEPT !.st = "over"] \in Row /\ [run[a] EXCEPT !.st = "over"].st = "over"
    BY <1>0 DEF Row
  <2> QED
    BY <1>0, <1>6, <2>1, LedgerEdits DEF TurnEnds, Running
<1>7. ASSUME NEW a \in Agents, Reject(a) PROVE LedgerOK'
  BY <1>2, <1>7 DEF Reject
<1>8. ASSUME NEW d \in Threads, NEW c \in Columns, HumanMove(d, c) PROVE LedgerOK'
  BY <1>3, <1>8 DEF HumanMove
<1>9. ASSUME NEW d \in Threads, Log(d) PROVE LedgerOK'
  BY <1>4, <1>9 DEF Log
<1>10. ASSUME NEW d \in Threads, Move(d) PROVE LedgerOK'
  <2>1. thread[d].col \in Columns
    BY <1>0 DEF Thread
  <2> QED
    BY <1>1, <1>3, <1>10, <2>1 DEF Move
<1>11. ASSUME NEW d \in Threads, Dispatch(d) PROVE LedgerOK'
  <2>1. thread[d].to \in Agents
    BY <1>0, <1>11 DEF Dispatch, WorkflowInv, ThreadInv, Thread
  <2> QED
    BY <1>0, <1>11, <2>1, ScheduleType DEF Dispatch
<1>12. ASSUME NEW d \in Threads, NEW j \in Jobs, CompleteIntegration(d, j) PROVE LedgerOK'
  <2>1. "in_progress" \in Columns
    BY DEF Columns
  <2> QED
    BY <1>3, <1>4, <1>12, <2>1 DEF CompleteIntegration, Integrated, HandedBack, StaysPut
<1> QED
  BY <1>1, <1>5, <1>6, <1>7, <1>8, <1>9, <1>10, <1>11, <1>12
  DEF Next, vars, Work, Finish, ManualDispatch, Drive, Send, Assign, ReadPR,
      VerifyPasses, VerifyFails, MergePR, AnswerLost, Crash

(* The task, its pull request and its history.                             *)
LEMMA BoardMoves ==
  ASSUME TypeOK, WorkflowInv, [Next]_vars
  PROVE  BoardOK'
<1>0. /\ BoardOK /\ thread \in [Threads -> Thread] /\ job \in [Jobs -> Job]
      /\ MaxHead \in Nat /\ MaxMoves \in Nat
  BY TypeParts, BoundAssumption DEF RequestsOK
<1> USE DEF BoardOK
<1>1. CASE UNCHANGED <<task, merged, closer, moves>>
  BY <1>0, <1>1 DEF task
<1>2. ASSUME NEW to \in Columns, NEW who \in {"person", "workflow"}, MoveTo(to, who),
             merged' = merged, moves' \in 0..MaxMoves
      PROVE  BoardOK'
  BY <1>0, <1>2 DEF MoveTo
<1>3. ASSUME NEW a \in Agents, Work(a) PROVE BoardOK'
  <2>1. head' \in 0..MaxHead /\ proof' \in 0..head' /\ merged' \in 0..head'
    BY <1>0, <1>3 DEF Work
  <2> QED
    BY <1>0, <1>3, <2>1 DEF Work
<1>4. ASSUME NEW a \in Agents, Reject(a) PROVE BoardOK'
  <2>1. moves' \in 0..MaxMoves
    BY <1>0, <1>4 DEF Reject
  <2> QED
    BY <1>0, <1>4, <2>1 DEF Reject, Columns
<1>5. ASSUME NEW d \in Threads, NEW c \in Columns, HumanMove(d, c) PROVE BoardOK'
  <2>1. moves' \in 0..MaxMoves
    BY <1>0, <1>5 DEF HumanMove
  <2> QED
    BY <1>2, <1>5, <2>1 DEF HumanMove
<1>6. ASSUME NEW d \in Threads, Move(d) PROVE BoardOK'
  <2>1. thread[d].col \in Columns /\ moves' \in 0..MaxMoves
    BY <1>0, <1>6 DEF Thread, Move
  <2> QED
    BY <1>1, <1>2, <1>6, <2>1 DEF Move
<1>7. ASSUME NEW d \in Threads, Assign(d) PROVE BoardOK'
  <2>1. thread[d].to \in Agents
    BY <1>0, <1>7 DEF Assign, WorkflowInv, ThreadInv, Thread
  <2> QED
    BY <1>0, <1>7, <2>1 DEF Assign
<1>8. ASSUME NEW j \in Jobs, MergePR(j) PROVE BoardOK'
  BY <1>0, <1>8 DEF MergePR, PinHolds, task
<1>9. ASSUME NEW d \in Threads, NEW j \in Jobs, CompleteIntegration(d, j) PROVE BoardOK'
  <2>1. "in_progress" \in Columns /\ moves' \in 0..MaxMoves
    BY <1>0, <1>9 DEF Columns, CompleteIntegration
  <2> QED
    BY <1>1, <1>2, <1>9, <2>1 DEF CompleteIntegration, Integrated, HandedBack, StaysPut
<1> QED
  BY <1>1, <1>3, <1>4, <1>5, <1>6, <1>7, <1>8, <1>9
  DEF Next, vars, task, TurnEnds, SubmitReview, Finish, ManualDispatch, Drive, Log, Send,
      Dispatch, ReadPR, VerifyPasses, VerifyFails, AnswerLost, Crash

(* Whom the driver picks, hands back to or asks next is an agent, or       *)
(* nobody.                                                                 *)
LEMMA PickTypes ==
  ASSUME TypeOK
  PROVE  /\ \A a : HandBackTo(a) \in Agents \cup {Nobody}
         /\ \A a : Picked(Reviewers, a) \subseteq Agents \cup {Nobody}
         /\ \A a : Picked(Writers, a) \subseteq Agents \cup {Nobody}
         /\ \A c \in Columns : EntryAgent(c) \subseteq Agents \cup {Nobody}
<1>1. ASSUME NEW a PROVE Prior(a) \in Agents \cup {Nobody}
  <2> DEFINE before == {i \in DOMAIN rows : i + 1 \in DOMAIN rows /\ rows[i + 1] = a}
  <2>1. CASE before = {}
    BY <2>1 DEF Prior
  <2>2. CASE before # {}
    <3>1. PICK i \in DOMAIN rows : Prior(a) = rows[i]
      BY <2>2 DEF Prior
    <3>2. rows \in Seq(Agents)
      BY DEF TypeOK
    <3> QED
      BY <3>1, <3>2
  <2> QED
    BY <2>1, <2>2
<1>2. \A a : HandBackTo(a) \in Agents \cup {Nobody}
  BY <1>1 DEF HandBackTo
<1>3. /\ \A a : Picked(Reviewers, a) \subseteq Agents \cup {Nobody}
      /\ \A a : Picked(Writers, a) \subseteq Agents \cup {Nobody}
  BY RoleAssumption DEF Picked
<1>4. ASSUME NEW c \in Columns PROVE EntryAgent(c) \subseteq Agents \cup {Nobody}
  BY <1>3 DEF EntryAgent, TypeOK, Columns
<1> QED
  BY <1>2, <1>3, <1>4

LEMMA IdleType == Idle \in Thread
<1>1. 0 \in 0..MaxTurns /\ "todo" \in Columns
  BY BoundAssumption DEF Columns
<1> QED
  BY <1>1 DEF Idle, Thread

(* A request that goes on to one is all that changes.                      *)
LEMMA GoesType ==
  ASSUME thread \in [Threads -> Thread], NEW d \in Threads, NEW r \in Thread, Goes(d, r)
  PROVE  thread' \in [Threads -> Thread]
BY DEF Goes

(* Each step of a request leaves a request.                                *)
LEMMA RequestTypes ==
  ASSUME TypeOK, WorkflowInv, NEW d \in Threads,
         \/ \E a \in Agents : Finish(d, a)
         \/ \E c \in Columns : HumanMove(d, c)
         \/ ManualDispatch(d) \/ Drive(d) \/ Log(d) \/ Send(d)
         \/ Move(d) \/ Assign(d) \/ Dispatch(d)
         \/ \E j \in Jobs : CompleteIntegration(d, j)
  PROVE  thread' \in [Threads -> Thread]
<1> DEFINE t == thread[d]
<1>1. /\ thread \in [Threads -> Thread] /\ t \in Thread /\ job \in [Jobs -> Job]
      /\ run \in [Agents -> Row]
  BY DEF TypeOK
<1>2. ASSUME NEW r \in Thread, Goes(d, r) PROVE thread' \in [Threads -> Thread]
  BY <1>1, <1>2, GoesType
<1>3. CASE Over(d)
  BY <1>2, <1>3, IdleType DEF Over
<1>4. ASSUME NEW pc \in {"log", "assign", "dispatch", "move", "send", "idle"}, Becomes(d, pc)
      PROVE  thread' \in [Threads -> Thread]
  <2>1. [t EXCEPT !.pc = pc] \in Thread
    BY <1>1 DEF Thread
  <2> QED
    BY <1>2, <1>3, <1>4, <2>1 DEF Becomes
<1>5. ASSUME NEW a \in Agents, Finish(d, a) PROVE thread' \in [Threads -> Thread]
  <2>1. run[a].id \in 0..MaxTurns
    BY <1>1 DEF Row
  <2>2. [Idle EXCEPT !.pc = "drive", !.by = a, !.id = run[a].id] \in Thread
    BY <2>1, IdleType DEF Thread
  <2> QED
    BY <1>2, <1>5, <2>2 DEF Finish
<1>6. ASSUME NEW c \in Columns, HumanMove(d, c) PROVE thread' \in [Threads -> Thread]
  <2>1. [Idle EXCEPT !.pc = "manual", !.col = c] \in Thread
    BY IdleType DEF Thread
  <2> QED
    BY <1>2, <1>6, <2>1 DEF HumanMove
<1>7. CASE ManualDispatch(d)
  <2>1. EntryAgent(t.col) \subseteq Agents \cup {Nobody}
    BY <1>1, PickTypes DEF Thread
  <2>2. ASSUME NEW b \in Agents \cup {Nobody}, NEW pc \in {"dispatch", "assign"},
               Goes(d, [thread[d] EXCEPT !.to = b, !.pc = pc])
        PROVE  thread' \in [Threads -> Thread]
    <3>1. [thread[d] EXCEPT !.to = b, !.pc = pc] \in Thread
      BY <1>1 DEF Thread
    <3> QED
      BY <1>2, <2>2, <3>1
  <2> QED
    BY <1>3, <1>7, <2>1, <2>2 DEF ManualDispatch
<1>8. CASE Drive(d)
  <2>1. CASE Decision(d, t.by)
    <3> DEFINE a == t.by
               k == [t EXCEPT !.said = run[a].said]
    <3>1. a \in Agents
      BY <1>1, <1>8 DEF Drive, WorkflowInv, ThreadInv, Thread
    <3>2. k \in Thread /\ a \in Agents \cup {Nobody}
      BY <1>1, <3>1 DEF Thread, Row
    <3>3. /\ HandBackTo(a) \in Agents \cup {Nobody}
          /\ Picked(Reviewers, a) \subseteq Agents \cup {Nobody}
      BY PickTypes
    <3>4. \/ Over(d)
          \/ Goes(d, [k EXCEPT !.pc = "log"])
          \/ Goes(d, [k EXCEPT !.pc = "assign", !.to = HandBackTo(a), !.then = "log"])
          \/ Goes(d, [k EXCEPT !.pc = "dispatch", !.to = a, !.then = "log"])
          \/ Goes(d, [k EXCEPT !.pc = "log", !.col = "done"])
          \/ \E b \in Agents \cup {Nobody} :
               Goes(d, [k EXCEPT !.pc = "log", !.to = b, !.col = "review"])
      BY <2>1, <3>3 DEF Decision, Bounced
    <3> HIDE DEF a, k
    <3>5. [k EXCEPT !.pc = "log"] \in Thread
      BY <3>2 DEF Thread
    <3>6. [k EXCEPT !.pc = "assign", !.to = HandBackTo(a), !.then = "log"] \in Thread
      BY <3>2, <3>3 DEF Thread
    <3>7. [k EXCEPT !.pc = "dispatch", !.to = a, !.then = "log"] \in Thread
      BY <3>2 DEF Thread
    <3>8. [k EXCEPT !.pc = "log", !.col = "done"] \in Thread
      BY <3>2 DEF Thread, Columns
    <3>9. \A b \in Agents \cup {Nobody} :
            [k EXCEPT !.pc = "log", !.to = b, !.col = "review"] \in Thread
      BY <3>2 DEF Thread, Columns
    <3> QED
      BY <1>2, <1>3, <3>4, <3>5, <3>6, <3>7, <3>8, <3>9
  <2> QED
    BY <1>3, <1>8, <2>1 DEF Drive
<1>9. CASE Log(d)
  BY <1>4, <1>9 DEF Log, AfterLog
<1>10. CASE Send(d)
  BY <1>3, <1>10 DEF Send
<1>11. CASE Move(d)
  BY <1>3, <1>4, <1>11 DEF Move
<1>12. CASE Assign(d)
  BY <1>4, <1>12 DEF Assign
<1>13. CASE Dispatch(d)
  <2>1. t.then \in {"idle", "log"}
    BY <1>1 DEF Thread
  <2> QED
    BY <1>4, <1>13, <2>1 DEF Dispatch
<1>14. ASSUME NEW j \in Jobs, CompleteIntegration(d, j) PROVE thread' \in [Threads -> Thread]
  <2>1. CASE Integrated(d, j)
    <3>1. Picked(Writers, Nobody) \subseteq Agents \cup {Nobody}
      BY PickTypes
    <3>2. PICK w \in Agents \cup {Nobody} :
            Goes(d, [Idle EXCEPT !.pc = "move", !.col = NextColumn(column),
                                 !.skip = TRUE, !.to = w])
      BY <2>1, <3>1 DEF Integrated
    <3>3. NextColumn(column) \in Columns
      BY DEF NextColumn, Columns
    <3>4. [Idle EXCEPT !.pc = "move", !.col = NextColumn(column), !.skip = TRUE, !.to = w]
            \in Thread
      BY <3>3, IdleType DEF Thread
    <3> QED
      BY <1>2, <3>2, <3>4
  <2>2. CASE HandedBack(d, j)
    <3> DEFINE b == HandBackTo(job[j].by)
               k == [Idle EXCEPT !.by = job[j].by, !.id = job[j].id, !.then = "log"]
    <3>1. \/ Goes(d, [k EXCEPT !.pc = "log"])
          \/ Goes(d, [k EXCEPT !.pc = "assign", !.to = b])
      BY <2>2 DEF HandedBack
    <3>2. job[j].by \in Agents \cup {Nobody} /\ job[j].id \in 0..MaxTurns
      BY <1>1 DEF Job
    <3>3. k \in Thread /\ b \in Agents \cup {Nobody}
      BY <3>2, IdleType, PickTypes DEF Thread
    <3> HIDE DEF k, b
    <3>4. [k EXCEPT !.pc = "log"] \in Thread /\ [k EXCEPT !.pc = "assign", !.to = b] \in Thread
      BY <3>3 DEF Thread
    <3> QED
      BY <1>2, <3>1, <3>4
  <2>3. CASE StaysPut(d, j)
    BY <1>1, <2>3 DEF StaysPut
  <2> QED
    BY <1>14, <2>1, <2>2, <2>3 DEF CompleteIntegration
<1> QED
  BY <1>5, <1>6, <1>7, <1>8, <1>9, <1>10, <1>11, <1>12, <1>13, <1>14

(* Requests, merges, and the heads that passed.                            *)
LEMMA RequestsMove ==
  ASSUME TypeOK, WorkflowInv, [Next]_vars
  PROVE  RequestsOK'
<1>1. /\ thread \in [Threads -> Thread] /\ job \in [Jobs -> Job] /\ proved \subseteq 1..MaxHead
      /\ head \in 0..MaxHead
  BY DEF TypeOK
<1>2. thread' \in [Threads -> Thread]
  <2>1. CASE UNCHANGED thread
    BY <1>1, <2>1
  <2>2. CASE Crash
    BY <2>2, IdleType DEF Crash
  <2>3. ASSUME NEW d \in Threads,
               \/ \E a \in Agents : Finish(d, a)
               \/ \E c \in Columns : HumanMove(d, c)
               \/ ManualDispatch(d) \/ Drive(d) \/ Log(d) \/ Send(d)
               \/ Move(d) \/ Assign(d) \/ Dispatch(d)
               \/ \E j \in Jobs : CompleteIntegration(d, j)
        PROVE  thread' \in [Threads -> Thread]
    BY <2>3, RequestTypes
  <2> QED
    BY <2>1, <2>2, <2>3 DEF Next, vars, Work, Reject, TurnEnds, SubmitReview, ReadPR,
       VerifyPasses, VerifyFails, MergePR, AnswerLost
<1>3. job' \in [Jobs -> Job]
  <2>1. CASE UNCHANGED job
    BY <1>1, <2>1
  <2>2. ASSUME NEW j \in Jobs, NEW st \in {"sent", "read", "ok", "fix", "stay", "reported", "gone"},
               job' = [job EXCEPT ![j].st = st]
        PROVE  job' \in [Jobs -> Job]
    BY <1>1, <2>2 DEF Job
  <2>3. ASSUME NEW d \in Threads, Send(d) PROVE job' \in [Jobs -> Job]
    <3>1. ASSUME NEW j \in Jobs, NEW st \in {"sent", "gone"},
                 job' = [job EXCEPT ![j] = [NoJob EXCEPT !.st = st, !.by = thread[d].by,
                                            !.id = thread[d].id, !.said = thread[d].said]]
          PROVE  job' \in [Jobs -> Job]
      <4>1. thread[d].by \in Agents \cup {Nobody} /\ thread[d].id \in 0..MaxTurns
            /\ thread[d].said \in Verdicts \cup {"none"} /\ 0 \in 0..MaxHead
        BY <1>1, BoundAssumption DEF Thread
      <4>2. [NoJob EXCEPT !.st = st, !.by = thread[d].by, !.id = thread[d].id,
                          !.said = thread[d].said] \in Job
        BY <4>1 DEF NoJob, Job
      <4> QED
        BY <1>1, <3>1, <4>2
    <3> QED
      BY <2>1, <2>3, <3>1 DEF Send
  <2>4. ASSUME NEW j \in Jobs, ReadPR(j) PROVE job' \in [Jobs -> Job]
    <3>1. ASSUME NEW st \in {"read", "fix", "stay"},
                 job' = [job EXCEPT ![j].st = st, ![j].head = head]
          PROVE  job' \in [Jobs -> Job]
      <4> DEFINE k == [job[j] EXCEPT !.st = st, !.head = head]
      <4>1. k \in Job
        BY <1>1 DEF Job
      <4>2. job' = [job EXCEPT ![j] = k]
        BY <3>1
      <4> HIDE DEF k
      <4> QED
        BY <1>1, <4>1, <4>2
    <3> QED
      BY <2>2, <2>4, <3>1 DEF ReadPR
  <2> QED
    BY <2>1, <2>2, <2>3, <2>4 DEF Next, vars, Work, Reject, TurnEnds, SubmitReview, Finish,
       HumanMove, ManualDispatch, Drive, Log, Move, Assign, Dispatch, CompleteIntegration,
       VerifyPasses, VerifyFails, MergePR, Refused, AnswerLost, Crash
<1>4. proved' \subseteq 1..MaxHead
  <2>1. CASE UNCHANGED proved
    BY <1>1, <2>1
  <2>2. ASSUME NEW j \in Jobs, VerifyPasses(j) PROVE proved' \subseteq 1..MaxHead
    <3>1. job[j].head \in 0..MaxHead /\ job[j].head # 0
      BY <1>1, <2>2 DEF VerifyPasses, WorkflowInv, JobInv, Job
    <3> QED
      <4>1. job[j].head \in 1..MaxHead
        BY <3>1, BoundAssumption
      <4>2. proved' = proved \cup {job[j].head}
        BY <2>2 DEF VerifyPasses
      <4> QED
        BY <1>1, <4>1, <4>2
  <2> QED
    BY <2>1, <2>2 DEF Next, vars, Work, Reject, TurnEnds, SubmitReview, Finish, HumanMove,
       ManualDispatch, Drive, Log, Send, Move, Assign, Dispatch, CompleteIntegration,
       ReadPR, VerifyFails, MergePR, AnswerLost, Crash
<1> QED
  BY <1>2, <1>3, <1>4 DEF RequestsOK

(* Both hold of every reachable state.                                     *)
LEMMA Invariance == Spec => [](TypeOK /\ WorkflowInv)
<1>1. Init => TypeOK /\ WorkflowInv
  <2> SUFFICES ASSUME Init PROVE TypeOK /\ WorkflowInv
    OBVIOUS
  <2>1. assignee \in Agents /\ rows = <<assignee>> /\ rows \in Seq(Agents)
        /\ DOMAIN rows = {1} /\ rows[1] = assignee
    BY DEF Init
  <2>2. [FreshTurn EXCEPT !.id = 1] \in Row /\ [FreshTurn EXCEPT !.id = 1].st = "running"
    <3>1. 1 \in 0..MaxTurns
      BY BoundAssumption
    <3> QED
      BY <3>1, RowEdits, Zenon
  <2>3. NoRow \in Row /\ NoRow.st = "none"
    BY RowEdits DEF NoRow
  <2>4. LedgerOK
    <3>1. run \in [Agents -> Row] /\ turns \in 1..MaxTurns
      BY <2>2, <2>3, BoundAssumption DEF Init
    <3>2. ASSUME NEW a \in Agents PROVE a \in Members(rows) <=> run[a].st # "none"
      <4>1. Members(rows) = {assignee}
        BY <2>1 DEF Members
      <4> QED
        BY <2>2, <2>3, <4>1 DEF Init
    <3> QED
      BY <2>1, <3>1, <3>2 DEF LedgerOK
  <2>5. BoardOK
    <3>1. /\ column \in Columns /\ dod \in BOOLEAN
          /\ closer \in {"none", "person", "workflow"}
      BY DEF Init, Columns
    <3>2. head = 0 /\ proof = 0 /\ merged = 0 /\ moves = 0
      BY DEF Init
    <3>3. head \in 0..MaxHead /\ proof \in 0..head /\ merged \in 0..head
          /\ moves \in 0..MaxMoves
      BY <3>2, BoundAssumption
    <3> QED
      BY <2>1, <3>1, <3>3 DEF BoardOK
  <2>6. RequestsOK
    <3>1. NoJob \in Job
      BY BoundAssumption DEF NoJob, Job
    <3> QED
      BY <3>1, IdleType DEF Init, RequestsOK
  <2>7. WorkflowInv
    BY DEF Init, WorkflowInv, ThreadInv, JobInv, ClosedMeansMerged, Idle, NoJob
  <2> QED
    BY <2>4, <2>5, <2>6, <2>7, TypeParts
<1>2. TypeOK /\ WorkflowInv /\ [Next]_vars => (TypeOK /\ WorkflowInv)'
  <2> SUFFICES ASSUME TypeOK, WorkflowInv, [Next]_vars PROVE TypeOK' /\ WorkflowInv'
    OBVIOUS
  <2>1. LedgerOK' /\ BoardOK' /\ RequestsOK'
    BY LedgerMoves, BoardMoves, RequestsMove
  <2>2. TypeOK'
    BY <2>1 DEF TypeOK, LedgerOK, BoardOK, RequestsOK
  <2> QED
    BY <2>2, StepInv
<1> QED
  BY <1>1, <1>2, PTL DEF Spec

(* Type correctness, of every reachable state.                             *)
THEOREM TypeCorrect == Spec => []TypeOK
BY Invariance, PTL

(* When the workflow itself closes the task, the pull request is merged:   *)
(* for any number of requests and merges at once, with the server dying    *)
(* between any two commits, answers lost, and people moving the task       *)
(* meanwhile (advance_after_run and complete_integration).                 *)
THEOREM ClosedTasksAreMerged == Spec => []ClosedMeansMerged
<1>1. WorkflowInv => ClosedMeansMerged
  BY DEF WorkflowInv
<1> QED
  BY <1>1, Invariance, PTL

=============================================================================
