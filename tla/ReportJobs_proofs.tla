-------------------------- MODULE ReportJobs_proofs --------------------------
(***************************************************************************)
(* Proofs about ReportJobs for every number of jobs and failures.          *)
(***************************************************************************)
EXTENDS ReportJobs, TLAPS

-------------------------------------------------------------------------------
(* Types                                                                     *)

LEMMA InitTypeOK == Init => TypeOK
  BY BoundsAssumption DEF Init, TypeOK, Jobs, RowOf, Row, NoRow, Status, Error, Holding, Working

LEMMA NextTypeOK == TypeOK /\ [Next]_vars => TypeOK'
<1> SUFFICES ASSUME TypeOK, [Next]_vars PROVE TypeOK'
  OBVIOUS
<1> USE BoundsAssumption DEF TypeOK, Jobs, Holding, Working
<1>1. CASE Create
  BY <1>1 DEF Create, workerVars, RowOf, Row, NoRow, Status, Error
<1>2. CASE CreateFails
  BY <1>2 DEF CreateFails, Fault, Answer, workerVars
<1>3. CASE Push
  BY <1>3 DEF Push, Answer, workerVars
<1>4. CASE PushFails
  <2>1. submitted \in Jobs /\ Append(queue, submitted) \in Seq(Jobs)
    BY <1>4 DEF PushFails
  <2> queue' \in Seq(Jobs)
    BY <1>4, <2>1 DEF PushFails
  <2>2. QED
    BY <1>4, <2>1 DEF PushFails, Fault, workerVars
<1>5. CASE Compensate
  BY <1>5 DEF Compensate, Unpublished, Answer, workerVars, RowOf, Row, Status, Error
<1>6. CASE CompensateFails
  BY <1>6 DEF CompensateFails, Fault, Answer, workerVars
<1>7. CASE ApiCrash
  BY <1>7 DEF ApiCrash, Fault, Answer, workerVars
<1>8. CASE Requeue
  BY <1>8 DEF Requeue, Interrupted, apiVars, RowOf, Row, Status, Error
<1>9. CASE ListQueued
  BY <1>9 DEF ListQueued, apiVars, With
<1>10. CASE RecoverPush
  BY <1>10 DEF RecoverPush, apiVars
<1>11. CASE RecoverDone
  BY <1>11 DEF RecoverDone, apiVars
<1>12. CASE Dequeue
  BY <1>12 DEF Dequeue, apiVars
<1>13. CASE Claim
  <2>1. rows[wjob] \in Row /\ wjob \in Jobs
    BY <1>13 DEF Claim
  <2>2. RowOf("running", rows[wjob].attempts + 1, rows[wjob].report, "none") \in Row
    BY <2>1 DEF RowOf, Row, Status, Error
  <2>3. rows' \in [Jobs -> Row]
    BY <1>13, <2>2 DEF Claim, Claimed
  <2>4. QED
    BY <1>13, <2>1, <2>3 DEF Claim, apiVars
<1>14. CASE Generate
  BY <1>14 DEF Generate, apiVars, Row
<1>15. CASE GenerateFails
  BY <1>15 DEF GenerateFails, apiVars
<1>16. CASE Complete
  BY <1>16 DEF Complete, Finish, apiVars, RowOf, Row, Status, Error
<1>17. CASE Fail
  BY <1>17 DEF Fail, Finish, apiVars, RowOf, Row, Status, Error
<1>18. CASE WorkerDown
  BY <1>18 DEF WorkerDown, Fault, apiVars
<1>19. CASE UNCHANGED vars
  BY <1>19 DEF vars, apiVars, workerVars
<1>20. QED
  BY <1>1, <1>2, <1>3, <1>4, <1>5, <1>6, <1>7, <1>8, <1>9, <1>10, <1>11,
     <1>12, <1>13, <1>14, <1>15, <1>16, <1>17, <1>18, <1>19 DEF Next

\* Every reachable state is well typed, whatever fails.
THEOREM TypeCorrect == Spec => []TypeOK
  BY InitTypeOK, NextTypeOK, PTL DEF Spec

-------------------------------------------------------------------------------
(* The inductive invariant                                                   *)
(*                                                                           *)
(* SingleExecution alone is not inductive: Create needs to know that an id   *)
(* that was never handed out has no row and no history, Complete that the    *)
(* report of the attempt has been stored, and Compensate that only a FAILED  *)
(* row carries an error.                                                     *)

\* Ids the factory has not returned yet are unused.
FreshJobs ==
  \A j \in Jobs : j > submitted =>
    rows[j] = NoRow /\ requeues[j] = 0 /\ reply[j] = "none"

\* Only a FAILED row carries an error.
ErrorsMatch == \A j \in Jobs : rows[j].error # "none" => rows[j].status = "failed"

\* The report complete() will point to is stored.
ReportStored == wpc = "completing" => <<wjob, rows[wjob].attempts>> \in reports

IInv ==
  /\ TypeOK
  /\ FreshJobs
  /\ ErrorsMatch
  /\ ReportStored
  /\ SingleExecution
  /\ AttemptsMatchRecoveries
  /\ CompletedHasItsReport
  /\ AcceptedNotLost

LEMMA InitIInv == Init => IInv
<1> SUFFICES ASSUME Init PROVE IInv
  OBVIOUS
<1>1. TypeOK
  BY InitTypeOK
<1>2. \A j \in Jobs : rows[j] = NoRow /\ requeues[j] = 0 /\ reply[j] = "none"
  BY DEF Init
<1>3. QED
  BY <1>1, <1>2 DEF Init, IInv, FreshJobs, ErrorsMatch, ReportStored, SingleExecution,
     AttemptsMatchRecoveries, Executions, CompletedHasItsReport, AcceptedNotLost, NoRow, RowOf,
     With, Working

\* What a step that leaves the rows, the history and the reports alone, and moves the
\* Worker between places where no row is claimed, keeps.
LEMMA RowsUntouched ==
  ASSUME IInv, UNCHANGED <<rows, requeues>>, reports \subseteq reports',
         \/ UNCHANGED <<wpc, wjob>>
         \/ wpc \notin Working \union {"down"} /\ wpc' \notin Working
         \/ wpc' = "down"
  PROVE  /\ ErrorsMatch' /\ ReportStored' /\ SingleExecution'
         /\ AttemptsMatchRecoveries' /\ CompletedHasItsReport'
<1> USE DEF IInv, Working
<1>1. ErrorsMatch' /\ AttemptsMatchRecoveries'
  BY DEF ErrorsMatch, AttemptsMatchRecoveries
<1>2. CompletedHasItsReport'
  BY DEF CompletedHasItsReport
<1>3. ReportStored'
  BY DEF ReportStored
<1>4. SingleExecution'
  BY DEF SingleExecution, With
<1>5. QED
  BY <1>1, <1>2, <1>3, <1>4

\* Pushing an id adds it to what is in the list.
LEMMA PushReaches ==
  ASSUME queue \in Seq(Jobs), NEW x \in Jobs, queue' = Append(queue, x)
  PROVE  Pending' = Pending \union {x}
<1>1. Len(queue') = Len(queue) + 1 /\ queue'[Len(queue) + 1] = x
  OBVIOUS
<1>2. \A i \in DOMAIN queue : i \in DOMAIN queue' /\ queue'[i] = queue[i]
  BY <1>1
<1>3. \A i \in DOMAIN queue' : i \in DOMAIN queue \/ i = Len(queue) + 1
  BY <1>1
<1>4. Len(queue) + 1 \in DOMAIN queue'
  BY <1>1
<1>5. QED
  BY <1>1, <1>2, <1>3, <1>4 DEF Pending

\* Popping removes no id but the first.
LEMMA PopKeepsOthers ==
  ASSUME queue \in Seq(Jobs), queue # <<>>, queue' = Tail(queue)
  PROVE  Pending \subseteq Pending' \union {Head(queue)}
<1>1. ASSUME NEW i \in DOMAIN queue, i # 1
      PROVE  i - 1 \in DOMAIN queue' /\ queue'[i - 1] = queue[i]
  BY <1>1
<1>2. QED
  BY <1>1 DEF Pending

\* Accepted jobs stay reachable when no row becomes QUEUED, nobody is newly accepted, the
\* list only grows, and the Worker keeps what it knows.
LEMMA StillReachable ==
  ASSUME AcceptedNotLost,
         \A j \in Jobs : (rows[j].status = "queued")' => rows[j].status = "queued",
         \A j \in Jobs : (reply[j] = "accepted")' => reply[j] = "accepted",
         Pending \subseteq Pending',
         UNCHANGED workerVars
  PROVE  AcceptedNotLost'
  BY DEF AcceptedNotLost, workerVars

LEMMA NextIInv == IInv /\ [Next]_vars => IInv'
<1> SUFFICES ASSUME IInv, [Next]_vars PROVE IInv'
  OBVIOUS
<1> USE DEF IInv
<1>0. TypeOK'
  BY NextTypeOK
<1>1. CASE Create
  <2> DEFINE x == submitted + 1
  <2>1. /\ x \in Jobs /\ rows[x] = NoRow /\ requeues[x] = 0 /\ reply[x] = "none"
        /\ rows'[x] = RowOf("queued", 0, 0, "none")
        /\ \A j \in Jobs : j # x => rows'[j] = rows[j]
        /\ submitted' = x
        /\ UNCHANGED <<queue, reports, reply, wpc, wjob, todo, requeues>>
    BY <1>1, BoundsAssumption DEF Create, FreshJobs, TypeOK, Jobs, workerVars
  <2>2. FreshJobs'
    BY <2>1 DEF FreshJobs, TypeOK, Jobs
  <2>3. ErrorsMatch' /\ AttemptsMatchRecoveries' /\ CompletedHasItsReport'
    BY <2>1 DEF ErrorsMatch, AttemptsMatchRecoveries, Executions,
       CompletedHasItsReport, RowOf
  <2>4. rows[x].status = "absent"
    BY <2>1 DEF NoRow, RowOf
  <2>5. wpc \in Working => wjob \in Jobs /\ wjob # x
    BY <2>4 DEF SingleExecution, TypeOK, Holding
  <2>6. SingleExecution' /\ ReportStored'
    BY <2>1, <2>5 DEF SingleExecution, ReportStored, RowOf, Working
  <2>7. AcceptedNotLost'
    BY <2>1, <2>4 DEF AcceptedNotLost, RowOf, Pending
  <2>8. QED
    BY <1>0, <2>2, <2>3, <2>6, <2>7
<1>2. CASE CreateFails \/ Push \/ PushFails \/ CompensateFails \/ ApiCrash
  <2>1. /\ submitted' \in {submitted, submitted + 1}
        /\ UNCHANGED <<rows, reports, wpc, wjob, todo, requeues>>
        /\ \A j \in Jobs : j # submitted' => reply'[j] = reply[j]
    BY <1>2 DEF CreateFails, Push, PushFails, CompensateFails, ApiCrash, Answer, TypeOK,
       workerVars, Jobs
  <2>2. FreshJobs'
    BY <2>1 DEF FreshJobs, TypeOK, Jobs
  <2>3. ErrorsMatch' /\ ReportStored' /\ SingleExecution' /\ AttemptsMatchRecoveries'
        /\ CompletedHasItsReport'
    BY <2>1, RowsUntouched
  <2>4. ASSUME Push PROVE AcceptedNotLost'
    <3>1. submitted \in Jobs /\ queue' = Append(queue, submitted)
          /\ submitted' = submitted
      BY <2>4 DEF Push, TypeOK
    <3>2. submitted \in Pending' /\ Pending \subseteq Pending'
      BY <3>1, PushReaches DEF TypeOK
    <3>3. QED
      BY <2>1, <3>1, <3>2 DEF AcceptedNotLost
  <2>5. ASSUME PushFails PROVE AcceptedNotLost'
    <3>1. submitted \in Jobs /\ queue' \in {queue, Append(queue, submitted)}
          /\ reply' = reply
      BY <2>5 DEF PushFails, TypeOK
    <3>2. Pending \subseteq Pending'
      BY <3>1, PushReaches DEF TypeOK, Pending
    <3>3. QED
      BY <2>1, <3>1, <3>2, StillReachable DEF workerVars
  <2>6. ASSUME CreateFails \/ CompensateFails \/ ApiCrash PROVE AcceptedNotLost'
    <3>1. queue' = queue /\ \A j \in Jobs : (reply[j] = "accepted")' => reply[j] = "accepted"
      BY <2>6 DEF CreateFails, CompensateFails, ApiCrash, Answer, TypeOK, Jobs
    <3>2. QED
      BY <2>1, <3>1, StillReachable DEF workerVars, Pending
  <2>7. AcceptedNotLost'
    BY <1>2, <2>4, <2>5, <2>6
  <2>8. QED
    BY <1>0, <2>2, <2>3, <2>7
<1>3. CASE Compensate
  <2> DEFINE x == submitted
  <2>1. /\ x \in Jobs
        /\ UNCHANGED <<submitted, queue, reports, wpc, wjob, todo, requeues>>
        /\ \A j \in Jobs : j # x => rows'[j] = rows[j] /\ reply'[j] = reply[j]
        /\ reply'[x] = "rejected"
    BY <1>3 DEF Compensate, Unpublished, Answer, TypeOK, workerVars
  <2>2. \/ rows'[x] = rows[x]
        \/ /\ rows[x].status = "queued"
           /\ rows'[x] = RowOf("failed", rows[x].attempts, 0, "report_queue_unavailable")
    BY <2>1, <1>3 DEF Compensate, Unpublished, TypeOK
  <2>3. FreshJobs'
    BY <2>1 DEF FreshJobs, TypeOK, Jobs
  <2>4. ErrorsMatch' /\ CompletedHasItsReport'
    BY <2>1, <2>2 DEF ErrorsMatch, CompletedHasItsReport, RowOf
  <2>5. AttemptsMatchRecoveries'
    BY <2>1, <2>2 DEF AttemptsMatchRecoveries, Executions, ErrorsMatch, RowOf
  <2>6. wpc \in Working => wjob \in Jobs /\ rows'[wjob] = rows[wjob]
    BY <2>1, <2>2 DEF SingleExecution, TypeOK, Holding
  <2>7. \A j \in Jobs : rows'[j].status = "running" => rows[j].status = "running"
    BY <2>1, <2>2 DEF RowOf
  <2>8. ReportStored' /\ SingleExecution'
    BY <2>1, <2>6, <2>7 DEF ReportStored, SingleExecution, Working
  <2>9. AcceptedNotLost'
    BY <2>1, <2>2, StillReachable DEF workerVars, Pending, RowOf
  <2>10. QED
    BY <1>0, <2>3, <2>4, <2>5, <2>8, <2>9
<1>4. CASE Requeue
  <2>1. /\ UNCHANGED <<queue, reports, submitted, reply, wjob, todo>>
        /\ wpc = "down" /\ wpc' = "listing"
        /\ \A j \in Jobs : rows[j].status = "running" =>
             /\ rows'[j] = RowOf("queued", rows[j].attempts, rows[j].report, "none")
             /\ requeues'[j] = requeues[j] + 1
        /\ \A j \in Jobs : rows[j].status # "running" =>
             rows'[j] = rows[j] /\ requeues'[j] = requeues[j]
    BY <1>4 DEF Requeue, Interrupted, apiVars, TypeOK
  <2>2. \A j \in Jobs :
          /\ rows'[j].status = IF rows[j].status = "running" THEN "queued"
                                                           ELSE rows[j].status
          /\ rows'[j].error = IF rows[j].status = "running" THEN "none" ELSE rows[j].error
          /\ rows'[j].attempts = rows[j].attempts
          /\ rows'[j].report = rows[j].report
    <3> TAKE j \in Jobs
    <3>2. CASE rows[j].status = "running"
      <4>1. rows'[j] = RowOf("queued", rows[j].attempts, rows[j].report, "none")
        BY <2>1, <3>2
      <4>2. /\ rows'[j].status = "queued" /\ rows'[j].error = "none"
            /\ rows'[j].attempts = rows[j].attempts
            /\ rows'[j].report = rows[j].report
        BY <4>1 DEF RowOf
      <4>3. QED
        BY <3>2, <4>2
    <3>3. CASE rows[j].status # "running"
      BY <2>1, <3>3
    <3>4. QED
      BY <3>2, <3>3
  <2>3. \A j \in Jobs : rows[j] = NoRow => rows[j].status # "running"
    BY DEF NoRow, RowOf
  <2>4. FreshJobs'
    BY <2>1, <2>3 DEF FreshJobs
  <2>5. ErrorsMatch'
    BY <2>1, <2>2 DEF ErrorsMatch
  <2>6. CompletedHasItsReport'
    BY <2>1, <2>2 DEF CompletedHasItsReport
  <2>7. ASSUME NEW j \in Jobs
        PROVE  rows'[j].attempts = requeues'[j] + Executions(rows'[j])
    <3>1. requeues[j] \in Nat /\ rows[j].attempts = requeues[j] + Executions(rows[j])
      BY DEF AttemptsMatchRecoveries, TypeOK
    <3>2. CASE rows[j].status = "running"
      BY <2>1, <2>2, <3>1, <3>2 DEF Executions
    <3>3. CASE rows[j].status # "running"
      BY <2>1, <3>1, <3>3
    <3>4. QED
      BY <3>2, <3>3
  <2>8. ReportStored' /\ SingleExecution' /\ AcceptedNotLost'
    BY <2>1, <2>2 DEF ReportStored, SingleExecution, AcceptedNotLost, Working
  <2>9. QED
    BY <1>0, <2>4, <2>5, <2>6, <2>7, <2>8 DEF AttemptsMatchRecoveries
<1>5. CASE ListQueued \/ RecoverPush \/ RecoverDone \/ Dequeue \/ WorkerDown
  <2>1. UNCHANGED <<rows, reports, submitted, reply, requeues>>
    BY <1>5 DEF ListQueued, RecoverPush, RecoverDone, Dequeue, WorkerDown, apiVars
  <2>2. \/ UNCHANGED <<wpc, wjob>>
        \/ wpc \notin Working \union {"down"} /\ wpc' \notin Working
        \/ wpc' = "down"
    BY <1>5 DEF ListQueued, RecoverPush, RecoverDone, Dequeue, WorkerDown, Working
  <2>3. FreshJobs'
    BY <2>1 DEF FreshJobs
  <2>4. ErrorsMatch' /\ ReportStored' /\ SingleExecution' /\ AttemptsMatchRecoveries'
        /\ CompletedHasItsReport'
    BY <2>1, <2>2, RowsUntouched
  <2>5. ASSUME ListQueued PROVE AcceptedNotLost'
    BY <2>1, <2>5 DEF ListQueued, AcceptedNotLost, With
  <2>6. ASSUME RecoverPush PROVE AcceptedNotLost'
    <3>1. PICK x \in todo : queue' = Append(queue, x) /\ todo' = todo \ {x}
      BY <2>6 DEF RecoverPush
    <3>2. x \in Jobs /\ UNCHANGED <<wpc, wjob>>
      BY <2>6 DEF TypeOK, RecoverPush
    <3>3. x \in Pending' /\ Pending \subseteq Pending'
      BY <3>1, <3>2, PushReaches DEF TypeOK
    <3>4. QED
      BY <2>1, <3>1, <3>2, <3>3 DEF AcceptedNotLost
  <2>7. ASSUME RecoverDone PROVE AcceptedNotLost'
    BY <2>1, <2>7 DEF RecoverDone, AcceptedNotLost, Pending
  <2>8. ASSUME Dequeue PROVE AcceptedNotLost'
    <3>1. Pending \subseteq Pending' \union {Head(queue)}
      BY <2>8, PopKeepsOthers DEF Dequeue, TypeOK
    <3>2. QED
      BY <2>1, <3>1, <2>8 DEF Dequeue, AcceptedNotLost, TypeOK
  <2>9. ASSUME WorkerDown PROVE AcceptedNotLost'
    BY <2>1, <2>9 DEF WorkerDown, AcceptedNotLost
  <2>10. AcceptedNotLost'
    BY <1>5, <2>5, <2>6, <2>7, <2>8, <2>9
  <2>11. QED
    BY <1>0, <2>3, <2>4, <2>10
<1>6. CASE Claim
  <2>1. /\ wpc = "popped" /\ wjob \in Jobs
        /\ UNCHANGED <<queue, reports, submitted, reply, todo, requeues>>
        /\ \A j \in Jobs : j # wjob => rows'[j] = rows[j]
    BY <1>6 DEF Claim, Claimed, apiVars, TypeOK, Holding
  <2>2. \A j \in Jobs : rows[j].status # "running"
    BY <2>1 DEF SingleExecution, Working
  <2>3. CASE rows[wjob].status = "queued"
    <3>1. /\ rows'[wjob] = RowOf("running", rows[wjob].attempts + 1, rows[wjob].report, "none")
          /\ wpc' = "generating" /\ wjob' = wjob
      BY <1>6, <2>1, <2>3 DEF Claim, Claimed, TypeOK
    <3>2. FreshJobs'
      BY <2>1, <2>3 DEF FreshJobs, NoRow, RowOf
    <3>3. ErrorsMatch' /\ CompletedHasItsReport' /\ ReportStored'
      BY <2>1, <2>3, <3>1 DEF ErrorsMatch, CompletedHasItsReport, ReportStored, RowOf
    <3>4. AttemptsMatchRecoveries'
      BY <2>1, <2>3, <3>1 DEF AttemptsMatchRecoveries, Executions, ErrorsMatch, RowOf, TypeOK
    <3>5. SingleExecution'
      BY <2>1, <2>2, <3>1 DEF SingleExecution, RowOf, With, Working
    <3>6. AcceptedNotLost'
      BY <2>1, <3>1 DEF AcceptedNotLost, RowOf, Pending
    <3>7. QED
      BY <1>0, <3>2, <3>3, <3>4, <3>5, <3>6
  <2>4. CASE rows[wjob].status # "queued"
    <3>1. rows' = rows /\ wpc' = "idle"
      BY <1>6, <2>4 DEF Claim
    <3>2. ErrorsMatch' /\ ReportStored' /\ SingleExecution' /\ AttemptsMatchRecoveries'
          /\ CompletedHasItsReport'
      BY <2>1, <3>1, RowsUntouched DEF Working
    <3>3. FreshJobs' /\ AcceptedNotLost'
      BY <2>1, <2>4, <3>1 DEF FreshJobs, AcceptedNotLost, Pending
    <3>4. QED
      BY <1>0, <3>2, <3>3
  <2>5. QED
    BY <2>3, <2>4
<1>7. CASE Generate \/ GenerateFails
  <2>1. /\ wpc = "generating" /\ wpc' \in {"completing", "failing"}
        /\ UNCHANGED <<rows, queue, submitted, reply, wjob, todo, requeues>>
        /\ reports \subseteq reports'
        /\ wpc' = "completing" => <<wjob, rows[wjob].attempts>> \in reports'
    BY <1>7 DEF Generate, GenerateFails, apiVars
  <2>2. FreshJobs' /\ ErrorsMatch' /\ AttemptsMatchRecoveries' /\ CompletedHasItsReport'
    BY <2>1 DEF FreshJobs, ErrorsMatch, AttemptsMatchRecoveries, CompletedHasItsReport
  <2>3. ReportStored' /\ SingleExecution' /\ AcceptedNotLost'
    BY <2>1 DEF ReportStored, SingleExecution, AcceptedNotLost, Working, With, Pending
  <2>4. QED
    BY <1>0, <2>2, <2>3
<1>8. CASE Complete \/ Fail
  <2> DEFINE x == wjob
  <2>1. /\ x \in Jobs /\ wpc \in Working /\ wpc' = "idle" /\ rows[x].status = "running"
        /\ UNCHANGED <<queue, reports, submitted, reply, todo, requeues>>
        /\ \A j \in Jobs : j # x => rows'[j] = rows[j]
    BY <1>8 DEF Complete, Fail, Finish, apiVars, TypeOK, Holding, Working
  <2>2. \/ /\ rows'[x] = RowOf("completed", rows[x].attempts, rows[x].attempts, "none")
           /\ <<x, rows[x].attempts>> \in reports
        \/ rows'[x] = RowOf("failed", rows[x].attempts, 0, "report_generation_failed")
    BY <2>1, <1>8 DEF Complete, Fail, Finish, TypeOK, ReportStored
  <2>3. \A j \in Jobs : rows'[j].status # "running"
    BY <2>1, <2>2 DEF SingleExecution, RowOf, Working
  <2>4. FreshJobs'
    BY <2>1 DEF FreshJobs, NoRow, RowOf
  <2>5. ErrorsMatch' /\ CompletedHasItsReport'
    BY <2>1, <2>2 DEF ErrorsMatch, CompletedHasItsReport, RowOf
  <2>6. AttemptsMatchRecoveries'
    BY <2>1, <2>2 DEF AttemptsMatchRecoveries, Executions, RowOf
  <2>7. ReportStored' /\ SingleExecution'
    BY <2>1, <2>3 DEF ReportStored, SingleExecution, Working, With
  <2>8. AcceptedNotLost'
    BY <2>1, <2>2 DEF AcceptedNotLost, RowOf, Pending, Working
  <2>9. QED
    BY <1>0, <2>4, <2>5, <2>6, <2>7, <2>8
<1>9. CASE UNCHANGED vars
  BY <1>0, <1>9 DEF vars, apiVars, workerVars, FreshJobs, ErrorsMatch, ReportStored,
     SingleExecution, AttemptsMatchRecoveries, CompletedHasItsReport, AcceptedNotLost,
     With, Pending
<1>10. QED
  BY <1>1, <1>2, <1>3, <1>4, <1>5, <1>6, <1>7, <1>8, <1>9 DEF Next

LEMMA Inductive == Spec => []IInv
  BY InitIInv, NextIInv, PTL DEF Spec

\* At most one generation of a report runs, however the queue repeats ids and the
\* Worker is restarted (claim wants a QUEUED row).
THEOREM OneExecutionAtATime == Spec => []SingleExecution
  BY Inductive, PTL DEF IInv

\* An accepted job that still waits is in the queue or in the Worker's hands, or the
\* recovery at the Worker's start has still to push it.
THEOREM AcceptedJobsStayReachable == Spec => []AcceptedNotLost
  BY Inductive, PTL DEF IInv

\* A row is claimed once, and once more only for each time recovery requeued it,
\* however often its id is delivered.
THEOREM DuplicatesNeverReexecute == Spec => []AttemptsMatchRecoveries
  BY Inductive, PTL DEF IInv

\* A COMPLETED row names a report that was stored by its own last attempt.
THEOREM CompletedJobsHaveReports == Spec => []CompletedHasItsReport
  BY Inductive, PTL DEF IInv

-------------------------------------------------------------------------------
(* Steps                                                                     *)

LEMMA FinishedStaysFinished ==
  ASSUME IInv, [Next]_vars, NEW j \in Jobs, rows[j].status \in Terminal
  PROVE  rows'[j] = rows[j]
<1> USE DEF IInv, TypeOK, Terminal
<1>1. CASE Create
  BY <1>1, BoundsAssumption DEF Create, FreshJobs, Jobs, NoRow, RowOf
<1>2. CASE Compensate
  BY <1>2 DEF Compensate, Unpublished
<1>3. CASE Requeue
  BY <1>3 DEF Requeue
<1>4. CASE Claim
  BY <1>4 DEF Claim, Claimed
<1>5. CASE Complete \/ Fail
  BY <1>5 DEF Complete, Fail, Finish
<1>6. CASE UNCHANGED rows
  BY <1>6
<1>7. QED
  BY <1>1, <1>2, <1>3, <1>4, <1>5, <1>6
     DEF Next, CreateFails, Push, PushFails, CompensateFails, ApiCrash, ListQueued,
     RecoverPush, RecoverDone, Dequeue, Generate, GenerateFails, WorkerDown, vars

\* No late compensation, duplicate message or recovery changes a finished job.
THEOREM FinishedJobsAreFinal == Spec => FinishedIsFinal
<1>1. IInv /\ [Next]_vars =>
        [\A j \in Jobs : rows[j].status \in Terminal => rows'[j] = rows[j]]_vars
  BY FinishedStaysFinished
<1>2. QED
  BY <1>1, Inductive, PTL DEF Spec, FinishedIsFinal

-------------------------------------------------------------------------------
(* Refinement                                                                *)

LEMMA InitMapsToInit == Init => Tasks!TaskInit
  BY DEF Init, Tasks!TaskInit, NoRow, RowOf

\* One job's row changes: what the mapped variables do.
LEMMA OneRow ==
  ASSUME TypeOK, NEW x \in Jobs, NEW r \in Row, rows' = [rows EXCEPT ![x] = r]
  PROVE  /\ [j \in Jobs |-> rows'[j].status]
              = [[j \in Jobs |-> rows[j].status] EXCEPT ![x] = r.status]
         /\ [j \in Jobs |-> rows'[j].report]
              = [[j \in Jobs |-> rows[j].report] EXCEPT ![x] = r.report]
  BY DEF TypeOK

\* The move of one task that a change of one row is.
LEMMA RowMoves ==
  ASSUME TypeOK, NEW x \in Jobs, NEW r \in Row, rows' = [rows EXCEPT ![x] = r]
  PROVE  /\ Tasks!Move(x, rows[x].status, r.status)
         /\ r.report = rows[x].report =>
              [j \in Jobs |-> rows'[j].report] = [j \in Jobs |-> rows[j].report]
<1>1. [j \in Jobs |-> rows'[j].report]
        = [[j \in Jobs |-> rows[j].report] EXCEPT ![x] = r.report]
  BY OneRow
<1>2. r.report = rows[x].report =>
        [[j \in Jobs |-> rows[j].report] EXCEPT ![x] = r.report]
          = [j \in Jobs |-> rows[j].report]
  OBVIOUS
<1>3. Tasks!Move(x, rows[x].status, r.status)
  BY OneRow DEF Tasks!Move
<1>4. QED
  BY <1>1, <1>2, <1>3

\* A step of one task is a step of the abstract service.
LEMMA OneTaskSteps ==
  ASSUME NEW x \in Jobs,
         \/ Tasks!Submit(x) \/ Tasks!Withdraw(x) \/ Tasks!Start(x)
            \/ Tasks!Write(x) \/ Tasks!Succeed(x) \/ Tasks!Fail(x) \/ Tasks!Interrupt(x)
  PROVE  Tasks!TaskNext
  BY DEF Tasks!TaskNext

LEMMA NextMapsToTaskNext ==
  IInv /\ IInv' /\ [Next]_vars => [Tasks!TaskNext]_(Tasks!taskVars)
<1> SUFFICES ASSUME IInv, IInv', [Next]_vars PROVE [Tasks!TaskNext]_(Tasks!taskVars)
  OBVIOUS
<1>0. TypeOK /\ wjob \in Jobs \union {0} /\ rows \in [Jobs -> Row]
  BY DEF IInv, TypeOK
<1>1. CASE Create
  <2>1. PICK x \in Jobs : x = submitted + 1
    BY <1>1, BoundsAssumption DEF Create, IInv, TypeOK, Jobs
  <2> DEFINE r == RowOf("queued", 0, 0, "none")
  <2>2. rows[x] = NoRow /\ r \in Row
    BY <2>1 DEF IInv, FreshJobs, TypeOK, Jobs, RowOf, Row, Status, Error
  <2>3. rows' = [rows EXCEPT ![x] = r] /\ reports' = reports
    BY <1>1, <2>1 DEF Create
  <2>4. rows[x].status = "absent" /\ r.status = "queued" /\ r.report = rows[x].report
    BY <2>2 DEF NoRow, RowOf
  <2> HIDE DEF r
  <2>5. Tasks!Submit(x)
    BY <1>0, <2>2, <2>3, <2>4, RowMoves DEF Tasks!Submit
  <2>6. QED
    BY <2>5, OneTaskSteps
<1>2. CASE Compensate /\ rows[submitted].status = "queued"
  <2>1. PICK x \in Jobs : x = submitted
    BY <1>2 DEF Compensate, IInv, TypeOK
  <2> DEFINE r == RowOf("failed", rows[x].attempts, 0, "report_queue_unavailable")
  <2>2. rows[x] \in Row /\ rows[x].status = "queued" /\ rows[x].report = 0
    BY <1>0, <1>2, <2>1 DEF IInv, CompletedHasItsReport
  <2>3. r \in Row
    BY <2>2 DEF RowOf, Row, Status, Error
  <2>4. rows' = [rows EXCEPT ![x] = r] /\ reports' = reports
    BY <1>2, <2>1 DEF Compensate, Unpublished
  <2>5. r.status = "failed" /\ r.report = rows[x].report
    BY <2>2 DEF RowOf
  <2> HIDE DEF r
  <2>6. Tasks!Withdraw(x)
    BY <1>0, <2>2, <2>3, <2>4, <2>5, RowMoves DEF Tasks!Withdraw
  <2>7. QED
    BY <2>6, OneTaskSteps
<1>3. CASE Claim /\ rows[wjob].status = "queued"
  <2>1. PICK x \in Jobs : x = wjob
    BY <1>3 DEF Claim, IInv, TypeOK, Holding
  <2> DEFINE r == RowOf("running", rows[x].attempts + 1, rows[x].report, "none")
  <2>2. wpc = "popped" /\ rows[x] \in Row /\ rows[x].status = "queued"
    BY <1>0, <1>3, <2>1 DEF Claim
  <2>3. r \in Row
    BY <2>2 DEF RowOf, Row, Status, Error
  <2>4. rows' = [rows EXCEPT ![x] = r] /\ reports' = reports
    BY <1>3, <2>1 DEF Claim, Claimed
  <2>5. r.status = "running" /\ r.report = rows[x].report
    BY DEF RowOf
  <2>6. \A u \in Jobs : [j \in Jobs |-> rows[j].status][u] # "running"
    BY <2>2 DEF IInv, SingleExecution, Working
  <2> HIDE DEF r
  <2>7. Tasks!Start(x)
    BY <1>0, <2>2, <2>3, <2>4, <2>5, <2>6, RowMoves DEF Tasks!Start
  <2>8. QED
    BY <2>7, OneTaskSteps
<1>4. CASE Complete
  <2>1. PICK x \in Jobs : x = wjob
    BY <1>4 DEF Complete, Finish, IInv, TypeOK, Holding, Working
  <2> DEFINE e == <<x, rows[x].attempts>>
             r == RowOf("completed", rows[x].attempts, rows[x].attempts, "none")
  <2>2. e \in reports /\ rows[x] \in Row /\ rows[x].status = "running"
    BY <1>0, <1>4, <2>1 DEF Complete, Finish, IInv, ReportStored
  <2>3. r \in Row
    BY <2>2 DEF RowOf, Row, Status, Error
  <2>4. rows' = [rows EXCEPT ![x] = r] /\ reports' = reports
    BY <1>4, <2>1 DEF Complete, Finish
  <2>5. r.status = "completed" /\ r.report = e[2] /\ e[1] = x
    BY DEF RowOf
  <2> HIDE DEF e, r
  <2>6. Tasks!Move(x, "running", "completed")
    BY <1>0, <2>2, <2>3, <2>4, <2>5, RowMoves
  <2>7. [j \in Jobs |-> rows'[j].report] = [[j \in Jobs |-> rows[j].report] EXCEPT ![x] = e[2]]
    BY <1>0, <2>3, <2>4, <2>5, OneRow
  <2>8. Tasks!Succeed(x)
    BY <2>2, <2>4, <2>5, <2>6, <2>7 DEF Tasks!Succeed
  <2>9. QED
    BY <2>8, OneTaskSteps
<1>5. CASE Fail
  <2>1. PICK x \in Jobs : x = wjob
    BY <1>5 DEF Fail, Finish, IInv, TypeOK, Holding, Working
  <2> DEFINE r == RowOf("failed", rows[x].attempts, 0, "report_generation_failed")
  <2>2. rows[x] \in Row /\ rows[x].status = "running" /\ rows[x].report = 0
    BY <1>0, <1>5, <2>1 DEF Fail, Finish, IInv, CompletedHasItsReport
  <2>3. r \in Row
    BY <2>2 DEF RowOf, Row, Status, Error
  <2>4. rows' = [rows EXCEPT ![x] = r] /\ reports' = reports
    BY <1>5, <2>1 DEF Fail, Finish
  <2>5. r.status = "failed" /\ r.report = rows[x].report
    BY <2>2 DEF RowOf
  <2> HIDE DEF r
  <2>6. Tasks!Fail(x)
    BY <1>0, <2>2, <2>3, <2>4, <2>5, RowMoves DEF Tasks!Fail
  <2>7. QED
    BY <2>6, OneTaskSteps
<1>6. CASE Generate
  <2>1. PICK x \in Jobs : x = wjob
    BY <1>6 DEF Generate, IInv, TypeOK, Holding, Working
  <2> DEFINE e == <<x, rows[x].attempts>>
  <2>2. /\ rows[x].status = "running" /\ rows' = rows
        /\ reports' = reports \union {e} /\ e[1] = x
    BY <1>6, <2>1 DEF Generate, IInv, SingleExecution, Working
  <2> HIDE DEF e
  <2>3. CASE e \in reports
    BY <2>2, <2>3 DEF Tasks!taskVars
  <2>4. CASE e \notin reports
    <3>1. Tasks!Write(x)
      BY <2>2, <2>4 DEF Tasks!Write
    <3>2. QED
      BY <3>1, OneTaskSteps
  <2>5. QED
    BY <2>3, <2>4
<1>7. CASE Requeue
  <2>1. reports' = reports
    BY <1>7 DEF Requeue
  <2>2. CASE \E x \in Jobs : rows[x].status = "running"
    <3>1. PICK x \in Jobs : rows[x].status = "running"
      BY <2>2
    <3>2. \A j \in Jobs : rows[j].status = "running" => j = x
      BY <3>1 DEF IInv, SingleExecution
    <3> DEFINE r == RowOf("queued", rows[x].attempts, rows[x].report, "none")
    <3>3. r \in Row
      BY <1>0 DEF RowOf, Row, Status, Error
    <3>4. rows' = [rows EXCEPT ![x] = r]
      BY <1>0, <1>7, <3>1, <3>2 DEF Requeue, Interrupted
    <3>5. r.status = "queued" /\ r.report = rows[x].report
      BY DEF RowOf
    <3> HIDE DEF r
    <3>6. Tasks!Interrupt(x)
      BY <1>0, <2>1, <3>1, <3>3, <3>4, <3>5, RowMoves DEF Tasks!Interrupt
    <3>7. QED
      BY <3>6, OneTaskSteps
  <2>3. CASE ~ \E x \in Jobs : rows[x].status = "running"
    <3>1. rows' = rows
      BY <1>0, <1>7, <2>3 DEF Requeue
    <3>2. QED
      BY <2>1, <3>1 DEF Tasks!taskVars
  <2>4. QED
    BY <2>2, <2>3
<1>8. CASE UNCHANGED <<rows, reports>>
  BY <1>8 DEF Tasks!taskVars
<1>9. UNCHANGED <<rows, reports>>
      \/ Create \/ Complete \/ Fail \/ Generate \/ Requeue
      \/ (Compensate /\ rows[submitted].status = "queued")
      \/ (Claim /\ rows[wjob].status = "queued")
  BY DEF Next, CreateFails, Push, PushFails, CompensateFails, ApiCrash, ListQueued,
     RecoverPush, RecoverDone, Dequeue, GenerateFails, WorkerDown, vars, Compensate, Claim
<1>10. QED
  BY <1>1, <1>2, <1>3, <1>4, <1>5, <1>6, <1>7, <1>8, <1>9

\* The processes, the queue and recovery implement the service of ReportTasks.
THEOREM JobsImplementTasks == Spec => ImplementsTasks
<1>1. Init => Tasks!TaskInit
  BY InitMapsToInit
<1>2. IInv /\ IInv' /\ [Next]_vars => [Tasks!TaskNext]_(Tasks!taskVars)
  BY NextMapsToTaskNext
<1>3. QED
  BY <1>1, <1>2, Inductive, PTL DEF Spec, ImplementsTasks, Tasks!TaskSpec
===============================================================================
