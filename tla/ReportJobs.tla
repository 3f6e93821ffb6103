------------------------------ MODULE ReportJobs ------------------------------
(***************************************************************************)
(* Durable report jobs.  The API process persists a job row in DuckDB and  *)
(* pushes its id to a Redis list; one Worker process pops ids, claims the  *)
(* row, generates the report and finishes the row.  DuckDB is the          *)
(* authority, Redis only transports ids.  Both processes may die between   *)
(* any two calls, and docker restarts them.                                *)
(*                                                                         *)
(* The API handler is a coroutine that calls submit() synchronously, so    *)
(* one submission is in flight at a time and job k is the k-th id the      *)
(* factory returned; created_at order is the order of these numbers.       *)
(* Every database call is one transaction under one file lock: one step.   *)
(***************************************************************************)
EXTENDS Integers, Sequences, FiniteSets

CONSTANTS
  MaxJobs,   \* bound: how many requests clients submit
  MaxFaults  \* bound: how many failures and process deaths happen

ASSUME BoundsAssumption == MaxJobs \in Nat /\ MaxFaults \in Nat

VARIABLES
  rows,       \* DuckDB table report_jobs
  queue,      \* Redis list of job ids
  reports,    \* COMPLETED reports in DuckDB, <<job, attempt that wrote it>>
  apc,        \* where the API is in submit() for job number `submitted`
  submitted,  \* how many job ids the API has generated
  reply,      \* what the submitting client was told
  wpc,        \* where the Worker process is
  wjob,       \* the id run_once is working on, 0 for none
  todo,       \* ids recover_interrupted still has to push
  requeues,   \* how often recovery returned a job to queued (history)
  faults      \* how many failures have happened (bounds the model)

apiVars    == <<apc, submitted, reply>>
workerVars == <<wpc, wjob, todo>>
vars == <<rows, queue, reports, apiVars, workerVars, requeues, faults>>

Jobs == 1..MaxJobs

Status == {"absent", "queued", "running", "completed", "failed"}
Error  == {"none", "report_queue_unavailable", "report_generation_failed"}
Row    == [status : Status, attempts : Nat, report : Nat, error : Error]

RowOf(status, attempts, report, error) ==
  [status |-> status, attempts |-> attempts, report |-> report, error |-> error]

NoRow == RowOf("absent", 0, 0, "none")

Terminal == {"completed", "failed"}
Working  == {"generating", "completing", "failing"}   \* a row is claimed
Holding  == Working \union {"popped"}                 \* run_once has an id

With(status) == {j \in Jobs : rows[j].status = status}
Pending      == {queue[i] : i \in DOMAIN queue}

Init ==
  /\ rows = [j \in Jobs |-> NoRow]
  /\ queue = <<>>
  /\ reports = {}
  /\ apc = "idle" /\ submitted = 0 /\ reply = [j \in Jobs |-> "none"]
  /\ wpc = "down" /\ wjob = 0 /\ todo = {}
  /\ requeues = [j \in Jobs |-> 0]
  /\ faults = 0

Fault == faults < MaxFaults /\ faults' = faults + 1

-------------------------------------------------------------------------------
(* DurableReportTaskService.submit                                           *)

Answer(what) ==
  /\ apc' = "idle"
  /\ reply' = [reply EXCEPT ![submitted'] = what]

\* jobs.create commits the QUEUED row.
Create ==
  /\ apc = "idle" /\ submitted < MaxJobs
  /\ submitted' = submitted + 1
  /\ rows' = [rows EXCEPT ![submitted + 1] = RowOf("queued", 0, 0, "none")]
  /\ apc' = "created"
  /\ UNCHANGED <<queue, reports, reply, workerVars, requeues, faults>>

\* jobs.create raises RepositoryError: nothing is stored, the client gets 503.
CreateFails ==
  /\ apc = "idle" /\ submitted < MaxJobs
  /\ Fault
  /\ submitted' = submitted + 1
  /\ Answer("rejected")
  /\ UNCHANGED <<rows, queue, reports, workerVars, requeues>>

\* queue.enqueue succeeds and the client gets 202.
Push ==
  /\ apc = "created"
  /\ queue' = Append(queue, submitted)
  /\ UNCHANGED submitted
  /\ Answer("accepted")
  /\ UNCHANGED <<rows, reports, workerVars, requeues, faults>>

\* queue.enqueue raises JobQueueError.  A lost answer and a lost command raise
\* the same RedisError, so the id may or may not be in the list.
PushFails ==
  /\ apc = "created"
  /\ Fault
  /\ queue' \in {queue, Append(queue, submitted)}
  /\ apc' = "compensating"
  /\ UNCHANGED <<rows, reports, submitted, reply, workerVars, requeues>>

Unpublished(j) ==
  [rows EXCEPT ![j] = RowOf("failed", rows[j].attempts, 0, "report_queue_unavailable")]

\* jobs.fail_queued closes the row if it is still QUEUED; if the Worker took it
\* meanwhile the UPDATE matches no row and raises.  Either way the answer is 503.
Compensate ==
  /\ apc = "compensating"
  /\ rows' = IF rows[submitted].status = "queued"
             THEN Unpublished(submitted)
             ELSE rows
  /\ UNCHANGED submitted
  /\ Answer("rejected")
  /\ UNCHANGED <<queue, reports, workerVars, requeues, faults>>

\* fail_queued cannot reach the database: 503, and the row stays as it is.
CompensateFails ==
  /\ apc = "compensating"
  /\ Fault
  /\ UNCHANGED submitted
  /\ Answer("rejected")
  /\ UNCHANGED <<rows, queue, reports, workerVars, requeues>>

\* The API process dies inside submit(): the client sees a broken connection.
ApiCrash ==
  /\ apc # "idle"
  /\ Fault
  /\ UNCHANGED submitted
  /\ Answer("lost")
  /\ UNCHANGED <<rows, queue, reports, workerVars, requeues>>

-------------------------------------------------------------------------------
(* ReportWorker.recover_interrupted, called once as the process starts       *)

\* Mutant of Requeue: the Worker starts without requeueing.
RequeueSkipped ==
  /\ wpc = "down"
  /\ wpc' = "listing"
  /\ UNCHANGED <<rows, queue, reports, apiVars, wjob, todo, requeues, faults>>

Interrupted(j) == RowOf("queued", rows[j].attempts, rows[j].report, "none")

\* Mutant of Requeue: failed rows are requeued as well.
RequeueAllClaimed ==
  /\ wpc = "down"
  /\ LET claimed == With("running") \union With("failed")
     IN  /\ rows' = [j \in Jobs |-> IF j \in claimed
                                    THEN Interrupted(j)
                                    ELSE rows[j]]
         /\ requeues' = [j \in Jobs |-> IF j \in claimed THEN requeues[j] + 1
                                                         ELSE requeues[j]]
  /\ wpc' = "listing"
  /\ UNCHANGED <<queue, reports, apiVars, wjob, todo, faults>>

\* The process starts and requeue_interrupted returns every RUNNING row to
\* QUEUED in one transaction.
Requeue ==
  /\ wpc = "down"
  /\ rows' = [j \in Jobs |-> IF rows[j].status = "running"
                             THEN Interrupted(j)
                             ELSE rows[j]]
  /\ requeues' = [j \in Jobs |-> IF rows[j].status = "running" THEN requeues[j] + 1
                                                               ELSE requeues[j]]
  /\ wpc' = "listing"
  /\ UNCHANGED <<queue, reports, apiVars, wjob, todo, faults>>

\* Mutant of ListQueued: only interrupted jobs are pushed again.
ListOnlyRecovered ==
  /\ wpc = "listing"
  /\ todo' = {j \in With("queued") : rows[j].attempts > 0}
  /\ wpc' = "recovering"
  /\ UNCHANGED <<rows, queue, reports, apiVars, wjob, requeues, faults>>

\* list_queued reads every QUEUED row, oldest first.
ListQueued ==
  /\ wpc = "listing"
  /\ todo' = With("queued")
  /\ wpc' = "recovering"
  /\ UNCHANGED <<rows, queue, reports, apiVars, wjob, requeues, faults>>

\* The loop over that list pushes one id, in created_at order.
RecoverPush ==
  /\ wpc = "recovering"
  /\ \E j \in todo :
       /\ \A k \in todo : j <= k
       /\ queue' = Append(queue, j)
       /\ todo' = todo \ {j}
  /\ UNCHANGED <<rows, reports, apiVars, wpc, wjob, requeues, faults>>

\* The list is exhausted and main() enters its loop.
RecoverDone ==
  /\ wpc = "recovering" /\ todo = {}
  /\ wpc' = "idle"
  /\ UNCHANGED <<rows, queue, reports, apiVars, wjob, todo, requeues, faults>>

-------------------------------------------------------------------------------
(* ReportWorker.run_once, called in a loop                                   *)

\* BLPOP removes the oldest id.
Dequeue ==
  /\ wpc = "idle" /\ queue # <<>>
  /\ wjob' = Head(queue)
  /\ queue' = Tail(queue)
  /\ wpc' = "popped"
  /\ UNCHANGED <<rows, reports, apiVars, todo, requeues, faults>>

Claimed(j) ==
  [rows EXCEPT ![j] = RowOf("running", rows[j].attempts + 1, rows[j].report, "none")]

\* Mutant of Claim: the UPDATE does not test the status.
ClaimAnyStatus ==
  /\ wpc = "popped"
  /\ rows' = Claimed(wjob)
  /\ wpc' = "generating"
  /\ UNCHANGED <<queue, reports, apiVars, wjob, todo, requeues, faults>>

\* Mutant of Claim: a repository error drops the message.
ClaimErrorSwallowed ==
  /\ wpc = "popped"
  /\ \/ rows[wjob].status = "queued" /\ rows' = Claimed(wjob)
        /\ wpc' = "generating" /\ UNCHANGED <<wjob, faults>>
     \/ Fault /\ rows' = rows /\ wpc' = "idle" /\ wjob' = 0
     \/ rows[wjob].status # "queued" /\ rows' = rows
        /\ wpc' = "idle" /\ wjob' = 0 /\ UNCHANGED faults
  /\ UNCHANGED <<queue, reports, apiVars, todo, requeues>>

\* Mutant of Claim: a job that was interrupted is never claimed again.
ClaimFirstAttemptOnly ==
  /\ wpc = "popped"
  /\ IF rows[wjob].status = "queued" /\ rows[wjob].attempts = 0
     THEN rows' = Claimed(wjob) /\ wpc' = "generating" /\ wjob' = wjob
     ELSE rows' = rows /\ wpc' = "idle" /\ wjob' = 0
  /\ UNCHANGED <<queue, reports, apiVars, todo, requeues, faults>>

\* jobs.claim moves a QUEUED row to RUNNING; any other row makes the message a
\* duplicate, which run_once drops.
Claim ==
  /\ wpc = "popped"
  /\ IF rows[wjob].status = "queued"
     THEN rows' = Claimed(wjob) /\ wpc' = "generating" /\ wjob' = wjob
     ELSE rows' = rows /\ wpc' = "idle" /\ wjob' = 0
  /\ UNCHANGED <<queue, reports, apiVars, todo, requeues, faults>>

\* generator.generate returns a COMPLETED report, persisted under a fresh id.
Generate ==
  /\ wpc = "generating"
  /\ reports' = reports \union {<<wjob, rows[wjob].attempts>>}
  /\ wpc' = "completing"
  /\ UNCHANGED <<rows, queue, apiVars, wjob, todo, requeues, faults>>

\* It raises, or returns a report that is not COMPLETED.
GenerateFails ==
  /\ wpc = "generating"
  /\ wpc' = "failing"
  /\ UNCHANGED <<rows, queue, reports, apiVars, wjob, todo, requeues, faults>>

\* _transition from RUNNING; an UPDATE that matches no row would raise.
Finish(at, status, report, error) ==
  /\ wpc = at
  /\ rows[wjob].status = "running"
  /\ rows' = [rows EXCEPT ![wjob] = RowOf(status, rows[wjob].attempts, report, error)]
  /\ wpc' = "idle" /\ wjob' = 0
  /\ UNCHANGED <<queue, reports, apiVars, todo, requeues, faults>>

Complete == Finish("completing", "completed", rows[wjob].attempts, "none")
Fail     == Finish("failing", "failed", 0, "report_generation_failed")

\* The process ends: killed or powered off, stopped by SIGTERM, or left by an
\* exception main() does not catch, which is what every RepositoryError and
\* JobQueueError of recover_interrupted and run_once is.  A Redis call that
\* raises after its effect is that call followed by this step.
WorkerDown ==
  /\ wpc # "down"
  /\ Fault
  /\ wpc' = "down" /\ wjob' = 0 /\ todo' = {}
  /\ UNCHANGED <<rows, queue, reports, apiVars, requeues>>

-------------------------------------------------------------------------------
ApiStep    == Push \/ Compensate
WorkerStep == \/ Requeue \/ ListQueued \/ RecoverPush \/ RecoverDone
              \/ Dequeue \/ Claim \/ Generate \/ GenerateFails
              \/ Complete \/ Fail

Next ==
  \/ Create \/ CreateFails \/ Push \/ PushFails
  \/ Compensate \/ CompensateFails \/ ApiCrash
  \/ Requeue \/ ListQueued \/ RecoverPush \/ RecoverDone
  \/ Dequeue \/ Claim \/ Generate \/ GenerateFails \/ Complete \/ Fail
  \/ WorkerDown

Spec == Init /\ [][Next]_vars

\* A process that runs keeps running, docker restarts one that ended, and every
\* provider call of a generation has a timeout.  Submitting is up to clients.
LiveSpec == Spec /\ WF_vars(ApiStep) /\ WF_vars(WorkerStep)

-------------------------------------------------------------------------------
(* Properties                                                                *)

\* Types, and the control variables that are only set at some places.
TypeOK ==
  /\ rows \in [Jobs -> Row]
  /\ queue \in Seq(Jobs)
  /\ reports \subseteq Jobs \X Nat
  /\ apc \in {"idle", "created", "compensating"}
  /\ submitted \in 0..MaxJobs
  /\ apc # "idle" => submitted \in Jobs
  /\ reply \in [Jobs -> {"none", "accepted", "rejected", "lost"}]
  /\ wpc \in {"down", "listing", "recovering", "idle"} \union Holding
  /\ wjob \in Jobs \union {0}
  /\ wjob \in Jobs <=> wpc \in Holding
  /\ todo \subseteq Jobs
  /\ wpc # "recovering" => todo = {}
  /\ requeues \in [Jobs -> Nat]
  /\ faults \in 0..MaxFaults

\* A RUNNING row is the one the live Worker executes, or the Worker is down and
\* its next start will requeue it; and what the Worker executes is RUNNING, so
\* complete() and fail() never meet "cannot transition".
SingleExecution ==
  /\ \A j \in Jobs : rows[j].status = "running" =>
                       wpc = "down" \/ (wpc \in Working /\ wjob = j)
  /\ wpc \in Working => rows[wjob].status = "running"
  /\ \A j, k \in Jobs :
       rows[j].status = "running" /\ rows[k].status = "running" => j = k

\* An accepted job that still waits can be reached: its id is in Redis or in the
\* Worker's hands, or the Worker is down and its start will list the row.
AcceptedNotLost ==
  \A j \in Jobs :
    reply[j] = "accepted" /\ rows[j].status = "queued" =>
      \/ j \in Pending
      \/ wpc = "popped" /\ wjob = j
      \/ wpc \in {"down", "listing"}
      \/ j \in todo

\* Executions of a row that recovery did not interrupt.
Executions(row) ==
  IF row.status \in {"running", "completed"} \/ row.error = "report_generation_failed"
  THEN 1 ELSE 0

\* Redis may deliver an id any number of times; a job is executed again only
\* after recovery found it interrupted.
AttemptsMatchRecoveries ==
  \A j \in Jobs : rows[j].attempts = requeues[j] + Executions(rows[j])

\* A COMPLETED row points to the stored report of its last attempt, and no other
\* row points to a report.
CompletedHasItsReport ==
  \A j \in Jobs :
    /\ rows[j].status = "completed" =>
         /\ rows[j].report = rows[j].attempts
         /\ <<j, rows[j].report>> \in reports
    /\ rows[j].status # "completed" => rows[j].report = 0

\* A finished job is never touched again: no late compensation, duplicate
\* message or recovery changes the outcome a client has read.
FinishedIsFinal ==
  [][\A j \in Jobs : rows[j].status \in Terminal => rows'[j] = rows[j]]_vars

\* tests/unit/orchestration/test_durable_jobs.py: "An API 503 must not leave a
\* queued job that later executes invisibly."
RejectedNeverExecutes ==
  \A j \in Jobs : reply[j] = "rejected" => rows[j].attempts = 0

\* The job table, the finished reports and nothing else are what clients see.
Tasks == INSTANCE ReportTasks WITH
  Tasks  <- Jobs,
  task   <- [j \in Jobs |-> rows[j].status],
  result <- [j \in Jobs |-> rows[j].report],
  made   <- reports

\* The API, Worker, Redis and recovery together behave as ReportTasks.
ImplementsTasks == Tasks!TaskSpec

\* Every accepted job reaches a terminal state, whatever finitely many failures
\* happen on the way.
AcceptedFinishes ==
  \A j \in Jobs : reply[j] = "accepted" ~> rows[j].status \in Terminal

\* A row that waits or runs when a Worker starts is finished by that Worker or a
\* later one, even when its API request died before publishing the id.
RecoveredFinishes ==
  \A j \in Jobs : wpc = "listing" /\ rows[j].status = "queued"
                    ~> rows[j].status \in Terminal
===============================================================================
