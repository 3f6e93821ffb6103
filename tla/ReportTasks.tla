----------------------------- MODULE ReportTasks -----------------------------
(***************************************************************************)
(* What the durable report service promises about a submitted request,     *)
(* with no queue, no processes and no failures in sight: a task waits, is  *)
(* executed by one executor at a time, may fall back to waiting when the   *)
(* execution is interrupted, and ends once, either failed or completed     *)
(* with a report that exists.  ReportJobs implements this specification.   *)
(***************************************************************************)
EXTENDS Integers

CONSTANT Tasks

VARIABLES
  task,    \* [Tasks -> Stage]: the stage a status query shows
  result,  \* [Tasks -> Nat]: the report a completed task points to, 0 for none
  made     \* set of <<task, n>>: finished reports, n tells those of one task apart

taskVars == <<task, result, made>>

Stage == {"absent", "queued", "running", "completed", "failed"}

TaskInit ==
  /\ task = [t \in Tasks |-> "absent"]
  /\ result = [t \in Tasks |-> 0]
  /\ made = {}

Move(t, from, to) ==
  /\ task[t] = from
  /\ task' = [task EXCEPT ![t] = to]

Submit(t) == Move(t, "absent", "queued") /\ UNCHANGED <<result, made>>

\* A request that could not be handed over for execution is closed.
Withdraw(t) == Move(t, "queued", "failed") /\ UNCHANGED <<result, made>>

\* One executor: nothing starts while another task runs.
Start(t) ==
  /\ \A u \in Tasks : task[u] # "running"
  /\ Move(t, "queued", "running")
  /\ UNCHANGED <<result, made>>

Write(t) ==
  /\ task[t] = "running"
  /\ \E r \in made' \ made : r[1] = t /\ made' = made \union {r}
  /\ UNCHANGED <<task, result>>

Succeed(t) ==
  /\ Move(t, "running", "completed")
  /\ \E r \in made : r[1] = t /\ result' = [result EXCEPT ![t] = r[2]]
  /\ UNCHANGED made

Fail(t) == Move(t, "running", "failed") /\ UNCHANGED <<result, made>>

Interrupt(t) == Move(t, "running", "queued") /\ UNCHANGED <<result, made>>

TaskNext ==
  \E t \in Tasks :
    \/ Submit(t) \/ Withdraw(t) \/ Start(t) \/ Write(t)
    \/ Succeed(t) \/ Fail(t) \/ Interrupt(t)

TaskSpec == TaskInit /\ [][TaskNext]_taskVars
==============================================================================
