----------------------------- MODULE SyncOutbox -----------------------------
(***************************************************************************)
(* The outbox of sync tasks (database/recloud-sync-outbox.js) and the      *)
(* service that works it off (services/recloud-sync-service.js).           *)
(*                                                                         *)
(* A transition of a task is queued and rewrites the file, so it is one    *)
(* step.  processTask reads the task outside that queue and keeps what it  *)
(* read across its adapter call: a run is a small process with a pc.       *)
(***************************************************************************)
EXTENDS Naturals, FiniteSets

CONSTANTS
  Key,         \* idempotency keys, `nodeType:order.id`
  Run,         \* slots for invocations of processTask; bounds concurrent ones
  MaxRetries,  \* options.maxRetries of the service
  MaxCount,    \* bound on the retry count with which an operator still retries
  MaxCrashes   \* bound on restarts of the backend

ASSUME OutboxAssumption ==
  /\ MaxRetries \in Nat \ {0}
  /\ MaxCount \in Nat
  /\ MaxCrashes \in Nat

VARIABLES
  tasks,         \* the outbox file: one task per idempotency key
  runs,          \* the invocations of retry and processTask in this process
  acknowledged,  \* history: adapter calls that succeeded, per key
  crashes        \* restarts so far

vars == <<tasks, runs, acknowledged, crashes>>

TaskStatus == {"PENDING", "PROCESSING", "SUCCESS", "FAILED", "MANUAL_REVIEW"}

\* "ABSENT" stands for a key without a task.
Task == [status: TaskStatus \cup {"ABSENT"}, retryCount: Nat]

NewTask == [status |-> "PENDING", retryCount |-> 0]

\* Where an invocation is: between the read and the transition of retry; as
\* processTask, waiting for the scheduler, between its read and its claim,
\* inside the adapter call, or about to write the outcome of that call.
RunPc ==
  {"IDLE", "RETRYING", "SCHEDULED", "READ", "CALLING", "SUCCEEDED", "ERRORED"}

\* retryCount is the value the run read; permanent says what its adapter call
\* raised (an error that must not be retried).
RunState ==
  [pc: RunPc, key: Key \cup {"NONE"}, retryCount: Nat, permanent: BOOLEAN]

FreshRun(pc, k) == [pc |-> pc, key |-> k, retryCount |-> 0, permanent |-> FALSE]

IdleRun == FreshRun("IDLE", "NONE")

\* A run that has claimed its task and not yet recorded an outcome.
WorkingPc == {"CALLING", "SUCCEEDED", "ERRORED"}

RunnableFailedOnly == {"FAILED"}

Runnable == {"PENDING", "FAILED"}

Retryable == {"FAILED", "MANUAL_REVIEW"}

-----------------------------------------------------------------------------
(* TASK_TRANSITIONS.                                                       *)

TransitionsFromSuccess ==
  {<<"PENDING", "PROCESSING">>,
   <<"PROCESSING", "SUCCESS">>, <<"PROCESSING", "FAILED">>,
   <<"PROCESSING", "MANUAL_REVIEW">>, <<"SUCCESS", "PENDING">>,
   <<"FAILED", "PENDING">>, <<"FAILED", "PROCESSING">>,
   <<"FAILED", "MANUAL_REVIEW">>, <<"MANUAL_REVIEW", "PENDING">>}

TransitionsReentrant ==
  {<<"PENDING", "PROCESSING">>,
   <<"PROCESSING", "SUCCESS">>, <<"PROCESSING", "FAILED">>,
   <<"PROCESSING", "MANUAL_REVIEW">>, <<"PROCESSING", "PROCESSING">>,
   <<"FAILED", "PENDING">>, <<"FAILED", "PROCESSING">>,
   <<"FAILED", "MANUAL_REVIEW">>, <<"MANUAL_REVIEW", "PENDING">>}

TaskTransitions ==
  {<<"PENDING", "PROCESSING">>,
   <<"PROCESSING", "SUCCESS">>, <<"PROCESSING", "FAILED">>,
   <<"PROCESSING", "MANUAL_REVIEW">>,
   <<"FAILED", "PENDING">>, <<"FAILED", "PROCESSING">>,
   <<"FAILED", "MANUAL_REVIEW">>, <<"MANUAL_REVIEW", "PENDING">>}

MayMove(k, next) == <<tasks[k].status, next>> \in TaskTransitions

-----------------------------------------------------------------------------
(* Scheduling an invocation of processTask.                                *)

Idle(r) == runs[r] = IdleRun

Begin(r, k, pc) == runs' = [runs EXCEPT ![r] = FreshRun(pc, k)]

End(r) == runs' = [runs EXCEPT ![r] = IdleRun]

Goto(r, pc) == runs' = [runs EXCEPT ![r].pc = pc]

\* enqueueOrderNode: a key that has a task keeps it; the returned task is
\* scheduled when it is pending, which an older one may be too.
EnqueueOrderNode(k, r) ==
  /\ Idle(r)
  /\ \/ /\ tasks[k].status = "ABSENT"
        /\ tasks' = [tasks EXCEPT ![k] = NewTask]
        /\ Begin(r, k, "SCHEDULED")
     \/ /\ tasks[k].status = "PENDING"
        /\ Begin(r, k, "SCHEDULED")
        /\ UNCHANGED tasks
  /\ UNCHANGED <<acknowledged, crashes>>

\* retry, called by an administrator: the read ...
Retry(k, r) ==
  /\ Idle(r)
  /\ tasks[k].status \in Retryable
  /\ tasks[k].retryCount < MaxCount
  /\ Begin(r, k, "RETRYING")
  /\ UNCHANGED <<tasks, acknowledged, crashes>>

\* ... and the transition, which the table may refuse by now.
RetryTask(r) ==
  /\ runs[r].pc = "RETRYING"
  /\ LET k == runs[r].key IN
       IF MayMove(k, "PENDING")
         THEN /\ tasks' = [tasks EXCEPT ![k].status = "PENDING"]
              /\ Goto(r, "SCHEDULED")
         ELSE /\ End(r)
              /\ UNCHANGED tasks
  /\ UNCHANGED <<acknowledged, crashes>>

-----------------------------------------------------------------------------
(* processTask.                                                            *)

\* The read.  A task that is not pending or failed ends the invocation.
ReadTask(r) ==
  /\ runs[r].pc = "SCHEDULED"
  /\ LET task == tasks[runs[r].key] IN
       IF task.status \in Runnable
         THEN runs' = [runs EXCEPT ![r] = [@ EXCEPT !.pc = "READ",
                                           !.retryCount = task.retryCount]]
         ELSE End(r)
  /\ UNCHANGED <<tasks, acknowledged, crashes>>

\* The claim.  An illegal transition rejects, and the rejection ends the run.
BeginProcessing(r) ==
  /\ runs[r].pc = "READ"
  /\ LET k == runs[r].key IN
       IF MayMove(k, "PROCESSING")
         THEN /\ tasks' = [tasks EXCEPT ![k].status = "PROCESSING"]
              /\ Goto(r, "CALLING")
         ELSE /\ End(r)
              /\ UNCHANGED tasks
  /\ UNCHANGED <<acknowledged, crashes>>

AdapterSucceeds(r) ==
  /\ runs[r].pc = "CALLING"
  /\ Goto(r, "SUCCEEDED")
  /\ acknowledged' = [acknowledged EXCEPT ![runs[r].key] = @ + 1]
  /\ UNCHANGED <<tasks, crashes>>

\* The adapter raised an error, permanent or not by classifyError.  Whether
\* Recloud took the node before a time-out is not known and not recorded.
AdapterFails(r, permanent) ==
  /\ runs[r].pc = "CALLING"
  /\ runs' = [runs EXCEPT ![r] =
                [@ EXCEPT !.pc = "ERRORED", !.permanent = permanent]]
  /\ UNCHANGED <<tasks, acknowledged, crashes>>

RecordSuccess(r) ==
  /\ runs[r].pc = "SUCCEEDED"
  /\ End(r)
  /\ tasks' = IF MayMove(runs[r].key, "SUCCESS")
                THEN [tasks EXCEPT ![runs[r].key].status = "SUCCESS"]
                ELSE tasks
  /\ UNCHANGED <<acknowledged, crashes>>

\* fail: the count is taken from what the run read, not from the file.
FailedStatus(run) ==
  IF run.permanent \/ run.retryCount + 1 >= MaxRetries
    THEN "MANUAL_REVIEW" ELSE "FAILED"

RecordFailure(r) ==
  /\ runs[r].pc = "ERRORED"
  /\ End(r)
  /\ LET k == runs[r].key IN
       tasks' = IF MayMove(k, FailedStatus(runs[r]))
                  THEN [tasks EXCEPT ![k] =
                          [status     |-> FailedStatus(runs[r]),
                           retryCount |-> runs[r].retryCount + 1]]
                  ELSE tasks
  /\ UNCHANGED <<acknowledged, crashes>>

-----------------------------------------------------------------------------
(* Failures around a run.                                                  *)

\* The read of the file or the write of a transition fails: the file keeps its
\* old content, the promise rejects and the scheduler swallows it.
StorageFails(r) ==
  /\ crashes < MaxCrashes
  /\ crashes' = crashes + 1
  /\ runs[r].pc \notin {"IDLE", "CALLING"}
  /\ End(r)
  /\ UNCHANGED <<tasks, acknowledged>>

\* The backend stops and starts again.  Nothing at startup reads the outbox.
Crash ==
  /\ crashes < MaxCrashes
  /\ crashes' = crashes + 1
  /\ runs' = [r \in Run |-> IdleRun]
  /\ UNCHANGED <<tasks, acknowledged>>

-----------------------------------------------------------------------------

Init ==
  /\ tasks = [k \in Key |-> [status |-> "ABSENT", retryCount |-> 0]]
  /\ runs = [r \in Run |-> IdleRun]
  /\ acknowledged = [k \in Key |-> 0]
  /\ crashes = 0

RunStep(r) ==
  \/ RetryTask(r)
  \/ ReadTask(r)
  \/ BeginProcessing(r)
  \/ AdapterSucceeds(r)
  \/ \E permanent \in BOOLEAN : AdapterFails(r, permanent)
  \/ RecordSuccess(r)
  \/ RecordFailure(r)

Next ==
  \/ \E k \in Key, r \in Run : EnqueueOrderNode(k, r) \/ Retry(k, r)
  \/ \E r \in Run : RunStep(r) \/ StorageFails(r)
  \/ Crash

Spec == Init /\ [][Next]_vars

\* The event loop runs what setImmediate, the queue and the adapter have
\* ready, so every step of a run is eventually taken.
FairSpec == Spec /\ \A r \in Run : WF_vars(RunStep(r))

-----------------------------------------------------------------------------
(* Properties.                                                             *)

\* The file and the runs have the shape the code gives them.
TypeOK ==
  /\ tasks \in [Key -> Task]
  /\ runs \in [Run -> RunState]
  /\ acknowledged \in [Key -> Nat]
  /\ crashes \in Nat

\* Once Recloud has acknowledged a node it is never submitted again, however
\* many invocations of processTask read its task at the same time, and whatever
\* is retried or interrupted between the adapter call and its record.
NoCallOnceAcknowledged ==
  \A k \in Key :
    /\ acknowledged[k] <= 1
    /\ acknowledged[k] = 1 =>
         \A r \in Run : ~(runs[r].key = k /\ runs[r].pc \in {"CALLING", "ERRORED"})

\* A task counts as synchronised only if its node was acknowledged.
SuccessWasAcknowledged ==
  \A k \in Key : tasks[k].status = "SUCCESS" => acknowledged[k] > 0

\* No two runs work on the same task: the transition to PROCESSING, not the
\* read before it, decides who calls the adapter.
OneWorkerPerTask ==
  \A r1, r2 \in Run :
    /\ runs[r1].pc \in WorkingPc
    /\ runs[r2].pc \in WorkingPc
    /\ runs[r1].key = runs[r2].key
    => r1 = r2

\* Whoever works on a task finds it still PROCESSING: no operator's retry and
\* no second run moves the task away under the adapter call.
WorkerOwnsItsTask ==
  \A r \in Run : runs[r].pc \in WorkingPc => tasks[runs[r].key].status = "PROCESSING"

\* The outbox does what SyncObligation promises.
ObligationOf(k) ==
  IF tasks[k].status = "ABSENT" THEN "NONE"
  ELSE IF tasks[k].status = "SUCCESS" THEN "DONE"
  ELSE IF acknowledged[k] > 0 THEN "ACKNOWLEDGED" ELSE "OPEN"

Submitting == {k \in Key : \E r \in Run : runs[r].pc = "CALLING" /\ runs[r].key = k}

Obligation ==
  INSTANCE SyncObligation WITH
    obligation <- [k \in Key |-> ObligationOf(k)],
    submitting <- Submitting

KeepsObligation == Obligation!Spec

\* A task that is pending is worked off, by the invocation scheduled for it or
\* by another one that overtakes it: it gets out of PENDING and PROCESSING
\* unless the backend stops or its storage fails.
TasksSettle ==
  \A k \in Key :
    tasks[k].status = "PENDING"
      ~> tasks[k].status \in {"SUCCESS", "FAILED", "MANUAL_REVIEW"} \/ crashes > 0

\* docs/OPERATIONS_RUNBOOK.md:33: on a sync failure the outbox is kept and the
\* task goes to manual review.  The code does not keep this (README).
InterruptedTasksReachReview ==
  \A k \in Key :
    tasks[k].status = "PROCESSING"
      ~> tasks[k].status \in {"SUCCESS", "FAILED", "MANUAL_REVIEW"}
=============================================================================
