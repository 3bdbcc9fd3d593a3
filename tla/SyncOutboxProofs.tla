-------------------------- MODULE SyncOutboxProofs --------------------------
(***************************************************************************)
(* Proofs about SyncOutbox, for every set of keys and runs and every bound.*)
(***************************************************************************)
EXTENDS SyncOutbox, TLAPS

\* A run in progress has a task, and remembers what Recloud said of it.
RunIsConsistent(r) ==
  /\ runs[r].pc # "IDLE" => runs[r].key \in Key
  /\ runs[r].pc \in WorkingPc => tasks[runs[r].key].status = "PROCESSING"
  /\ runs[r].pc \in {"CALLING", "ERRORED"} => acknowledged[runs[r].key] = 0
  /\ runs[r].pc = "SUCCEEDED" => acknowledged[runs[r].key] = 1

\* The task of an acknowledged node cannot be claimed any more.
TaskIsConsistent(k) ==
  /\ acknowledged[k] \in {0, 1}
  /\ acknowledged[k] = 1 => tasks[k].status \in {"PROCESSING", "SUCCESS"}
  /\ tasks[k].status = "SUCCESS" => acknowledged[k] = 1

\* The inductive invariant.
IInv ==
  /\ TypeOK
  /\ OneWorkerPerTask
  /\ \A r \in Run : RunIsConsistent(r)
  /\ \A k \in Key : TaskIsConsistent(k)
\* A run that ends without touching the file keeps the invariant.
LEMMA EndKeeps ==
  ASSUME IInv, NEW r \in Run, End(r), UNCHANGED <<tasks, acknowledged>>,
         crashes' \in Nat
  PROVE  IInv'
<1> USE DEF IInv, IdleRun, FreshRun, WorkingPc, End
<1>1. TypeOK'
  BY DEF TypeOK, RunState, RunPc
<1>2. OneWorkerPerTask'
  BY DEF OneWorkerPerTask, TypeOK
<1>3. ASSUME NEW q \in Run PROVE RunIsConsistent(q)'
  BY DEF RunIsConsistent, TypeOK
<1>4. ASSUME NEW j \in Key PROVE TaskIsConsistent(j)'
  BY DEF TaskIsConsistent
<1>. QED BY <1>1, <1>2, <1>3, <1>4

\* Queueing a node keeps the invariant.
LEMMA EnqueueOrderNodeKeeps ==
  ASSUME IInv, NEW r \in Run, NEW k \in Key, EnqueueOrderNode(k, r)
  PROVE  IInv'
<1> USE DEF IInv, IdleRun, FreshRun, WorkingPc
<1>1. TypeOK'
  <2>1. tasks' \in [Key -> Task]
    BY DEF TypeOK, Task, TaskStatus, EnqueueOrderNode, NewTask
  <2>2. runs' = [runs EXCEPT ![r] = FreshRun("SCHEDULED", k)]
    BY DEF EnqueueOrderNode, Begin
  <2>3. FreshRun("SCHEDULED", k) \in RunState
    BY DEF RunState, RunPc
  <2>. QED BY <2>1, <2>2, <2>3 DEF TypeOK, EnqueueOrderNode
<1>2. OneWorkerPerTask'
  BY DEF OneWorkerPerTask, RunIsConsistent, TypeOK, EnqueueOrderNode, Idle, Begin, NewTask
<1>3. ASSUME NEW q \in Run PROVE RunIsConsistent(q)'
  BY DEF OneWorkerPerTask, RunIsConsistent, TaskIsConsistent, TypeOK,
     EnqueueOrderNode, Idle, Begin, NewTask
<1>4. ASSUME NEW j \in Key PROVE TaskIsConsistent(j)'
  BY DEF RunIsConsistent, TaskIsConsistent, TypeOK, EnqueueOrderNode, Idle, Begin, NewTask
<1>. QED BY <1>1, <1>2, <1>3, <1>4

\* An operator's retry keeps the invariant.
LEMMA RetryKeeps ==
  ASSUME IInv, NEW r \in Run, NEW k \in Key, Retry(k, r)
  PROVE  IInv'
<1> USE DEF IInv, IdleRun, FreshRun, WorkingPc
<1>1. TypeOK'
  BY DEF TypeOK, Task, TaskStatus, RunState, RunPc, RunIsConsistent, Retry, Idle,
     Begin, Retryable
<1>2. OneWorkerPerTask'
  BY DEF OneWorkerPerTask, RunIsConsistent, TypeOK, Retry, Idle, Begin, Retryable
<1>3. ASSUME NEW q \in Run PROVE RunIsConsistent(q)'
  BY DEF OneWorkerPerTask, RunIsConsistent, TaskIsConsistent, TypeOK, Retry, Idle,
     Begin, Retryable
<1>4. ASSUME NEW j \in Key PROVE TaskIsConsistent(j)'
  BY DEF RunIsConsistent, TaskIsConsistent, TypeOK, Retry, Idle, Begin, Retryable
<1>. QED BY <1>1, <1>2, <1>3, <1>4

\* The transition of a retry keeps the invariant.
LEMMA RetryTaskKeeps ==
  ASSUME IInv, NEW r \in Run, RetryTask(r)
  PROVE  IInv'
<1>1. runs[r].pc = "RETRYING" /\ runs[r].key \in Key /\ crashes' \in Nat
  BY DEF IInv, TypeOK, RunIsConsistent, RetryTask
<1>2. CASE MayMove(runs[r].key, "PENDING")
  <2> USE DEF IInv, WorkingPc
  <2>1. /\ tasks' = [tasks EXCEPT ![runs[r].key].status = "PENDING"]
        /\ runs' = [runs EXCEPT ![r].pc = "SCHEDULED"]
        /\ UNCHANGED <<acknowledged, crashes>>
    BY <1>1, <1>2 DEF RetryTask, Goto
  <2>2. tasks[runs[r].key].status \in {"FAILED", "MANUAL_REVIEW"}
    BY <1>2 DEF MayMove, TaskTransitions
  <2>3. TypeOK'
    BY <1>1, <2>1 DEF TypeOK, Task, TaskStatus, RunState, RunPc
  <2>4. OneWorkerPerTask'
    BY <1>1, <2>1, <2>2 DEF OneWorkerPerTask, RunIsConsistent, TypeOK
  <2>5. ASSUME NEW q \in Run PROVE RunIsConsistent(q)'
    BY <1>1, <2>1, <2>2 DEF RunIsConsistent, TaskIsConsistent, TypeOK, Task
  <2>6. ASSUME NEW j \in Key PROVE TaskIsConsistent(j)'
    BY <1>1, <2>1, <2>2 DEF TaskIsConsistent, TypeOK, Task
  <2>. QED BY <2>3, <2>4, <2>5, <2>6
<1>3. CASE ~MayMove(runs[r].key, "PENDING")
  BY <1>1, <1>3, EndKeeps DEF RetryTask
<1>. QED BY <1>2, <1>3

\* The read of processTask keeps the invariant.
LEMMA ReadTaskKeeps ==
  ASSUME IInv, NEW r \in Run, ReadTask(r)
  PROVE  IInv'
<1>1. runs[r].pc = "SCHEDULED" /\ runs[r].key \in Key /\ crashes' \in Nat
  BY DEF IInv, TypeOK, RunIsConsistent, ReadTask
<1>2. CASE tasks[runs[r].key].status \in Runnable
  <2> USE DEF IInv, WorkingPc
  <2> DEFINE n == tasks[runs[r].key].retryCount
  <2>1. /\ runs' = [runs EXCEPT ![r] = [@ EXCEPT !.pc = "READ", !.retryCount = n]]
        /\ UNCHANGED <<tasks, acknowledged, crashes>>
    BY <1>2 DEF ReadTask
  <2>2. n \in Nat
    BY <1>1 DEF TypeOK, Task
  <2> HIDE DEF n
  <2>3. TypeOK'
    BY <2>1, <2>2 DEF TypeOK, RunState, RunPc
  <2>4. OneWorkerPerTask'
    BY <2>1 DEF OneWorkerPerTask, TypeOK, RunState
  <2>5. ASSUME NEW q \in Run PROVE RunIsConsistent(q)'
    BY <1>1, <2>1 DEF RunIsConsistent, TypeOK, RunState
  <2>6. ASSUME NEW j \in Key PROVE TaskIsConsistent(j)'
    BY <2>1 DEF TaskIsConsistent
  <2>. QED BY <2>3, <2>4, <2>5, <2>6
<1>3. CASE tasks[runs[r].key].status \notin Runnable
  BY <1>1, <1>3, EndKeeps DEF ReadTask
<1>. QED BY <1>2, <1>3

\* The claim keeps the invariant: no other run works on a task that may be claimed.
LEMMA BeginProcessingKeeps ==
  ASSUME IInv, NEW r \in Run, BeginProcessing(r)
  PROVE  IInv'
<1>1. runs[r].pc = "READ" /\ runs[r].key \in Key /\ crashes' \in Nat
  BY DEF IInv, TypeOK, RunIsConsistent, BeginProcessing
<1>2. CASE MayMove(runs[r].key, "PROCESSING")
  <2> USE DEF IInv, WorkingPc
  <2>1. /\ tasks' = [tasks EXCEPT ![runs[r].key].status = "PROCESSING"]
        /\ runs' = [runs EXCEPT ![r].pc = "CALLING"]
        /\ UNCHANGED <<acknowledged, crashes>>
    BY <1>1, <1>2 DEF BeginProcessing, Goto
  <2>2. tasks[runs[r].key].status \in {"PENDING", "FAILED"}
    BY <1>2 DEF MayMove, TaskTransitions
  <2>3. TypeOK'
    BY <1>1, <2>1 DEF TypeOK, Task, TaskStatus, RunState, RunPc
  <2>4. OneWorkerPerTask'
    BY <1>1, <2>1, <2>2 DEF OneWorkerPerTask, RunIsConsistent, TypeOK
  <2>5. ASSUME NEW q \in Run PROVE RunIsConsistent(q)'
    BY <1>1, <2>1, <2>2 DEF RunIsConsistent, TaskIsConsistent, TypeOK, Task
  <2>6. ASSUME NEW j \in Key PROVE TaskIsConsistent(j)'
    BY <1>1, <2>1, <2>2 DEF TaskIsConsistent, TypeOK, Task
  <2>. QED BY <2>3, <2>4, <2>5, <2>6
<1>3. CASE ~MayMove(runs[r].key, "PROCESSING")
  BY <1>1, <1>3, EndKeeps DEF BeginProcessing
<1>. QED BY <1>2, <1>3

\* An acknowledged call keeps the invariant.
LEMMA AdapterSucceedsKeeps ==
  ASSUME IInv, NEW r \in Run, AdapterSucceeds(r)
  PROVE  IInv'
<1> USE DEF IInv, IdleRun, FreshRun, WorkingPc
<1>1. TypeOK'
  BY DEF TypeOK, Task, TaskStatus, RunState, RunPc, RunIsConsistent, AdapterSucceeds, Goto
<1>2. OneWorkerPerTask'
  BY DEF OneWorkerPerTask, RunIsConsistent, TypeOK, AdapterSucceeds, Goto
<1>3. ASSUME NEW q \in Run PROVE RunIsConsistent(q)'
  BY DEF OneWorkerPerTask, RunIsConsistent, TaskIsConsistent, TypeOK, AdapterSucceeds, Goto
<1>4. ASSUME NEW j \in Key PROVE TaskIsConsistent(j)'
  BY DEF RunIsConsistent, TaskIsConsistent, TypeOK, AdapterSucceeds, Goto
<1>. QED BY <1>1, <1>2, <1>3, <1>4

\* A failed call keeps the invariant.
LEMMA AdapterFailsKeeps ==
  ASSUME IInv, NEW r \in Run, NEW permanent \in BOOLEAN, AdapterFails(r, permanent)
  PROVE  IInv'
<1> USE DEF IInv, IdleRun, FreshRun, WorkingPc
<1>1. TypeOK'
  BY DEF TypeOK, RunState, RunPc, AdapterFails
<1>2. OneWorkerPerTask'
  BY DEF OneWorkerPerTask, RunIsConsistent, TypeOK, AdapterFails
<1>3. ASSUME NEW q \in Run PROVE RunIsConsistent(q)'
  BY DEF OneWorkerPerTask, RunIsConsistent, TaskIsConsistent, TypeOK, AdapterFails
<1>4. ASSUME NEW j \in Key PROVE TaskIsConsistent(j)'
  BY DEF RunIsConsistent, TaskIsConsistent, TypeOK, AdapterFails
<1>. QED BY <1>1, <1>2, <1>3, <1>4

\* Recording success keeps the invariant.
LEMMA RecordSuccessKeeps ==
  ASSUME IInv, NEW r \in Run, RecordSuccess(r)
  PROVE  IInv'
<1> USE DEF IInv, IdleRun, FreshRun, WorkingPc
<1>1. TypeOK'
  BY DEF TypeOK, Task, TaskStatus, RunState, RunPc, RunIsConsistent, RecordSuccess,
     End, MayMove, TaskTransitions
<1>2. OneWorkerPerTask'
  BY DEF OneWorkerPerTask, RunIsConsistent, TypeOK, RecordSuccess, End, MayMove,
     TaskTransitions
<1>3. ASSUME NEW q \in Run PROVE RunIsConsistent(q)'
  BY DEF OneWorkerPerTask, RunIsConsistent, TaskIsConsistent, TypeOK, RecordSuccess,
     End, MayMove, TaskTransitions
<1>4. ASSUME NEW j \in Key PROVE TaskIsConsistent(j)'
  BY DEF RunIsConsistent, TaskIsConsistent, TypeOK, RecordSuccess, End, MayMove,
     TaskTransitions
<1>. QED BY <1>1, <1>2, <1>3, <1>4

\* Recording a failure keeps the invariant.
LEMMA RecordFailureKeeps ==
  ASSUME IInv, NEW r \in Run, RecordFailure(r)
  PROVE  IInv'
<1> USE DEF IInv, IdleRun, FreshRun, WorkingPc
<1>1. TypeOK'
  BY DEF TypeOK, Task, TaskStatus, RunState, RunPc, RunIsConsistent, RecordFailure,
     End, MayMove, TaskTransitions, FailedStatus
<1>2. OneWorkerPerTask'
  BY DEF OneWorkerPerTask, RunIsConsistent, TypeOK, RecordFailure, End, MayMove,
     TaskTransitions, FailedStatus
<1>3. ASSUME NEW q \in Run PROVE RunIsConsistent(q)'
  BY DEF OneWorkerPerTask, RunIsConsistent, TaskIsConsistent, TypeOK, RecordFailure,
     End, MayMove, TaskTransitions, FailedStatus
<1>4. ASSUME NEW j \in Key PROVE TaskIsConsistent(j)'
  BY DEF RunIsConsistent, TaskIsConsistent, TypeOK, RecordFailure, End, MayMove,
     TaskTransitions, FailedStatus
<1>. QED BY <1>1, <1>2, <1>3, <1>4

\* A storage failure keeps the invariant.
LEMMA StorageFailsKeeps ==
  ASSUME IInv, NEW r \in Run, StorageFails(r)
  PROVE  IInv'
BY EndKeeps DEF IInv, TypeOK, StorageFails

\* A restart keeps the invariant.
LEMMA CrashKeeps ==
  ASSUME IInv, Crash
  PROVE  IInv'
<1> USE DEF IInv, Crash, IdleRun, FreshRun, WorkingPc
<1>1. TypeOK'
  BY DEF TypeOK, RunState, RunPc
<1>2. OneWorkerPerTask'
  BY DEF OneWorkerPerTask
<1>3. ASSUME NEW q \in Run PROVE RunIsConsistent(q)'
  BY DEF RunIsConsistent
<1>4. ASSUME NEW j \in Key PROVE TaskIsConsistent(j)'
  BY DEF TaskIsConsistent
<1>. QED BY <1>1, <1>2, <1>3, <1>4
-----------------------------------------------------------------------------
(* Safety.                                                                 *)

\* The invariant holds initially.
LEMMA InitEstablishesIInv == Init => IInv
BY DEF Init, IInv, TypeOK, Task, RunState, RunPc, IdleRun, FreshRun,
       OneWorkerPerTask, WorkingPc, RunIsConsistent, TaskIsConsistent

\* Every step keeps the invariant.
LEMMA NextKeepsIInv == IInv /\ [Next]_vars => IInv'
<1> SUFFICES ASSUME IInv, [Next]_vars PROVE IInv'
  OBVIOUS
<1>1. ASSUME NEW k \in Key, NEW r \in Run, EnqueueOrderNode(k, r) PROVE IInv'
  BY <1>1, EnqueueOrderNodeKeeps
<1>2. ASSUME NEW k \in Key, NEW r \in Run, Retry(k, r) PROVE IInv'
  BY <1>2, RetryKeeps
<1>3. ASSUME NEW r \in Run, RunStep(r) PROVE IInv'
  BY <1>3, RetryTaskKeeps, ReadTaskKeeps, BeginProcessingKeeps,
     AdapterSucceedsKeeps, AdapterFailsKeeps, RecordSuccessKeeps,
     RecordFailureKeeps DEF RunStep
<1>4. ASSUME NEW r \in Run, StorageFails(r) PROVE IInv'
  BY <1>4, StorageFailsKeeps
<1>5. CASE Crash
  BY <1>5, CrashKeeps
<1>6. CASE UNCHANGED vars
  BY <1>6 DEF vars, IInv, TypeOK, OneWorkerPerTask, RunIsConsistent, TaskIsConsistent
<1>. QED BY <1>1, <1>2, <1>3, <1>4, <1>5, <1>6 DEF Next

\* The strengthened invariant holds in every reachable state.
THEOREM IInvHolds == Spec => []IInv
BY InitEstablishesIInv, NextKeepsIInv, PTL DEF Spec

\* The file and the runs keep their shape.
THEOREM TypeCorrect == Spec => []TypeOK
<1>1. IInv => TypeOK
  BY DEF IInv
<1>. QED BY <1>1, IInvHolds, PTL

\* A node that Recloud acknowledged is not submitted again.
THEOREM AcknowledgedIsFinal == Spec => []NoCallOnceAcknowledged
<1>1. IInv => NoCallOnceAcknowledged
  BY DEF IInv, NoCallOnceAcknowledged, RunIsConsistent, TaskIsConsistent
<1>. QED BY <1>1, IInvHolds, PTL

\* A task counts as synchronised only after an acknowledgement.
THEOREM SuccessIsAcknowledged == Spec => []SuccessWasAcknowledged
<1>1. IInv => SuccessWasAcknowledged
  BY DEF IInv, SuccessWasAcknowledged, TaskIsConsistent
<1>. QED BY <1>1, IInvHolds, PTL

\* At most one run works on a task, and the task stays PROCESSING meanwhile.
THEOREM ExclusiveWork == Spec => [](OneWorkerPerTask /\ WorkerOwnsItsTask)
<1>1. IInv => OneWorkerPerTask /\ WorkerOwnsItsTask
  BY DEF IInv, WorkerOwnsItsTask, RunIsConsistent
<1>. QED BY <1>1, IInvHolds, PTL

-----------------------------------------------------------------------------
(* The outbox implements SyncObligation.                                   *)

\* A step that neither changes what a task stands for nor who is in an adapter
\* call is invisible to SyncObligation.
LEMMA Invisible ==
  ASSUME \A k \in Key : ObligationOf(k)' = ObligationOf(k),
         Submitting' = Submitting
  PROVE  UNCHANGED Obligation!vars
<1>1. [k \in Key |-> ObligationOf(k)]' = [k \in Key |-> ObligationOf(k)]
  OBVIOUS
<1>. QED BY <1>1 DEF Obligation!vars

\* The initial outbox owes nothing.
LEMMA InitImplementsObligation == Init => Obligation!Init
<1> SUFFICES ASSUME Init PROVE Obligation!Init
  OBVIOUS
<1>1. \A k \in Key : ObligationOf(k) = "NONE"
  BY DEF Init, ObligationOf
<1>2. Submitting = {}
  BY DEF Init, Submitting, IdleRun, FreshRun
<1>. QED BY <1>1, <1>2 DEF Obligation!Init

\* Queueing a node opens its obligation, or is invisible.
LEMMA EnqueueOrderNodeRefines ==
  ASSUME IInv, NEW k \in Key, NEW r \in Run, EnqueueOrderNode(k, r)
  PROVE  [Obligation!Next]_Obligation!vars
<1> USE DEF IInv, TypeOK
<1>1. Submitting' = Submitting
  BY DEF Submitting, EnqueueOrderNode, Begin, Idle, IdleRun, FreshRun
<1>2. CASE tasks[k].status = "ABSENT"
  <2>1. tasks' = [tasks EXCEPT ![k] = NewTask] /\ UNCHANGED acknowledged
    BY <1>2 DEF EnqueueOrderNode
  <2>2. ObligationOf(k) = "NONE" /\ ObligationOf(k)' = "OPEN"
    BY <1>2, <2>1 DEF ObligationOf, NewTask, TaskIsConsistent
  <2>3. \A j \in Key \ {k} : ObligationOf(j)' = ObligationOf(j)
    BY <2>1 DEF ObligationOf
  <2>4. Obligation!Open(k)
    BY <1>1, <2>2, <2>3 DEF Obligation!Open
  <2>. QED BY <2>4 DEF Obligation!Next
<1>3. CASE tasks[k].status # "ABSENT"
  <2>1. UNCHANGED <<tasks, acknowledged>>
    BY <1>3 DEF EnqueueOrderNode
  <2>2. \A j \in Key : ObligationOf(j)' = ObligationOf(j)
    BY <2>1 DEF ObligationOf
  <2>. QED BY <1>1, <2>2, Invisible
<1>. QED BY <1>2, <1>3

\* The read and the transition of a retry are invisible.
LEMMA RetryRefines ==
  ASSUME IInv, NEW k \in Key, NEW r \in Run, Retry(k, r)
  PROVE  [Obligation!Next]_Obligation!vars
<1>1. Submitting' = Submitting
  BY DEF IInv, TypeOK, Submitting, Retry, Begin, Idle, IdleRun, FreshRun
<1>2. \A j \in Key : ObligationOf(j)' = ObligationOf(j)
  BY DEF ObligationOf, Retry
<1>. QED BY <1>1, <1>2, Invisible

\* The file does not change and the run was not in an adapter call: invisible.
LEMMA EndRefines ==
  ASSUME IInv, NEW r \in Run, End(r), runs[r].pc # "CALLING",
         UNCHANGED <<tasks, acknowledged>>
  PROVE  [Obligation!Next]_Obligation!vars
<1>1. Submitting' = Submitting
  BY DEF IInv, TypeOK, Submitting, End, IdleRun, FreshRun
<1>2. \A j \in Key : ObligationOf(j)' = ObligationOf(j)
  BY DEF ObligationOf
<1>. QED BY <1>1, <1>2, Invisible

\* The transition of a retry is invisible: the node is owed before and after.
LEMMA RetryTaskRefines ==
  ASSUME IInv, NEW r \in Run, RetryTask(r)
  PROVE  [Obligation!Next]_Obligation!vars
<1> DEFINE k == runs[r].key
<1>1. CASE MayMove(k, "PENDING")
  <2>1. /\ tasks' = [tasks EXCEPT ![k].status = "PENDING"]
        /\ runs' = [runs EXCEPT ![r].pc = "SCHEDULED"]
        /\ runs[r].pc = "RETRYING"
        /\ k \in Key
        /\ UNCHANGED acknowledged
    BY <1>1 DEF RetryTask, Goto, IInv, RunIsConsistent
  <2>2. Submitting' = Submitting
    BY <2>1 DEF IInv, TypeOK, Submitting, RunState
  <2>3. tasks[k].status \in {"FAILED", "MANUAL_REVIEW"}
    BY <1>1 DEF MayMove, TaskTransitions
  <2>4. \A j \in Key : ObligationOf(j)' = ObligationOf(j)
    BY <2>1, <2>3 DEF IInv, TypeOK, Task, ObligationOf
  <2>. QED BY <2>2, <2>4, Invisible
<1>2. CASE ~MayMove(k, "PENDING")
  BY <1>2, EndRefines DEF RetryTask
<1>. QED BY <1>1, <1>2

\* The read of processTask is invisible.
LEMMA ReadTaskRefines ==
  ASSUME IInv, NEW r \in Run, ReadTask(r)
  PROVE  [Obligation!Next]_Obligation!vars
<1>1. CASE tasks[runs[r].key].status \in Runnable
  <2>1. Submitting' = Submitting
    BY <1>1 DEF ReadTask, IInv, TypeOK, Submitting, RunState
  <2>2. \A j \in Key : ObligationOf(j)' = ObligationOf(j)
    BY DEF ReadTask, ObligationOf
  <2>. QED BY <2>1, <2>2, Invisible
<1>2. CASE tasks[runs[r].key].status \notin Runnable
  BY <1>2, EndRefines DEF ReadTask
<1>. QED BY <1>1, <1>2

\* The claim submits the node: nobody else does, and it is not acknowledged.
LEMMA BeginProcessingRefines ==
  ASSUME IInv, NEW r \in Run, BeginProcessing(r)
  PROVE  [Obligation!Next]_Obligation!vars
<1> DEFINE k == runs[r].key
<1>1. CASE MayMove(k, "PROCESSING")
  <2>1. /\ tasks' = [tasks EXCEPT ![k].status = "PROCESSING"]
        /\ runs' = [runs EXCEPT ![r].pc = "CALLING"]
        /\ runs[r].pc = "READ"
        /\ k \in Key
        /\ UNCHANGED acknowledged
    BY <1>1 DEF BeginProcessing, Goto, IInv, RunIsConsistent
  <2>2. tasks[k].status \in {"PENDING", "FAILED"}
    BY <1>1 DEF MayMove, TaskTransitions
  <2>3. k \notin Submitting
    BY <2>2 DEF IInv, RunIsConsistent, Submitting, WorkingPc
  <2>4. Submitting' = Submitting \cup {k}
    BY <2>1 DEF IInv, TypeOK, Submitting, RunState
  <2>5. \A j \in Key : ObligationOf(j)' = ObligationOf(j)
    BY <2>1, <2>2 DEF IInv, TypeOK, Task, ObligationOf
  <2>6. ObligationOf(k) = "OPEN"
    BY <2>1, <2>2 DEF IInv, TaskIsConsistent, ObligationOf
  <2>7. Obligation!Submit(k)
    BY <2>1, <2>3, <2>4, <2>5, <2>6 DEF Obligation!Submit
  <2>. QED BY <2>1, <2>7 DEF Obligation!Next
<1>2. CASE ~MayMove(k, "PROCESSING")
  BY <1>2, EndRefines DEF BeginProcessing
<1>. QED BY <1>1, <1>2

\* An answer of Recloud acknowledges the node.
LEMMA AdapterSucceedsRefines ==
  ASSUME IInv, NEW r \in Run, AdapterSucceeds(r)
  PROVE  [Obligation!Next]_Obligation!vars
<1> DEFINE k == runs[r].key
<1>1. /\ acknowledged' = [acknowledged EXCEPT ![k] = @ + 1]
      /\ runs' = [runs EXCEPT ![r].pc = "SUCCEEDED"]
      /\ runs[r].pc = "CALLING"
      /\ k \in Key
      /\ UNCHANGED tasks
  BY DEF AdapterSucceeds, Goto, IInv, RunIsConsistent
<1>2. acknowledged[k] = 0 /\ tasks[k].status = "PROCESSING"
  BY <1>1 DEF IInv, RunIsConsistent, WorkingPc
<1>3. \A q \in Run \ {r} : ~(runs[q].pc = "CALLING" /\ runs[q].key = k)
  BY <1>1 DEF IInv, OneWorkerPerTask, WorkingPc
<1>4. Submitting' = Submitting \ {k} /\ k \in Submitting
  BY <1>1, <1>3 DEF IInv, TypeOK, Submitting, RunState
<1>5. ObligationOf(k) = "OPEN" /\ ObligationOf(k)' = "ACKNOWLEDGED"
  BY <1>1, <1>2 DEF IInv, TypeOK, ObligationOf
<1>6. \A j \in Key \ {k} : ObligationOf(j)' = ObligationOf(j)
  BY <1>1 DEF IInv, TypeOK, ObligationOf
<1>7. Obligation!Acknowledge(k)
  BY <1>1, <1>4, <1>5, <1>6 DEF Obligation!Acknowledge
<1>. QED BY <1>1, <1>7 DEF Obligation!Next

\* A failed call is given up.
LEMMA AdapterFailsRefines ==
  ASSUME IInv, NEW r \in Run, NEW permanent \in BOOLEAN, AdapterFails(r, permanent)
  PROVE  [Obligation!Next]_Obligation!vars
<1>1. \A q \in Run : runs'[q].pc = "CALLING" => runs[q] = runs'[q]
  BY DEF AdapterFails, IInv, TypeOK, RunState
<1>2. Submitting' \in SUBSET Submitting
  BY <1>1 DEF Submitting
<1>3. \A j \in Key : ObligationOf(j)' = ObligationOf(j)
  BY DEF AdapterFails, ObligationOf
<1>4. Obligation!GiveUp
  BY <1>2, <1>3 DEF Obligation!GiveUp
<1>. QED BY <1>4 DEF Obligation!Next

\* The record of success discharges the obligation.
LEMMA RecordSuccessRefines ==
  ASSUME IInv, NEW r \in Run, RecordSuccess(r)
  PROVE  [Obligation!Next]_Obligation!vars
<1>1. PICK k \in Key :
      /\ runs[r].pc = "SUCCEEDED"
      /\ runs[r].key = k
      /\ acknowledged[k] = 1
      /\ tasks[k].status = "PROCESSING"
      /\ UNCHANGED acknowledged
  BY DEF RecordSuccess, IInv, RunIsConsistent, WorkingPc
<1>2. tasks' = [tasks EXCEPT ![k].status = "SUCCESS"]
  BY <1>1 DEF RecordSuccess, MayMove, TaskTransitions
<1>3. tasks'[k].status = "SUCCESS"
  BY <1>1, <1>2 DEF IInv, TypeOK, Task
<1>4. ObligationOf(k) = "ACKNOWLEDGED"
  BY <1>1 DEF ObligationOf
<1>5. ObligationOf(k)' = "DONE"
  BY <1>3 DEF ObligationOf
<1>6. \A j \in Key \ {k} : ObligationOf(j)' = ObligationOf(j)
  BY <1>1, <1>2 DEF ObligationOf
<1>7. Submitting' = Submitting
  BY <1>1 DEF IInv, TypeOK, Submitting, RecordSuccess, End, IdleRun, FreshRun
<1>8. Obligation!Discharge(k)
  BY <1>1, <1>4, <1>5, <1>6, <1>7 DEF Obligation!Discharge
<1>. QED BY <1>1, <1>8 DEF Obligation!Next

\* The record of a failure is invisible: the node is still owed.
LEMMA RecordFailureRefines ==
  ASSUME IInv, NEW r \in Run, RecordFailure(r)
  PROVE  [Obligation!Next]_Obligation!vars
<1> DEFINE k == runs[r].key
<1>1. /\ runs[r].pc = "ERRORED"
      /\ k \in Key
      /\ acknowledged[k] = 0
      /\ tasks[k].status = "PROCESSING"
      /\ UNCHANGED acknowledged
  BY DEF RecordFailure, IInv, RunIsConsistent, WorkingPc
<1>2. PICK s \in {"FAILED", "MANUAL_REVIEW"}, n \in Nat :
        tasks' = [tasks EXCEPT ![k] = [status |-> s, retryCount |-> n]]
  <2>1. runs[r].retryCount + 1 \in Nat
    BY DEF IInv, TypeOK, RunState
  <2>. QED BY <1>1, <2>1 DEF RecordFailure, MayMove, TaskTransitions, FailedStatus
<1>3. \A j \in Key : ObligationOf(j)' = ObligationOf(j)
  BY <1>1, <1>2 DEF IInv, TypeOK, ObligationOf
<1>4. Submitting' = Submitting
  BY <1>1 DEF IInv, TypeOK, Submitting, RecordFailure, End, IdleRun, FreshRun
<1>. QED BY <1>3, <1>4, Invisible

\* A storage failure is invisible.
LEMMA StorageFailsRefines ==
  ASSUME IInv, NEW r \in Run, StorageFails(r)
  PROVE  [Obligation!Next]_Obligation!vars
BY EndRefines DEF StorageFails

\* A restart gives up every call.
LEMMA CrashRefines ==
  ASSUME IInv, Crash
  PROVE  [Obligation!Next]_Obligation!vars
<1>1. Submitting' \in SUBSET Submitting
  BY DEF Crash, Submitting, IdleRun, FreshRun
<1>2. \A j \in Key : ObligationOf(j)' = ObligationOf(j)
  BY DEF Crash, ObligationOf
<1>3. Obligation!GiveUp
  BY <1>1, <1>2 DEF Obligation!GiveUp
<1>. QED BY <1>3 DEF Obligation!Next

\* Every step of the outbox is a step of SyncObligation or invisible.
LEMMA NextRefines == IInv /\ [Next]_vars => [Obligation!Next]_Obligation!vars
<1> SUFFICES ASSUME IInv, [Next]_vars PROVE [Obligation!Next]_Obligation!vars
  OBVIOUS
<1>1. ASSUME NEW k \in Key, NEW r \in Run, EnqueueOrderNode(k, r) \/ Retry(k, r)
      PROVE  [Obligation!Next]_Obligation!vars
  BY <1>1, EnqueueOrderNodeRefines, RetryRefines
<1>2. ASSUME NEW r \in Run, RunStep(r)
      PROVE  [Obligation!Next]_Obligation!vars
  BY <1>2, RetryTaskRefines, ReadTaskRefines, BeginProcessingRefines,
     AdapterSucceedsRefines, AdapterFailsRefines, RecordSuccessRefines,
     RecordFailureRefines DEF RunStep
<1>3. ASSUME NEW r \in Run, StorageFails(r)
      PROVE  [Obligation!Next]_Obligation!vars
  BY <1>3, StorageFailsRefines
<1>4. CASE Crash
  BY <1>4, CrashRefines
<1>5. CASE UNCHANGED vars
  BY <1>5, Invisible DEF vars, ObligationOf, Submitting
<1>. QED BY <1>1, <1>2, <1>3, <1>4, <1>5 DEF Next

\* The outbox, with its concurrent runs, retries and restarts, implements
\* SyncObligation.
THEOREM ImplementsObligation == Spec => KeepsObligation
BY InitImplementsObligation, NextRefines, IInvHolds, PTL
   DEF Spec, KeepsObligation, Obligation!Spec
=============================================================================
