------------------------- MODULE ControllerProofs -------------------------
(***************************************************************************)
(* Proofs about Controller, for every set of objects and events and every  *)
(* value of the bounds.                                                    *)
(***************************************************************************)
EXTENDS Controller, TLAPS, FiniteSetTheorems

USE ControllerAssumption

-----------------------------------------------------------------------------
(***************************************************************************)
(* Types.                                                                  *)
(***************************************************************************)

\* The sources of runs are what Next quantifies over.
LEMMA SourceTypes ==
    /\ Reconciler \in Sources
    /\ Warmer \in Listers
    /\ Warmer \in Sources
    /\ Events \subseteq Listers
    /\ Listers \subseteq Sources
    /\ Reconciler # Warmer
BY DEF Sources, Listers

\* A copy of an object, the idle task and a new status have their types.
LEMMA ValueTypes ==
    /\ Idle \in Task
    /\ NewStatus \in Status
    /\ \A o \in Object : CopyOf(o) \in Copy
    /\ \A x \in Copy : [Idle EXCEPT !.pc = "listed", !.copy = x] \in Task
    /\ \A x \in Copy : [Idle EXCEPT !.pc = "got", !.copy = x] \in Task
<1>1. 0 \in Gens
  BY DEF Gens
<1>2. NoCopy \in Copy
  BY <1>1 DEF NoCopy, Copy
<1>3. Idle \in Task
  BY <1>2 DEF Idle, Task, Pcs
<1>4. NewStatus \in Status
  BY <1>1 DEF NewStatus, Status
<1>5. \A o \in Object : CopyOf(o) \in Copy
  BY DEF CopyOf, Object, Copy
<1>6. \A x \in Copy : [Idle EXCEPT !.pc = "listed", !.copy = x] \in Task
  BY Zenon, <1>3 DEF Task, Pcs
<1>7. \A x \in Copy : [Idle EXCEPT !.pc = "got", !.copy = x] \in Task
  BY Zenon, <1>3 DEF Task, Pcs
<1>8. QED
  BY Zenon, <1>3, <1>4, <1>5, <1>6, <1>7

\* The changes Reconcile and a run make to a task keep its type.
LEMMA TaskTypes ==
    ASSUME NEW t \in Task
    PROVE  /\ \A p \in Pcs : [t EXCEPT !.pc = p] \in Task
           /\ \A p \in Pcs, x \in Copy : [t EXCEPT !.pc = p, !.copy = x] \in Task
           /\ \A p \in Pcs, r \in Outcomes : [t EXCEPT !.pc = p, !.result = r] \in Task
           /\ [t EXCEPT !.copy.finalizer = TRUE] \in Task
BY Zenon DEF Task, Copy, Outcomes

\* A write to one object keeps the type of all of them.
LEMMA ObjectWrite ==
    ASSUME TypeOK, NEW c \in CRs, NEW o \in Object,
           obj' = obj \/ obj' = [obj EXCEPT ![c] = o]
    PROVE  obj' \in [CRs -> Object]
BY DEF TypeOK

\* A write to one status keeps the type of all of them.
LEMMA StatusWrite ==
    ASSUME TypeOK, NEW c \in CRs, NEW x \in Status,
           status' = status \/ status' = [status EXCEPT ![c] = x]
    PROVE  status' \in [CRs -> Status]
BY DEF TypeOK

\* A write may outdate the copy Reconcile holds.
LEMMA OutdateType ==
    ASSUME TypeOK, NEW c \in CRs, Outdate(c) \/ UNCHANGED stale
    PROVE  stale' \in [CRs -> BOOLEAN]
<1>1. (task[Reconciler][c].pc \in {"got", "remove"}) \in BOOLEAN
  OBVIOUS
<1>2. QED
  BY Zenon, <1>1 DEF TypeOK, Outdate

\* SetTask changes one task.
LEMMA SetTaskType ==
    ASSUME TypeOK, NEW s \in Sources, NEW c \in CRs, NEW t \in Task, SetTask(s, c, t)
    PROVE  /\ task' \in [Sources -> [CRs -> Task]]
           /\ task'[s][c] = t
           /\ \A u \in Sources, d \in CRs :
                 u # s \/ d # c => task'[u][d] = task[u][d]
<1>1. task \in [Sources -> [CRs -> Task]]
  BY DEF TypeOK
<1>2. task' = [task EXCEPT ![s] = [task[s] EXCEPT ![c] = t]]
  BY DEF SetTask
<1>3. [task[s] EXCEPT ![c] = t] \in [CRs -> Task]
  BY <1>1
<1>4. QED
  BY <1>1, <1>2, <1>3

-----------------------------------------------------------------------------
(***************************************************************************)
(* Type correctness, one lemma per group of actions.                       *)
(***************************************************************************)

\* The first states are well typed.
LEMMA InitType == Init => TypeOK
<1> SUFFICES ASSUME Init PROVE TypeOK
  OBVIOUS
<1>1. obj \in [CRs -> Object]
  BY DEF Init, InitialObjects
<1>2. \A c \in CRs : obj[c].present \in BOOLEAN
  BY <1>1 DEF Object
<1>3. queued \in [CRs -> BOOLEAN] /\ timer \in [CRs -> BOOLEAN] /\ stale \in [CRs -> BOOLEAN]
  BY <1>2 DEF Init, Fresh
<1>4. task \in [Sources -> [CRs -> Task]]
  BY Zenon, ValueTypes DEF Init, Fresh
<1>5. status \in [CRs -> Status]
  BY Zenon, ValueTypes DEF Init
<1>6. checked \in [CRs -> Gens] /\ faults \in 0 .. MaxFaults
  BY DEF Init, Gens
<1>7. QED
  BY Zenon, <1>1, <1>3, <1>4, <1>5, <1>6 DEF Init, TypeOK

\* A restarted process is well typed.
LEMMA RestartType == TypeOK /\ Restart => TypeOK'
<1> SUFFICES ASSUME TypeOK, Restart PROVE TypeOK'
  OBVIOUS
<1>2. \A c \in CRs : obj[c].present \in BOOLEAN
  BY DEF Object, TypeOK
<1>3. queued' \in [CRs -> BOOLEAN] /\ timer' \in [CRs -> BOOLEAN] /\ stale' \in [CRs -> BOOLEAN]
  BY <1>2 DEF Restart, Fresh
<1>4. task' \in [Sources -> [CRs -> Task]]
  BY Zenon, ValueTypes DEF Restart, Fresh
<1>5. phase' \in [Listers -> {"waiting", "processing", "failing", "failed", "done"}]
  BY DEF Restart, TypeOK
<1>6. faults' \in 0 .. MaxFaults
  BY DEF Restart, TypeOK, Fault, NoFault
<1>7. QED
  BY <1>3, <1>4, <1>5, <1>6 DEF Restart, TypeOK, store, once

\* The fault counter stays within its bound.
LEMMA FaultType ==
    ASSUME TypeOK
    PROVE  /\ Fault => faults' \in 0 .. MaxFaults
           /\ NoFault => faults' \in 0 .. MaxFaults
BY DEF TypeOK, Fault, NoFault

\* Reconcile up to the start of the run keeps the types.
LEMMA ReconcileType ==
    ASSUME TypeOK, NEW c \in CRs,
           \/ WaitForWarmUp(c) \/ Get(c) \/ Finalize(c) \/ RemoveFinalizer(c)
           \/ StopDeleting(c) \/ AddFinalizer(c) \/ Proceed(c)
    PROVE  TypeOK'
<1> DEFINE t == task[Reconciler][c]
<1>1. t \in Task /\ obj[c] \in Object /\ Idle \in Task /\ Reconciler \in Sources
  <2>1. Reconciler \in Sources
    BY SourceTypes
  <2>2. t \in Task /\ obj[c] \in Object
    BY <2>1 DEF TypeOK
  <2>3. QED
    BY Zenon, <2>1, <2>2, ValueTypes
<1>2. CASE WaitForWarmUp(c)
  <2>1. queued' \in [CRs -> BOOLEAN] /\ timer' \in [CRs -> BOOLEAN]
    BY <1>2 DEF WaitForWarmUp, TypeOK
  <2>2. QED
    BY <1>2, <2>1 DEF WaitForWarmUp, TypeOK, store, once
<1>3. CASE Get(c)
  <2>1. task' \in [Sources -> [CRs -> Task]]
    <3>1. CopyOf(obj[c]) \in Copy
      BY Zenon, <1>1, ValueTypes
    <3>2. [Idle EXCEPT !.pc = "got", !.copy = CopyOf(obj[c])] \in Task
      BY Zenon, <3>1, ValueTypes
    <3>3. CASE task' = task
      BY <3>3 DEF TypeOK
    <3>4. CASE SetTask(Reconciler, c,
                       IF obj[c].present
                       THEN [Idle EXCEPT !.pc = "got", !.copy = CopyOf(obj[c])]
                       ELSE Idle)
      BY <3>2, <3>4, <1>1, SetTaskType
    <3>5. QED
      BY <1>3, <3>3, <3>4 DEF Get
  <2>2. faults' \in 0 .. MaxFaults
    BY <1>3, FaultType DEF Get
  <2>3. queued' \in [CRs -> BOOLEAN] /\ stale' \in [CRs -> BOOLEAN]
    BY Zenon, <1>3 DEF Get, TypeOK
  <2>4. QED
    BY <1>3, <2>1, <2>2, <2>3 DEF Get, TypeOK, store, once
<1>4. CASE Finalize(c)
  <2>1. [t EXCEPT !.pc = "remove"] \in Task
    BY Zenon, <1>1, TaskTypes DEF Pcs
  <2>2. task' \in [Sources -> [CRs -> Task]]
    BY <1>4, <1>1, <2>1, SetTaskType DEF Finalize
  <2>3. QED
    BY <1>4, <2>2 DEF Finalize, TypeOK, store, queue, once
<1>5. CASE RemoveFinalizer(c)
  <2>1. task' \in [Sources -> [CRs -> Task]]
    BY <1>5, <1>1, SetTaskType DEF RemoveFinalizer, ReturnError
  <2>2. faults' \in 0 .. MaxFaults
    BY <1>5, FaultType DEF RemoveFinalizer
  <2>3. obj' \in [CRs -> Object]
    <3> DEFINE o == [obj[c] EXCEPT !.finalizer = FALSE, !.present = obj[c].foreign,
                                   !.deleting = obj[c].foreign]
    <3>1. o \in Object
      BY Zenon, <1>1 DEF Object
    <3>2. obj' = obj \/ obj' = [obj EXCEPT ![c] = o]
      BY Zenon, <1>5, <1>1 DEF RemoveFinalizer
    <3> HIDE DEF o
    <3>3. QED
      BY <3>1, <3>2, ObjectWrite
  <2>4. queued' \in [CRs -> BOOLEAN] /\ stale' \in [CRs -> BOOLEAN]
    BY Zenon, <1>5, <1>1 DEF RemoveFinalizer, ReturnError, Enqueue, TypeOK, Object
  <2>5. QED
    BY <1>5, <2>1, <2>2, <2>3, <2>4 DEF RemoveFinalizer, TypeOK, once
<1>6. CASE StopDeleting(c)
  <2>1. task' \in [Sources -> [CRs -> Task]]
    BY <1>6, <1>1, SetTaskType DEF StopDeleting
  <2>2. QED
    BY <1>6, <2>1 DEF StopDeleting, TypeOK, store, queue, once
<1>7. CASE AddFinalizer(c)
  <2>1. task' \in [Sources -> [CRs -> Task]]
    <3>1. [t EXCEPT !.copy.finalizer = TRUE] \in Task
      BY Zenon, <1>1, TaskTypes
    <3>2. QED
      BY <1>7, <1>1, <3>1, SetTaskType DEF AddFinalizer, ReturnError
  <2>2. faults' \in 0 .. MaxFaults
    BY <1>7, FaultType DEF AddFinalizer
  <2>3. obj' \in [CRs -> Object]
    <3> DEFINE o == [obj[c] EXCEPT !.finalizer = TRUE]
    <3>1. o \in Object
      BY Zenon, <1>1 DEF Object
    <3>2. obj' = obj \/ obj' = [obj EXCEPT ![c] = o]
      BY <1>7, <1>1 DEF AddFinalizer
    <3> HIDE DEF o
    <3>3. QED
      BY <3>1, <3>2, ObjectWrite
  <2>4. queued' \in [CRs -> BOOLEAN] /\ stale' \in [CRs -> BOOLEAN]
    BY Zenon, <1>7 DEF AddFinalizer, ReturnError, Enqueue, TypeOK
  <2>5. QED
    BY <1>7, <2>1, <2>2, <2>3, <2>4 DEF AddFinalizer, TypeOK, once
<1>8. CASE Proceed(c)
  <2>1. [t EXCEPT !.pc = "begin"] \in Task
    BY Zenon, <1>1, TaskTypes DEF Pcs
  <2>2. task' \in [Sources -> [CRs -> Task]]
    BY <1>8, <1>1, <2>1, SetTaskType DEF Proceed
  <2>3. completed' \subseteq CRs /\ stale' \in [CRs -> BOOLEAN]
    BY <1>8 DEF Proceed, TypeOK
  <2>4. QED
    BY <1>8, <2>2, <2>3 DEF Proceed, TypeOK, store, queue
<1>9. QED
  BY <1>2, <1>3, <1>4, <1>5, <1>6, <1>7, <1>8

\* The steps of a run keep the types.
LEMMA RunType ==
    ASSUME TypeOK, NEW s \in Sources, NEW c \in CRs, RunStep(s, c)
    PROVE  TypeOK'
<1> DEFINE t == task[s][c]
<1>1. t \in Task /\ obj[c] \in Object /\ status[c] \in Status
  BY DEF TypeOK
<1>2. CopyOf(obj[c]) \in Copy
  BY Zenon, <1>1, ValueTypes
<1>3. CASE setReconcilingStatus(s, c)
  <2>1. [t EXCEPT !.pc = "run", !.copy = CopyOf(obj[c])] \in Task
        /\ [t EXCEPT !.pc = "run"] \in Task
    BY Zenon, <1>1, <1>2, TaskTypes DEF Pcs
  <2>2. task' \in [Sources -> [CRs -> Task]]
    BY <1>3, <2>1, SetTaskType DEF setReconcilingStatus
  <2>3. faults' \in 0 .. MaxFaults
    BY <1>3, FaultType DEF setReconcilingStatus
  <2>4. stale' \in [CRs -> BOOLEAN]
    <3>1. Outdate(c) \/ UNCHANGED stale
      BY <1>3 DEF setReconcilingStatus
    <3>2. QED
      BY <3>1, OutdateType
  <2>5. status' \in [CRs -> Status]
    <3> DEFINE x == [status[c] EXCEPT !.reconciling = "True"]
    <3>1. x \in Status
      BY <1>1 DEF Status
    <3>2. status' = status \/ status' = [status EXCEPT ![c] = x]
      BY <1>3 DEF setReconcilingStatus
    <3> HIDE DEF x
    <3>3. QED
      BY <3>1, <3>2, StatusWrite
  <2>6. QED
    BY <1>3, <2>2, <2>3, <2>4, <2>5 DEF setReconcilingStatus, TypeOK, queue, once
<1>4. CASE FilterApplications(s, c)
  <2>1. [t EXCEPT !.pc = "finish", !.result = "failed"] \in Task
        /\ [t EXCEPT !.pc = "apps"] \in Task
    BY Zenon, <1>1, TaskTypes DEF Pcs, Outcomes
  <2>2. task' \in [Sources -> [CRs -> Task]]
    BY <1>4, <2>1, SetTaskType DEF FilterApplications
  <2>3. faults' \in 0 .. MaxFaults
    BY <1>4, FaultType DEF FilterApplications
  <2>4. metrics' \subseteq CRs
    BY <1>4 DEF FilterApplications, Series, TypeOK
  <2>5. QED
    BY <1>4, <2>2, <2>3, <2>4 DEF FilterApplications, TypeOK, store, queue, once
<1>5. CASE UpdateApplications(s, c)
  <2>1. \A r \in Results : [t EXCEPT !.pc = "finish", !.result = r] \in Task
    BY Zenon, <1>1, TaskTypes DEF Pcs, Outcomes
  <2>2. task' \in [Sources -> [CRs -> Task]]
    <3>1. PICK r \in Results :
             SetTask(s, c, [t EXCEPT !.pc = "finish", !.result = r])
      BY Zenon, <1>5 DEF UpdateApplications
    <3>2. QED
      BY Zenon, <3>1, <2>1, SetTaskType
  <2>3. metrics' \subseteq CRs
    BY <1>5 DEF UpdateApplications, Series, TypeOK
  <2>4. checked' \in [CRs -> Gens]
    <3>1. t.copy.gen \in Gens
      BY <1>1 DEF Task, Copy
    <3>2. QED
      BY <1>5, <3>1 DEF UpdateApplications, TypeOK
  <2>5. QED
    BY <1>5, <2>2, <2>3, <2>4 DEF UpdateApplications, TypeOK, store, queue, once
<1>6. QED
  BY <1>3, <1>4, <1>5 DEF RunStep

\* The status a finished run writes is well typed.
LEMMA StatusType ==
    ASSUME TypeOK, NEW s \in Sources, NEW c \in CRs, updateStatus(s, c)
    PROVE  /\ status' \in [CRs -> Status]
           /\ stale' \in [CRs -> BOOLEAN]
           /\ faults' \in 0 .. MaxFaults
<1> DEFINE x == [setCompletionConditions(status[c], task[s][c].result)
                    EXCEPT !.observed = ObservedGeneration(s, c)]
<1>1. task[s][c] \in Task /\ obj[c] \in Object /\ status[c] \in Status
  BY DEF TypeOK
<1>2. x \in Status
  BY Zenon, <1>1 DEF setCompletionConditions, ObservedGeneration, Status, Object, Task
<1>3. status' = status \/ status' = [status EXCEPT ![c] = x]
  BY DEF updateStatus
<1>4. status' \in [CRs -> Status]
  <2> HIDE DEF x
  <2>1. QED
    BY <1>2, <1>3, StatusWrite
<1>5. stale' \in [CRs -> BOOLEAN]
  <2>1. Outdate(c) \/ UNCHANGED stale
    BY DEF updateStatus
  <2>2. QED
    BY <2>1, OutdateType
<1>6. faults' \in 0 .. MaxFaults
  BY FaultType DEF updateStatus
<1>7. QED
  BY <1>4, <1>5, <1>6

\* The end of Reconcile keeps the types.
LEMMA FinishType ==
    ASSUME TypeOK, NEW c \in CRs, FinishReconcile(c)
    PROVE  TypeOK'
<1>1. Reconciler \in Sources /\ Idle \in Task
  BY Zenon, SourceTypes, ValueTypes
<1>2. task' \in [Sources -> [CRs -> Task]]
  BY <1>1, SetTaskType DEF FinishReconcile
<1>3. /\ status' \in [CRs -> Status]
      /\ stale' \in [CRs -> BOOLEAN]
      /\ faults' \in 0 .. MaxFaults
  BY <1>1, StatusType DEF FinishReconcile
<1>4. timer' \in [CRs -> BOOLEAN]
  BY DEF FinishReconcile, NextCheck, TypeOK
<1>5. wg' \in Nat /\ proc' \in {"up", "stopped", "exited", "panicked"}
  BY DEF FinishReconcile, SignalDone, Done, TypeOK
<1>6. ended' \subseteq CRs
  BY DEF FinishReconcile, TypeOK
<1>7. QED
  BY <1>2, <1>3, <1>4, <1>5, <1>6 DEF FinishReconcile, TypeOK

\* Listing the objects gives each of them a task.
LEMMA ListedType ==
    ASSUME TypeOK, NEW s \in Listers, Listed(s)
    PROVE  task' \in [Sources -> [CRs -> Task]]
<1> DEFINE f == [c \in CRs |-> IF obj[c].present
                              THEN [Idle EXCEPT !.pc = "listed", !.copy = CopyOf(obj[c])]
                              ELSE Idle]
<1>1. ASSUME NEW c \in CRs
      PROVE  [Idle EXCEPT !.pc = "listed", !.copy = CopyOf(obj[c])] \in Task
  <2>1. CopyOf(obj[c]) \in Copy
    BY Zenon, ValueTypes DEF TypeOK
  <2>2. QED
    BY Zenon, <2>1, ValueTypes
<1>2. f \in [CRs -> Task]
  BY Zenon, <1>1, ValueTypes
<1>3. task' = [task EXCEPT ![s] = f]
  BY Zenon DEF Listed
<1> HIDE DEF f
<1>4. QED
  BY <1>2, <1>3, SourceTypes DEF TypeOK

\* The warm-up and the webhook goroutines keep the types.
LEMMA ListerType ==
    ASSUME TypeOK,
           \/ ListForWarmUp
           \/ \E e \in Events : ListForWebhook(e)
           \/ \E s \in Listers, c \in CRs : Acquire(s, c)
           \/ \E e \in Events, c \in CRs : FinishWebhook(e, c)
           \/ \E c \in CRs : FinishWarmUp(c)
           \/ \E s \in Listers : Wait(s)
           \/ ManagerFails
           \/ StopManager
    PROVE  TypeOK'
<1>1. CASE ListForWarmUp
  <2>1. task' \in [Sources -> [CRs -> Task]]
    BY <1>1, SourceTypes, ListedType DEF ListForWarmUp, TypeOK
  <2>2. faults' \in 0 .. MaxFaults
    BY <1>1, FaultType DEF ListForWarmUp
  <2>3. IsFiniteSet(Present) /\ Present \subseteq CRs
    BY FS_Subset DEF Present
  <2>4. WgAdd \in Nat
    BY <2>3, FS_CardinalityType DEF WgAdd
  <2>5. wg' \in Nat /\ counted' \subseteq CRs /\ watching' \in BOOLEAN /\ warmed' \in BOOLEAN
    <3>1. wg' \in Nat
      BY <1>1, <2>4 DEF ListForWarmUp, TypeOK
    <3>2. counted' \subseteq CRs
      BY <1>1, <2>3 DEF ListForWarmUp, TypeOK
    <3>3. watching' \in BOOLEAN /\ warmed' \in BOOLEAN
      BY Zenon, <1>1 DEF ListForWarmUp, TypeOK
    <3>4. QED
      BY <3>1, <3>2, <3>3
  <2>6. phase' \in [Listers -> {"waiting", "processing", "failing", "failed", "done"}]
    BY <1>1 DEF ListForWarmUp, TypeOK
  <2>7. QED
    BY <1>1, <2>1, <2>2, <2>5, <2>6 DEF ListForWarmUp, TypeOK, store, queue
<1>2. ASSUME NEW e \in Events, ListForWebhook(e) PROVE TypeOK'
  <2>1. task' \in [Sources -> [CRs -> Task]]
    BY <1>2, SourceTypes, ListedType DEF ListForWebhook, TypeOK
  <2>2. faults' \in 0 .. MaxFaults
    BY <1>2, FaultType DEF ListForWebhook
  <2>3. phase' \in [Listers -> {"waiting", "processing", "failing", "failed", "done"}]
    BY <1>2 DEF ListForWebhook, TypeOK
  <2>4. QED
    BY <1>2, <2>1, <2>2, <2>3 DEF ListForWebhook, TypeOK, store, queue, once
<1>3. ASSUME NEW s \in Listers, NEW c \in CRs, Acquire(s, c) PROVE TypeOK'
  <2>1. s \in Sources /\ task[s][c] \in Task
    BY SourceTypes DEF TypeOK
  <2>2. [task[s][c] EXCEPT !.pc = IF s = Warmer THEN "run" ELSE "begin"] \in Task
    BY Zenon, <2>1, TaskTypes DEF Pcs
  <2>3. task' \in [Sources -> [CRs -> Task]]
    BY <1>3, <2>1, <2>2, SetTaskType DEF Acquire
  <2>4. QED
    BY <1>3, <2>3 DEF Acquire, TypeOK, store, queue, once
<1>4. ASSUME NEW e \in Events, NEW c \in CRs, FinishWebhook(e, c) PROVE TypeOK'
  <2>1. e \in Sources /\ Idle \in Task
    BY Zenon, SourceTypes, ValueTypes
  <2>2. task' \in [Sources -> [CRs -> Task]]
    BY <1>4, <2>1, SetTaskType DEF FinishWebhook
  <2>3. /\ status' \in [CRs -> Status]
        /\ stale' \in [CRs -> BOOLEAN]
        /\ faults' \in 0 .. MaxFaults
    BY <1>4, <2>1, StatusType DEF FinishWebhook
  <2>4. QED
    BY <1>4, <2>2, <2>3 DEF FinishWebhook, TypeOK, queue, once
<1>5. ASSUME NEW c \in CRs, FinishWarmUp(c) PROVE TypeOK'
  <2>1. Warmer \in Sources /\ Idle \in Task
    BY Zenon, SourceTypes, ValueTypes
  <2>2. task' \in [Sources -> [CRs -> Task]]
    BY Zenon, <1>5, <2>1, SetTaskType DEF FinishWarmUp
  <2>3. phase' \in [Listers -> {"waiting", "processing", "failing", "failed", "done"}]
    BY Zenon, <1>5 DEF FinishWarmUp, TypeOK
  <2>4. QED
    BY <1>5, <2>2, <2>3 DEF FinishWarmUp, TypeOK, store, queue, once
<1>6. ASSUME NEW s \in Listers, Wait(s) PROVE TypeOK'
  <2>1. phase' \in [Listers -> {"waiting", "processing", "failing", "failed", "done"}]
    BY <1>6 DEF Wait, TypeOK
  <2>2. QED
    BY <1>6, <2>1 DEF Wait, TypeOK, store, queue, once
<1>7. CASE ManagerFails \/ StopManager
  BY <1>7 DEF ManagerFails, StopManager, TypeOK, store, queue, once
<1>8. QED
  BY <1>1, <1>2, <1>3, <1>4, <1>5, <1>6, <1>7

\* What users do keeps the types.
LEMMA UserType ==
    ASSUME TypeOK, NEW c \in CRs,
           Create(c) \/ Edit(c) \/ Delete(c) \/ Release(c) \/ Tick(c)
    PROVE  TypeOK'
<1>1. obj[c] \in Object /\ NewStatus \in Status
  BY Zenon, ValueTypes DEF TypeOK
<1>2. obj[c].gen < MaxGen => obj[c].gen + 1 \in Gens
  BY <1>1 DEF Object, Gens
<1>3. CASE Create(c)
  <2>1. PICK held \in BOOLEAN :
           obj' = [obj EXCEPT ![c] = [present |-> TRUE, gen |-> obj[c].gen + 1,
                       deleting |-> FALSE, finalizer |-> FALSE, foreign |-> held]]
    BY Zenon, <1>3 DEF Create
  <2> DEFINE o == [present |-> TRUE, gen |-> obj[c].gen + 1,
                   deleting |-> FALSE, finalizer |-> FALSE, foreign |-> held]
  <2>2. o \in Object
    BY <1>2, <1>3 DEF Create, UserMay, Object
  <2>3. obj' \in [CRs -> Object]
    <3> HIDE DEF o
    <3>1. QED
      BY Zenon, <2>1, <2>2, ObjectWrite DEF o
  <2>4. status' \in [CRs -> Status] /\ queued' \in [CRs -> BOOLEAN]
    BY <1>1, <1>3 DEF Create, Enqueue, TypeOK
  <2>5. stale' \in [CRs -> BOOLEAN]
    BY <1>3, OutdateType DEF Create
  <2>6. QED
    BY Zenon, <1>3, <2>3, <2>4, <2>5 DEF Create, TypeOK, once
<1>4. CASE Edit(c)
  <2> DEFINE o == [obj[c] EXCEPT !.gen = @ + 1]
  <2>1. o \in Object
    BY <1>1, <1>2, <1>4 DEF Edit, UserMay, Object
  <2>2. obj' = [obj EXCEPT ![c] = o]
    BY <1>4 DEF Edit
  <2>3. obj' \in [CRs -> Object]
    <3> HIDE DEF o
    <3>1. QED
      BY Zenon, <2>1, <2>2, ObjectWrite
  <2>4. queued' \in [CRs -> BOOLEAN] /\ stale' \in [CRs -> BOOLEAN]
    BY <1>4, OutdateType DEF Edit, Enqueue, TypeOK
  <2>5. QED
    BY <1>4, <2>3, <2>4 DEF Edit, TypeOK, once
<1>5. CASE Delete(c)
  <2> DEFINE o == [obj[c] EXCEPT !.gen = @ + 1, !.present = Held(c), !.deleting = Held(c)]
  <2>1. o \in Object
    BY Zenon, <1>1, <1>2, <1>5 DEF Delete, UserMay, Held, Object
  <2>2. obj' = [obj EXCEPT ![c] = o]
    BY Zenon, <1>1, <1>5 DEF Delete, Held
  <2>3. obj' \in [CRs -> Object]
    <3> HIDE DEF o
    <3>1. QED
      BY Zenon, <2>1, <2>2, ObjectWrite
  <2>4. queued' \in [CRs -> BOOLEAN] /\ stale' \in [CRs -> BOOLEAN]
    BY <1>5, OutdateType DEF Delete, Enqueue, TypeOK
  <2>5. QED
    BY <1>5, <2>3, <2>4 DEF Delete, TypeOK, once
<1>6. CASE Release(c)
  <2> DEFINE o == [obj[c] EXCEPT !.foreign = FALSE, !.present = obj[c].finalizer,
                                 !.deleting = obj[c].finalizer]
  <2>1. o \in Object
    BY Zenon, <1>1 DEF Object
  <2>2. obj' = [obj EXCEPT ![c] = o]
    BY Zenon, <1>1, <1>6 DEF Release
  <2>3. obj' \in [CRs -> Object]
    <3> HIDE DEF o
    <3>1. QED
      BY Zenon, <2>1, <2>2, ObjectWrite
  <2>4. stale' \in [CRs -> BOOLEAN]
    BY <1>6, OutdateType DEF Release
  <2>5. queued' \in [CRs -> BOOLEAN]
    BY <1>1, <1>6 DEF Release, TypeOK, Object
  <2>6. QED
    BY <1>6, <2>3, <2>4, <2>5 DEF Release, TypeOK, once
<1>7. CASE Tick(c)
  BY <1>7 DEF Tick, Enqueue, TypeOK, store, once
<1>8. QED
  BY <1>3, <1>4, <1>5, <1>6, <1>7

\* Every step keeps the types.
LEMMA StepType == TypeOK /\ [Next]_vars => TypeOK'
<1> SUFFICES ASSUME TypeOK, [Next]_vars PROVE TypeOK'
  OBVIOUS
<1>1. CASE Next
  BY <1>1, RestartType, ReconcileType, RunType, FinishType, ListerType, UserType
     DEF Next, ReconcileStep
<1>2. CASE UNCHANGED vars
  BY <1>2 DEF vars, TypeOK
<1>3. QED
  BY <1>1, <1>2

\* The controller, its queue and the objects keep their types, and the counter
\* of the WaitGroup stays a natural number, for any number of objects, events
\* and workers.
THEOREM ControllerTypes == Spec => []TypeOK
BY InitType, StepType, PTL DEF Spec

-----------------------------------------------------------------------------
(***************************************************************************)
(* The warm-up comes first.  WarmUpFirst is not inductive: it needs that   *)
(* the channel is open until the warm-up has ended, that the warm-up has   *)
(* tasks only between its list and its end, and that Reconcile passes the  *)
(* gate only when the channel is closed.                                   *)
(***************************************************************************)
WarmUpInv ==
    /\ warmed => phase[Warmer] \in {"failed", "done"}
    /\ phase[Warmer] \notin {"processing", "failing"} =>
          \A c \in CRs : task[Warmer][c].pc = "idle"
    /\ \A c \in CRs : task[Reconciler][c].pc # "idle" => warmed

\* A step of one task leaves the tasks of the other sources alone.
LEMMA OtherTasks ==
    ASSUME TypeOK, NEW s \in Sources, NEW c \in CRs, NEW t, SetTask(s, c, t)
    PROVE  /\ \A u \in Sources : u # s => task'[u] = task[u]
           /\ \A d \in CRs : d # c => task'[s][d] = task[s][d]
           /\ task'[s][c] = t
<1>1. task' = [task EXCEPT ![s] = [task[s] EXCEPT ![c] = t]]
  BY DEF SetTask
<1>2. task \in [Sources -> [CRs -> Task]]
  BY DEF TypeOK
<1>3. QED
  BY <1>1, <1>2

\* The invariant holds at the start.
LEMMA WarmUpInit == Init => WarmUpInv
<1> SUFFICES ASSUME Init PROVE WarmUpInv
  OBVIOUS
<1>1. \A u \in Sources, d \in CRs : task[u][d].pc = "idle"
  BY DEF Init, Fresh, Idle
<1>2. warmed => phase[Warmer] = "done"
  BY Zenon, SourceTypes DEF Init
<1>3. QED
  BY <1>1, <1>2, SourceTypes DEF WarmUpInv

\* It holds after a restart, whatever was in memory before.
LEMMA WarmUpRestart == ASSUME Restart PROVE WarmUpInv'
<1>1. \A u \in Sources, d \in CRs : task'[u][d].pc = "idle"
  BY DEF Restart, Fresh, Idle
<1>2. warmed' => phase'[Warmer] = "done"
  BY SourceTypes DEF Restart
<1>3. QED
  BY <1>1, <1>2, SourceTypes DEF WarmUpInv

\* A step of Reconcile: past the gate the channel is closed, and stays so.
LEMMA WarmUpReconcile ==
    ASSUME TypeOK, WarmUpInv, NEW c \in CRs,
           Get(c) \/ ReconcileStep(c) \/ RunStep(Reconciler, c)
    PROVE  WarmUpInv'
<1>1. warmed /\ UNCHANGED <<phase, warmed>>
  BY Zenon DEF Get, ReconcileStep, RunStep, WarmUpInv, CacheWarmed, At, Finalize,
     RemoveFinalizer, StopDeleting, AddFinalizer, Proceed, FinishReconcile,
     setReconcilingStatus, FilterApplications, UpdateApplications
<1>2. task'[Warmer] = task[Warmer]
  <2>1. (task' = task) \/ \E t : SetTask(Reconciler, c, t)
    BY Zenon DEF Get, ReconcileStep, RunStep, Finalize, RemoveFinalizer, ReturnError,
       StopDeleting, AddFinalizer, Proceed, FinishReconcile,
       setReconcilingStatus, FilterApplications, UpdateApplications
  <2>2. QED
    BY <2>1, SourceTypes, OtherTasks
<1>3. QED
  BY <1>1, <1>2 DEF WarmUpInv

\* A run of the warm-up moves one of its tasks while it is processing; a run
\* of a webhook event touches nothing the invariant is about.
LEMMA WarmUpRuns ==
    ASSUME TypeOK, WarmUpInv, NEW s \in Listers, NEW c \in CRs,
           Acquire(s, c) \/ RunStep(s, c)
    PROVE  WarmUpInv'
<1>1. s \in Sources /\ s # Reconciler
  BY SourceTypes
<1>2. UNCHANGED <<phase, warmed>> /\ task[s][c].pc # "idle"
  BY Zenon DEF Acquire, RunStep, At, setReconcilingStatus, FilterApplications, UpdateApplications
<1>3. PICK t : SetTask(s, c, t)
  BY Zenon DEF Acquire, RunStep, setReconcilingStatus, FilterApplications, UpdateApplications
<1>4. \A u \in Sources : u # s => task'[u] = task[u]
  BY <1>1, <1>3, OtherTasks
<1>5. task'[Reconciler] = task[Reconciler]
  BY <1>1, <1>4, SourceTypes
<1>6. CASE s = Warmer
  BY <1>2, <1>5, <1>6 DEF WarmUpInv
<1>7. CASE s # Warmer
  BY <1>2, <1>4, <1>5, <1>7, SourceTypes DEF WarmUpInv
<1>8. QED
  BY <1>6, <1>7

\* The warm-up lists, ends a run, and ends.
LEMMA WarmUpLists ==
    ASSUME TypeOK, WarmUpInv,
           \/ ListForWarmUp
           \/ \E c \in CRs : FinishWarmUp(c)
           \/ \E s \in Listers : Wait(s)
    PROVE  WarmUpInv'
<1>1. phase \in [Listers -> {"waiting", "processing", "failing", "failed", "done"}]
      /\ task \in [Sources -> [CRs -> Task]]
  BY DEF TypeOK
<1>2. CASE ListForWarmUp
  <2>1. ~warmed /\ \A c \in CRs : task[Reconciler][c].pc = "idle" /\ task[Warmer][c].pc = "idle"
    BY <1>2 DEF ListForWarmUp, WarmUpInv
  <2>2. task'[Reconciler] = task[Reconciler]
    BY Zenon, <1>1, <1>2, SourceTypes DEF ListForWarmUp, Listed
  <2>3. CASE phase' = [phase EXCEPT ![Warmer] = "failed"] /\ UNCHANGED task
    BY <1>1, <2>1, <2>3, SourceTypes DEF WarmUpInv
  <2>4. CASE phase' = [phase EXCEPT ![Warmer] = "processing"] /\ UNCHANGED warmed
    BY <1>1, <2>1, <2>2, <2>4, SourceTypes DEF WarmUpInv
  <2>5. QED
    BY <1>2, <2>3, <2>4 DEF ListForWarmUp
<1>3. ASSUME NEW c \in CRs, FinishWarmUp(c) PROVE WarmUpInv'
  <2>1. phase[Warmer] \in {"processing", "failing"} /\ ~warmed
    BY <1>3 DEF FinishWarmUp, At, WarmUpInv
  <2>2. phase'[Warmer] \in {"processing", "failing"}
    BY <1>1, <1>3, <2>1, SourceTypes DEF FinishWarmUp
  <2>3. task'[Reconciler] = task[Reconciler]
    BY <1>3, SourceTypes, OtherTasks DEF FinishWarmUp
  <2>4. warmed' = warmed
    BY Zenon, <1>3 DEF FinishWarmUp
  <2>5. QED
    BY <2>1, <2>2, <2>3, <2>4 DEF WarmUpInv
<1>4. ASSUME NEW s \in Listers, Wait(s) PROVE WarmUpInv'
  <2>1. UNCHANGED task /\ (warmed => warmed')
    BY Zenon, <1>4 DEF Wait
  <2>2. CASE s = Warmer
    <3>1. phase'[Warmer] \in {"failed", "done"}
      BY <1>1, <1>4, <2>2 DEF Wait
    <3>2. \A c \in CRs : task[Warmer][c].pc = "idle"
      BY Zenon, <1>4, <2>2 DEF Wait
    <3>3. QED
      BY Zenon, <2>1, <3>1, <3>2 DEF WarmUpInv
  <2>3. CASE s # Warmer
    <3>1. phase'[Warmer] = phase[Warmer] /\ warmed' = warmed
      BY <1>1, <1>4, <2>3, SourceTypes DEF Wait, TypeOK
    <3>2. QED
      BY Zenon, <2>1, <3>1 DEF WarmUpInv
  <2>4. QED
    BY <2>2, <2>3
<1>5. QED
  BY <1>2, <1>3, <1>4

\* The other steps leave the tasks of Reconcile and of the warm-up alone.
LEMMA WarmUpOthers ==
    ASSUME TypeOK, WarmUpInv,
           \/ \E c \in CRs : WaitForWarmUp(c) \/ Tick(c) \/ Create(c) \/ Edit(c)
                             \/ Delete(c) \/ Release(c)
           \/ ManagerFails \/ StopManager \/ UNCHANGED vars
           \/ \E e \in Events : ListForWebhook(e)
           \/ \E e \in Events, c \in CRs : FinishWebhook(e, c)
    PROVE  WarmUpInv'
<1>1. CASE UNCHANGED <<task, phase, warmed>>
  BY Zenon, <1>1 DEF WarmUpInv
<1>2. ASSUME NEW e \in Events, ListForWebhook(e) PROVE WarmUpInv'
  <2>1. e \in Listers /\ e # Warmer /\ e # Reconciler
    BY SourceTypes
  <2>2. phase'[Warmer] = phase[Warmer] /\ warmed' = warmed
    BY <1>2, <2>1, SourceTypes DEF ListForWebhook, TypeOK
  <2>3. task'[Warmer] = task[Warmer] /\ task'[Reconciler] = task[Reconciler]
    BY Zenon, <1>2, <2>1, SourceTypes DEF ListForWebhook, Listed, TypeOK
  <2>4. QED
    BY Zenon, <2>2, <2>3 DEF WarmUpInv
<1>3. ASSUME NEW e \in Events, NEW c \in CRs, FinishWebhook(e, c) PROVE WarmUpInv'
  <2>1. e \in Sources /\ e # Warmer /\ e # Reconciler
    BY SourceTypes
  <2>2. task'[Warmer] = task[Warmer] /\ task'[Reconciler] = task[Reconciler]
    BY Zenon, <1>3, <2>1, SourceTypes, OtherTasks DEF FinishWebhook
  <2>3. UNCHANGED <<phase, warmed>>
    BY <1>3 DEF FinishWebhook
  <2>4. QED
    BY Zenon, <2>2, <2>3 DEF WarmUpInv
<1>4. QED
  BY Zenon, <1>1, <1>2, <1>3 DEF WaitForWarmUp, Tick, Create, Edit, Delete, Release,
     ManagerFails, StopManager, vars

\* Every step keeps the invariant.
LEMMA WarmUpStep == TypeOK /\ WarmUpInv /\ [Next]_vars => WarmUpInv'
<1> SUFFICES ASSUME TypeOK, WarmUpInv, [Next]_vars PROVE WarmUpInv'
  OBVIOUS
<1>1. ASSUME NEW s \in Sources, NEW c \in CRs, RunStep(s, c) PROVE WarmUpInv'
  BY <1>1, WarmUpReconcile, WarmUpRuns DEF Sources
<1>2. QED
  BY <1>1, WarmUpRestart, WarmUpReconcile, WarmUpRuns, WarmUpLists, WarmUpOthers
     DEF Next

\* Reconcile works on an object only after the last run of the warm-up has
\* ended, also when the warm-up fails and after every restart
\* (CacheWarmer.Start closes the channel when it returns).
THEOREM WarmUpBeforeReconcile == Spec => []WarmUpFirst
<1>1. WarmUpInv => WarmUpFirst
  BY DEF WarmUpInv, WarmUpFirst
<1>2. QED
  BY <1>1, WarmUpInit, WarmUpStep, ControllerTypes, PTL DEF Spec

-----------------------------------------------------------------------------
(***************************************************************************)
(* The observed generation.  That it never goes back needs that it is      *)
(* never ahead of the object: both status writes use the object they have  *)
(* just read, and a generation only grows.                                 *)
(***************************************************************************)
ObservedInv == \A c \in CRs : status[c].observed <= obj[c].gen

\* What ObservedMonotone says of a step.
ObservedKept ==
    \A c \in CRs : obj[c].present /\ obj'[c].present =>
        status'[c].observed >= status[c].observed

\* Generations are natural numbers.
LEMMA GenTypes ==
    ASSUME NEW o \in [CRs -> Object], NEW s \in [CRs -> Status]
    PROVE  \A d \in CRs : /\ o[d].gen \in Int /\ o[d].gen >= 0
                          /\ s[d].observed \in Int
BY DEF Object, Status, Gens

\* A step that leaves the status alone and lets generations only grow.
LEMMA ObservedByGrowth ==
    ASSUME TypeOK, TypeOK', ObservedInv, UNCHANGED status,
           \A c \in CRs : obj'[c].gen >= obj[c].gen
    PROVE  ObservedInv' /\ ObservedKept
<1>1. status \in [CRs -> Status] /\ obj \in [CRs -> Object] /\ obj' \in [CRs -> Object]
  BY Zenon DEF TypeOK
<1>2. \A c \in CRs : /\ status[c].observed \in Int
                     /\ obj[c].gen \in Int /\ obj'[c].gen \in Int
  BY Zenon, <1>1, GenTypes
<1>3. QED
  BY <1>2 DEF ObservedInv, ObservedKept

\* The writes to the objects: finalizers, and what users do.
LEMMA ObservedObjects ==
    ASSUME TypeOK, TypeOK', ObservedInv, NEW c \in CRs,
           \/ RemoveFinalizer(c) \/ AddFinalizer(c)
           \/ Edit(c) \/ Delete(c) \/ Release(c)
    PROVE  ObservedInv' /\ ObservedKept
<1>1. UNCHANGED status
  BY Zenon DEF RemoveFinalizer, AddFinalizer, Edit, Delete, Release
<1>2. obj \in [CRs -> Object] /\ obj[c] \in Object
  BY DEF TypeOK
<1>3. \A d \in CRs : d # c => obj'[d] = obj[d]
  BY <1>2 DEF RemoveFinalizer, AddFinalizer, Edit, Delete, Release
<1>4. obj'[c].gen = obj[c].gen \/ obj'[c].gen = obj[c].gen + 1
  <2>1. CASE RemoveFinalizer(c) \/ AddFinalizer(c)
    BY <1>2, <2>1 DEF RemoveFinalizer, AddFinalizer, Object
  <2>2. CASE Edit(c)
    BY <1>2, <2>2 DEF Edit, Object
  <2>3. CASE Delete(c)
    BY <1>2, <2>3 DEF Delete, Object
  <2>4. CASE Release(c)
    BY <1>2, <2>4 DEF Release, Object
  <2>5. QED
    BY Zenon, <2>1, <2>2, <2>3, <2>4
<1>5. \A d \in CRs : obj[d].gen \in Int
  <2>1. obj \in [CRs -> Object] /\ status \in [CRs -> Status]
    BY Zenon DEF TypeOK
  <2>2. QED
    BY Zenon, <2>1, GenTypes
<1>6. \A d \in CRs : obj'[d].gen >= obj[d].gen
  <2>1. ASSUME NEW d \in CRs PROVE obj'[d].gen = obj[d].gen \/ obj'[d].gen = obj[d].gen + 1
    BY Zenon, <1>3, <1>4
  <2>2. QED
    BY <2>1, <1>5
<1>7. QED
  BY Zenon, <1>1, <1>6, ObservedByGrowth

\* The writes to the status.
LEMMA ObservedWrites ==
    ASSUME TypeOK, ObservedInv, NEW s \in Sources, NEW c \in CRs, UNCHANGED obj,
           setReconcilingStatus(s, c) \/ updateStatus(s, c)
    PROVE  ObservedInv' /\ ObservedKept
<1>1. /\ status \in [CRs -> Status] /\ status[c] \in Status
      /\ \A d \in CRs : status[d].observed \in Int /\ obj[d].gen \in Int
  <2>1. obj \in [CRs -> Object] /\ status \in [CRs -> Status]
    BY Zenon DEF TypeOK
  <2>2. QED
    BY Zenon, <2>1, GenTypes
<1>2. \A d \in CRs : d # c => status'[d] = status[d]
  BY <1>1 DEF setReconcilingStatus, updateStatus
<1>3. status'[c].observed = status[c].observed \/ status'[c].observed = obj[c].gen
  <2>1. CASE setReconcilingStatus(s, c)
    BY <1>1, <2>1 DEF setReconcilingStatus, Status
  <2>2. CASE updateStatus(s, c)
    <3> DEFINE x == [setCompletionConditions(status[c], task[s][c].result)
                        EXCEPT !.observed = ObservedGeneration(s, c)]
    <3>1. x.observed = obj[c].gen
      BY <1>1 DEF setCompletionConditions, ObservedGeneration, Status
    <3>2. status' = status \/ status' = [status EXCEPT ![c] = x]
      BY <2>2 DEF updateStatus
    <3> HIDE DEF x
    <3>3. QED
      BY Zenon, <1>1, <3>1, <3>2
  <2>3. QED
    BY Zenon, <2>1, <2>2
<1>4. \A d \in CRs : status'[d].observed = status[d].observed
                       \/ status'[d].observed = obj[d].gen
  BY Zenon, <1>2, <1>3
<1>5. QED
  BY <1>1, <1>4 DEF ObservedInv, ObservedKept

\* A new object has observed nothing.
LEMMA ObservedCreate ==
    ASSUME TypeOK, TypeOK', ObservedInv, NEW c \in CRs, Create(c)
    PROVE  ObservedInv' /\ ObservedKept
<1>1. status \in [CRs -> Status] /\ obj \in [CRs -> Object]
  BY DEF TypeOK
<1>2. \A d \in CRs : d # c => status'[d] = status[d] /\ obj'[d] = obj[d]
  BY <1>1 DEF Create
<1>3. status'[c].observed = 0 /\ ~obj[c].present
  BY Zenon, <1>1 DEF Create, NewStatus
<1>4. obj'[c].gen >= 0 /\ \A d \in CRs : status[d].observed \in Int
  <2>1. obj' \in [CRs -> Object]
    BY Zenon DEF TypeOK
  <2>2. QED
    BY Zenon, <1>1, <2>1, GenTypes
<1>5. ObservedInv'
  <2> SUFFICES ASSUME NEW d \in CRs PROVE status'[d].observed <= obj'[d].gen
    BY Zenon DEF ObservedInv
  <2>1. CASE d = c
    BY <1>3, <1>4, <2>1
  <2>2. CASE d # c
    BY Zenon, <1>2, <2>2 DEF ObservedInv
  <2>3. QED
    BY Zenon, <2>1, <2>2
<1>6. ObservedKept
  <2>1. \A d \in CRs : obj[d].present => status'[d].observed = status[d].observed
    BY Zenon, <1>2, <1>3
  <2>2. QED
    BY <1>4, <2>1 DEF ObservedKept
<1>7. QED
  BY Zenon, <1>5, <1>6

\* Every other step leaves objects and status alone.
LEMMA ObservedFrame ==
    ASSUME TypeOK, TypeOK', ObservedInv, UNCHANGED store
    PROVE  ObservedInv' /\ ObservedKept
<1>1. UNCHANGED status /\ UNCHANGED obj
  BY DEF store
<1>2. \A c \in CRs : obj[c].gen \in Int
  BY DEF TypeOK, Object, Gens
<1>3. QED
  BY <1>1, <1>2, ObservedByGrowth

\* The observed generation of an object never goes back, with any number of
\* webhook runs and Reconciles that end in any order.
THEOREM ObservedGrows == Spec => ObservedMonotone
<1>1. Init => ObservedInv
  <2> SUFFICES ASSUME Init PROVE ObservedInv
    OBVIOUS
  <2>1. obj \in [CRs -> Object]
    BY Zenon, InitType DEF TypeOK
  <2>2. \A c \in CRs : obj[c].gen >= 0
    BY <2>1 DEF Object, Gens
  <2>3. \A c \in CRs : status[c].observed = 0
    BY DEF Init, NewStatus
  <2>4. QED
    BY <2>2, <2>3 DEF ObservedInv
<1>2. TypeOK /\ TypeOK' /\ ObservedInv /\ [Next]_vars => ObservedInv' /\ ObservedKept
  <2> SUFFICES ASSUME TypeOK, TypeOK', ObservedInv, [Next]_vars
               PROVE  ObservedInv' /\ ObservedKept
    OBVIOUS
  <2>1. ASSUME NEW c \in CRs, WaitForWarmUp(c) \/ Get(c) \/ ReconcileStep(c) \/ Tick(c)
        PROVE  ObservedInv' /\ ObservedKept
    <3>1. CASE FinishReconcile(c)
      BY <3>1, SourceTypes, ObservedWrites DEF FinishReconcile
    <3>2. CASE RemoveFinalizer(c) \/ AddFinalizer(c)
      BY <3>2, ObservedObjects
    <3>3. CASE WaitForWarmUp(c) \/ Get(c) \/ Tick(c) \/ Finalize(c) \/ StopDeleting(c) \/ Proceed(c)
      BY Zenon, <3>3, ObservedFrame DEF WaitForWarmUp, Get, Tick, Finalize, StopDeleting, Proceed
    <3>4. QED
      BY <2>1, <3>1, <3>2, <3>3 DEF ReconcileStep
  <2>2. ASSUME NEW s \in Sources, NEW c \in CRs, RunStep(s, c)
        PROVE  ObservedInv' /\ ObservedKept
    <3>1. CASE setReconcilingStatus(s, c)
      BY Zenon, <3>1, ObservedWrites DEF setReconcilingStatus
    <3>2. CASE FilterApplications(s, c) \/ UpdateApplications(s, c)
      BY Zenon, <3>2, ObservedFrame DEF FilterApplications, UpdateApplications
    <3>3. QED
      BY <2>2, <3>1, <3>2 DEF RunStep
  <2>3. ASSUME NEW e \in Events, NEW c \in CRs, FinishWebhook(e, c)
        PROVE  ObservedInv' /\ ObservedKept
    BY <2>3, SourceTypes, ObservedWrites DEF FinishWebhook
  <2>4. ASSUME NEW c \in CRs, Create(c) \/ Edit(c) \/ Delete(c) \/ Release(c)
        PROVE  ObservedInv' /\ ObservedKept
    BY <2>4, ObservedCreate, ObservedObjects
  <2>5. CASE \/ ListForWarmUp \/ ManagerFails \/ StopManager \/ Restart \/ UNCHANGED vars
             \/ \E e \in Events : ListForWebhook(e)
             \/ \E s \in Listers : Wait(s)
             \/ \E s \in Listers, c \in CRs : Acquire(s, c)
             \/ \E c \in CRs : FinishWarmUp(c)
    <3>1. UNCHANGED store
      BY Zenon, <2>5 DEF ListForWarmUp, ManagerFails, StopManager, Restart, vars, store,
         ListForWebhook, Wait, Acquire, FinishWarmUp
    <3>2. QED
      BY <3>1, ObservedFrame
  <2>6. QED
    BY <2>1, <2>2, <2>3, <2>4, <2>5 DEF Next
<1>3. ObservedKept => [\A c \in CRs : obj[c].present /\ obj'[c].present =>
                          status'[c].observed >= status[c].observed]_vars
  BY Zenon DEF ObservedKept
<1>4. QED
  BY <1>1, <1>2, <1>3, ControllerTypes, PTL DEF Spec, ObservedMonotone

-----------------------------------------------------------------------------
(***************************************************************************)
(* Series and the finalizer.  MetricsBacked needs to know what Reconcile   *)
(* holds: an object it read with the finalizer keeps it until this same    *)
(* Reconcile removes it, a copy that is not stale is of an object that     *)
(* still exists, and from Finalize to the Update there are no series.      *)
(***************************************************************************)
SeriesInv ==
    /\ MetricsBacked
    /\ \A c \in CRs : obj[c].finalizer => obj[c].present
    /\ \A c \in CRs :
          /\ task[Reconciler][c].pc \in {"begin", "run", "apps", "finish"} =>
                obj[c].finalizer
          /\ task[Reconciler][c].pc = "got" /\ task[Reconciler][c].copy.finalizer =>
                obj[c].finalizer
          /\ task[Reconciler][c].pc = "got" /\ ~stale[c] => obj[c].present
          /\ task[Reconciler][c].pc = "remove" => c \notin metrics

\* The invariant holds at the start.
LEMMA SeriesInit == Init => SeriesInv
<1> SUFFICES ASSUME Init PROVE SeriesInv
  OBVIOUS
<1>1. \A d \in CRs : task[Reconciler][d].pc = "idle"
  BY Zenon, SourceTypes DEF Init, Fresh, Idle
<1>2. \A d \in CRs : obj[d].finalizer => obj[d].present
  BY DEF Init, InitialObjects, Object
<1>3. metrics = {}
  BY DEF Init
<1>4. QED
  BY Zenon, <1>1, <1>2, <1>3 DEF SeriesInv, MetricsBacked

\* A restart drops the series with everything else in memory.
LEMMA SeriesRestart == ASSUME SeriesInv, Restart PROVE SeriesInv'
<1>1. \A d \in CRs : task'[Reconciler][d].pc = "idle"
  BY Zenon, SourceTypes DEF Restart, Fresh, Idle
<1>2. UNCHANGED obj /\ metrics' = {}
  BY DEF Restart, store
<1>3. QED
  BY Zenon, <1>1, <1>2 DEF SeriesInv, MetricsBacked

\* Reconcile up to the start of the run.
LEMMA SeriesReconcile ==
    ASSUME TypeOK, SeriesInv, NEW c \in CRs,
           \/ Get(c) \/ Finalize(c) \/ RemoveFinalizer(c)
           \/ StopDeleting(c) \/ AddFinalizer(c) \/ Proceed(c)
    PROVE  SeriesInv'
<1> DEFINE t == task[Reconciler][c]
<1>1. /\ obj \in [CRs -> Object] /\ obj[c] \in Object
      /\ stale \in [CRs -> BOOLEAN] /\ metrics \subseteq CRs
      /\ Reconciler \in Sources /\ t \in Task
  BY SourceTypes DEF TypeOK
<1>2. Idle.pc = "idle"
  BY DEF Idle
<1>3. \A d \in CRs : d # c => task'[Reconciler][d] = task[Reconciler][d]
  <2>1. (task' = task) \/ \E u : SetTask(Reconciler, c, u)
    BY Zenon DEF Get, Finalize, RemoveFinalizer, ReturnError, StopDeleting, AddFinalizer, Proceed
  <2>2. QED
    BY <1>1, <2>1, OtherTasks
<1>4. \A d \in CRs : d # c => obj'[d] = obj[d] /\ stale'[d] = stale[d]
  BY Zenon, <1>1 DEF Get, Finalize, RemoveFinalizer, ReturnError, StopDeleting, AddFinalizer,
     Proceed, store
<1>5. \A d \in CRs : d # c => (d \in metrics' <=> d \in metrics)
  BY Zenon DEF Get, Finalize, RemoveFinalizer, ReturnError, StopDeleting, AddFinalizer, Proceed
<1>6. SUFFICES
         /\ c \in metrics' => obj'[c].present /\ obj'[c].finalizer
         /\ obj'[c].finalizer => obj'[c].present
         /\ task'[Reconciler][c].pc \in {"begin", "run", "apps", "finish"} =>
               obj'[c].finalizer
         /\ task'[Reconciler][c].pc = "got" /\ task'[Reconciler][c].copy.finalizer =>
               obj'[c].finalizer
         /\ task'[Reconciler][c].pc = "got" /\ ~stale'[c] => obj'[c].present
         /\ task'[Reconciler][c].pc = "remove" => c \notin metrics'
  <2>1. metrics' \subseteq CRs
    BY Zenon, <1>1 DEF Get, Finalize, RemoveFinalizer, StopDeleting, AddFinalizer, Proceed
  <2>2. QED
    BY Zenon, <1>3, <1>4, <1>5, <2>1 DEF SeriesInv, MetricsBacked
<1>7. CASE Get(c)
  <2>1. UNCHANGED <<obj, metrics>>
    BY <1>7 DEF Get, store
  <2>2. CASE UNCHANGED <<task, stale>>
    BY Zenon, <2>1, <2>2 DEF SeriesInv, MetricsBacked
  <2>3. CASE obj[c].present /\ SetTask(Reconciler, c,
                 [Idle EXCEPT !.pc = "got", !.copy = CopyOf(obj[c])])
    <3>1. task'[Reconciler][c] = [Idle EXCEPT !.pc = "got", !.copy = CopyOf(obj[c])]
      BY <1>1, <2>3, OtherTasks
    <3>2. task'[Reconciler][c].pc = "got"
          /\ task'[Reconciler][c].copy.finalizer = obj[c].finalizer
      BY <3>1 DEF Idle, CopyOf
    <3>3. QED
      BY <2>1, <2>3, <3>2 DEF SeriesInv, MetricsBacked
  <2>4. CASE ~obj[c].present /\ SetTask(Reconciler, c, Idle)
    <3>1. task'[Reconciler][c] = Idle
      BY Zenon, <1>1, <2>4, OtherTasks
    <3>2. QED
      BY Zenon, <1>2, <2>1, <3>1 DEF SeriesInv, MetricsBacked
  <2>5. QED
    BY Zenon, <1>7, <2>2, <2>3, <2>4 DEF Get
<1>8. CASE Finalize(c)
  <2>1. task'[Reconciler][c] = [t EXCEPT !.pc = "remove"]
    BY <1>1, <1>8, OtherTasks DEF Finalize
  <2>2. task'[Reconciler][c].pc = "remove"
    BY <1>1, <2>1 DEF Task
  <2>3. UNCHANGED obj /\ c \notin metrics'
    BY <1>8 DEF Finalize, store
  <2>4. QED
    BY Zenon, <2>2, <2>3 DEF SeriesInv
<1>9. CASE RemoveFinalizer(c)
  <2>1. task'[Reconciler][c] = Idle
    BY <1>1, <1>9, OtherTasks DEF RemoveFinalizer, ReturnError
  <2>2. metrics' = metrics /\ c \notin metrics
    BY <1>9 DEF RemoveFinalizer, At, SeriesInv
  <2>3. obj'[c].finalizer => obj'[c].present
    BY <1>1, <1>9 DEF RemoveFinalizer, SeriesInv, Object
  <2>4. QED
    BY Zenon, <1>2, <2>1, <2>2, <2>3
<1>10. CASE StopDeleting(c)
  <2>1. task'[Reconciler][c] = Idle
    BY Zenon, <1>1, <1>10, OtherTasks DEF StopDeleting
  <2>2. UNCHANGED <<obj, metrics>>
    BY <1>10 DEF StopDeleting, store
  <2>3. QED
    BY Zenon, <1>2, <2>1, <2>2 DEF SeriesInv, MetricsBacked
<1>11. CASE AddFinalizer(c)
  <2>1. UNCHANGED metrics
    BY <1>11 DEF AddFinalizer
  <2>2. CASE obj' = [obj EXCEPT ![c].finalizer = TRUE] /\ ~stale[c]
    <3>1. obj[c].present
      BY <1>11, <2>2 DEF AddFinalizer, At, SeriesInv
    <3>2. obj'[c].present /\ obj'[c].finalizer
      BY <1>1, <2>2, <3>1 DEF Object
    <3>3. task'[Reconciler][c].pc # "remove"
      <4>1. \/ SetTask(Reconciler, c, [t EXCEPT !.copy.finalizer = TRUE])
            \/ SetTask(Reconciler, c, Idle)
        BY <1>11 DEF AddFinalizer, ReturnError
      <4>2. \/ task'[Reconciler][c] = [t EXCEPT !.copy.finalizer = TRUE]
            \/ task'[Reconciler][c] = Idle
        BY <1>1, <4>1, OtherTasks
      <4>3. t.pc = "got"
        BY <1>11 DEF AddFinalizer, At
      <4>4. QED
        BY <1>1, <1>2, <4>2, <4>3 DEF Task
    <3>4. QED
      BY Zenon, <3>2, <3>3
  <2>3. CASE UNCHANGED obj /\ ReturnError(c)
    <3>1. task'[Reconciler][c] = Idle
      BY Zenon, <1>1, <2>3, OtherTasks DEF ReturnError
    <3>2. QED
      BY Zenon, <1>2, <2>1, <2>3, <3>1 DEF SeriesInv, MetricsBacked
  <2>4. QED
    BY <1>11, <2>2, <2>3 DEF AddFinalizer
<1>12. CASE Proceed(c)
  <2>1. UNCHANGED <<obj, metrics>> /\ obj[c].finalizer
    BY <1>12 DEF Proceed, store, At, SeriesInv
  <2>2. \/ task'[Reconciler][c] = [t EXCEPT !.pc = "begin"]
        \/ task'[Reconciler][c] = Idle
    BY <1>1, <1>12, OtherTasks DEF Proceed
  <2>3. task'[Reconciler][c].pc \in {"begin", "idle"}
    BY <1>1, <1>2, <2>2 DEF Task
  <2>4. QED
    BY Zenon, <2>1, <2>3 DEF SeriesInv, MetricsBacked
<1>13. QED
  BY Zenon, <1>7, <1>8, <1>9, <1>10, <1>11, <1>12

\* A run that Reconcile started, and its end: the object has the finalizer.
LEMMA SeriesRun ==
    ASSUME TypeOK, SeriesInv, NEW c \in CRs,
           RunStep(Reconciler, c) \/ FinishReconcile(c)
    PROVE  SeriesInv'
<1> DEFINE t == task[Reconciler][c]
<1>1. Reconciler \in Sources /\ t \in Task
  BY SourceTypes DEF TypeOK
<1>2. UNCHANGED obj
  BY Zenon DEF RunStep, FinishReconcile, setReconcilingStatus, FilterApplications,
     UpdateApplications, store
<1>3. t.pc \in {"begin", "run", "apps", "finish"} /\ obj[c].finalizer /\ obj[c].present
  BY Zenon DEF RunStep, FinishReconcile, setReconcilingStatus, FilterApplications,
     UpdateApplications, At, SeriesInv
<1>4. metrics' = metrics \/ metrics' = metrics \cup {c}
  BY Zenon, SourceTypes DEF RunStep, FinishReconcile, setReconcilingStatus,
     FilterApplications, UpdateApplications, Series
<1>5. PICK u : SetTask(Reconciler, c, u) /\ u.pc \in {"idle", "run", "apps", "finish"}
  <2>1. CASE setReconcilingStatus(Reconciler, c)
    <3>1. /\ [t EXCEPT !.pc = "run", !.copy = CopyOf(obj[c])].pc = "run"
          /\ [t EXCEPT !.pc = "run"].pc = "run"
      BY <1>1 DEF Task
    <3>2. QED
      BY Zenon, <2>1, <3>1 DEF setReconcilingStatus
  <2>2. CASE FilterApplications(Reconciler, c)
    <3>1. /\ [t EXCEPT !.pc = "finish", !.result = "failed"].pc = "finish"
          /\ [t EXCEPT !.pc = "apps"].pc = "apps"
      BY <1>1 DEF Task
    <3>2. QED
      BY Zenon, <2>2, <3>1 DEF FilterApplications
  <2>3. CASE UpdateApplications(Reconciler, c)
    <3>1. \A r \in Results : [t EXCEPT !.pc = "finish", !.result = r].pc = "finish"
      BY <1>1 DEF Task
    <3>2. QED
      BY Zenon, <2>3, <3>1 DEF UpdateApplications
  <2>4. CASE FinishReconcile(c)
    BY <2>4 DEF FinishReconcile, Idle
  <2>5. QED
    BY <2>1, <2>2, <2>3, <2>4 DEF RunStep
<1>6. /\ \A d \in CRs : d # c => task'[Reconciler][d] = task[Reconciler][d]
      /\ task'[Reconciler][c].pc \in {"idle", "run", "apps", "finish"}
  <2>1. /\ \A d \in CRs : d # c => task'[Reconciler][d] = task[Reconciler][d]
        /\ task'[Reconciler][c] = u
    BY <1>1, <1>5, OtherTasks
  <2>2. QED
    BY Zenon, <1>5, <2>1
<1>7. \A d \in CRs : d # c => stale'[d] = stale[d]
  BY Zenon DEF RunStep, FinishReconcile, setReconcilingStatus, FilterApplications,
     UpdateApplications, updateStatus, Outdate, TypeOK
<1>8. QED
  BY Zenon, <1>2, <1>3, <1>4, <1>6, <1>7 DEF SeriesInv, MetricsBacked

\* Users cannot take an object away that has the finalizer, and what they do
\* outdates the copy Reconcile holds.
LEMMA SeriesUsers ==
    ASSUME TypeOK, SeriesInv, NEW c \in CRs,
           Create(c) \/ Edit(c) \/ Delete(c) \/ Release(c)
    PROVE  SeriesInv'
<1>1. /\ obj \in [CRs -> Object] /\ obj[c] \in Object
      /\ stale \in [CRs -> BOOLEAN]
  BY DEF TypeOK
<1>2. UNCHANGED <<task, metrics>>
  BY DEF Create, Edit, Delete, Release
<1>3. \A d \in CRs : d # c => obj'[d] = obj[d] /\ stale'[d] = stale[d]
  BY <1>1 DEF Create, Edit, Delete, Release, Outdate
<1>4. task[Reconciler][c].pc = "got" => stale'[c]
  BY Zenon, <1>1 DEF Create, Edit, Delete, Release, Outdate
<1>5. /\ obj'[c].finalizer => obj'[c].present
      /\ obj[c].finalizer => obj'[c].finalizer
  <2>1. CASE Create(c)
    <3>1. obj[c].finalizer = FALSE
      BY Zenon, <1>1, <2>1 DEF Create, SeriesInv, Object
    <3>2. obj'[c].present
      <4>1. PICK held \in BOOLEAN :
               obj' = [obj EXCEPT ![c] = [present |-> TRUE, gen |-> @.gen + 1,
                          deleting |-> FALSE, finalizer |-> FALSE, foreign |-> held]]
        BY Zenon, <2>1 DEF Create
      <4>2. QED
        BY <1>1, <4>1
    <3>3. QED
      BY <3>1, <3>2
  <2>2. CASE Edit(c)
    BY <1>1, <2>2 DEF Edit, SeriesInv, Object
  <2>3. CASE Delete(c)
    BY <1>1, <2>3 DEF Delete, Held, Object
  <2>4. CASE Release(c)
    BY <1>1, <2>4 DEF Release, Object
  <2>5. QED
    BY Zenon, <2>1, <2>2, <2>3, <2>4
<1>6. \A d \in CRs : /\ obj'[d].finalizer => obj'[d].present
                     /\ obj[d].finalizer => obj'[d].finalizer
                     /\ task[Reconciler][d].pc = "got" /\ ~stale'[d] => obj'[d].present
  BY Zenon, <1>3, <1>4, <1>5 DEF SeriesInv
<1>7. MetricsBacked'
  BY Zenon, <1>2, <1>6 DEF SeriesInv, MetricsBacked, TypeOK
<1>8. QED
  BY Zenon, <1>2, <1>6, <1>7 DEF SeriesInv

\* Steps that leave objects, series and the tasks of Reconcile alone.
LEMMA SeriesFrame ==
    ASSUME SeriesInv, UNCHANGED <<obj, metrics>>,
           task'[Reconciler] = task[Reconciler],
           \A c \in CRs : task[Reconciler][c].pc = "got" /\ stale[c] => stale'[c]
    PROVE  SeriesInv'
BY Zenon DEF SeriesInv, MetricsBacked

\* The warm-up writes no series and touches no task of Reconcile.
LEMMA SeriesWarmUp ==
    ASSUME TypeOK, SeriesInv, NEW c \in CRs,
           Acquire(Warmer, c) \/ FinishWarmUp(c) \/ RunStep(Warmer, c)
    PROVE  SeriesInv'
<1>1. UNCHANGED <<obj, metrics>>
  BY Zenon DEF Acquire, FinishWarmUp, RunStep, setReconcilingStatus, FilterApplications,
     UpdateApplications, Series, store
<1>2. PICK u : SetTask(Warmer, c, u)
  BY Zenon DEF Acquire, FinishWarmUp, RunStep, setReconcilingStatus, FilterApplications,
     UpdateApplications
<1>3. task'[Reconciler] = task[Reconciler]
  BY <1>2, SourceTypes, OtherTasks
<1>4. Outdate(c) \/ UNCHANGED stale
  BY Zenon DEF Acquire, FinishWarmUp, RunStep, setReconcilingStatus, FilterApplications,
     UpdateApplications
<1>5. \A d \in CRs : task[Reconciler][d].pc = "got" /\ stale[d] => stale'[d]
  <2>1. stale \in [CRs -> BOOLEAN]
    BY DEF TypeOK
  <2>2. CASE Outdate(c)
    BY Zenon, <2>1, <2>2 DEF Outdate
  <2>3. QED
    BY Zenon, <1>4, <2>2
<1>6. QED
  BY Zenon, <1>1, <1>3, <1>5, SeriesFrame

\* Without webhooks every step keeps the invariant.
LEMMA SeriesStep ==
    ASSUME Events = {}, TypeOK, SeriesInv, [Next]_vars
    PROVE  SeriesInv'
<1>1. Sources = {Warmer, Reconciler} /\ Listers = {Warmer}
  BY DEF Sources, Listers
<1>2. ASSUME NEW c \in CRs, WaitForWarmUp(c) \/ Get(c) \/ ReconcileStep(c) \/ Tick(c)
      PROVE  SeriesInv'
  <2>1. CASE WaitForWarmUp(c) \/ Tick(c)
    BY Zenon, <2>1, SeriesFrame DEF WaitForWarmUp, Tick, store
  <2>2. QED
    BY <1>2, <2>1, SeriesReconcile, SeriesRun DEF ReconcileStep
<1>3. ASSUME NEW s \in Sources, NEW c \in CRs, RunStep(s, c) PROVE SeriesInv'
  BY <1>1, <1>3, SeriesRun, SeriesWarmUp
<1>4. ASSUME NEW s \in Listers, NEW c \in CRs, Acquire(s, c) PROVE SeriesInv'
  BY <1>1, <1>4, SeriesWarmUp
<1>5. CASE ListForWarmUp
  <2>1. task'[Reconciler] = task[Reconciler]
    BY Zenon, <1>5, SourceTypes DEF ListForWarmUp, Listed, TypeOK
  <2>2. QED
    BY <1>5, <2>1, SeriesFrame DEF ListForWarmUp, store
<1>6. CASE \/ ManagerFails \/ StopManager \/ UNCHANGED vars
           \/ \E s \in Listers : Wait(s)
  BY Zenon, <1>6, SeriesFrame DEF ManagerFails, StopManager, Wait, vars, store
<1>7. QED
  BY <1>2, <1>3, <1>4, <1>5, <1>6, SeriesUsers, SeriesWarmUp, SeriesRestart DEF Next

\* Without webhooks no series outlives the finalizer of its object, whatever
\* users do, whichever calls fail and whenever the process is restarted: the
\* finalizer can always still remove it.
THEOREM SeriesBacked == ASSUME Events = {} PROVE Spec => []MetricsBacked
<1>1. TypeOK /\ SeriesInv /\ [Next]_vars => SeriesInv'
  BY SeriesStep
<1>2. SeriesInv => MetricsBacked
  BY Zenon DEF SeriesInv
<1>3. QED
  BY <1>1, <1>2, SeriesInit, ControllerTypes, PTL DEF Spec
=============================================================================
