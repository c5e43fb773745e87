----------------------- MODULE ControllerRunProofs -----------------------
(***************************************************************************)
(* Proofs about the runs of the controller: run-once mode implements       *)
(* RunOnce, the limit on concurrent runs, and the Reconciling condition.   *)
(***************************************************************************)
EXTENDS ControllerProofs

USE ControllerAssumption

-----------------------------------------------------------------------------
(***************************************************************************)
(* What Reconcile does to its own tasks.                                   *)
(***************************************************************************)

\* The places of a run that Reconcile has started.
InRun == {"begin", "run", "apps", "finish"}

\* A step of a run moves its task to the next place.
LEMMA RunMoves ==
    ASSUME TypeOK, NEW s \in Sources, NEW c \in CRs, RunStep(s, c)
    PROVE  /\ \A u \in Sources : u # s => task'[u] = task[u]
           /\ \A d \in CRs : d # c => task'[s][d] = task[s][d]
           /\ task[s][c].pc \in {"begin", "run", "apps"}
           /\ task'[s][c].pc \in {"run", "apps", "finish"}
<1> DEFINE t == task[s][c]
<1>1. t \in Task
  BY DEF TypeOK
<1>2. t.pc \in {"begin", "run", "apps"}
  BY Zenon DEF RunStep, setReconcilingStatus, FilterApplications, UpdateApplications, At
<1>3. PICK u : SetTask(s, c, u) /\ u.pc \in {"run", "apps", "finish"}
  <2>1. CASE setReconcilingStatus(s, c)
    <3>1. /\ [t EXCEPT !.pc = "run", !.copy = CopyOf(obj[c])].pc = "run"
          /\ [t EXCEPT !.pc = "run"].pc = "run"
      BY <1>1 DEF Task
    <3>2. QED
      BY Zenon, <2>1, <3>1 DEF setReconcilingStatus
  <2>2. CASE FilterApplications(s, c)
    <3>1. /\ [t EXCEPT !.pc = "finish", !.result = "failed"].pc = "finish"
          /\ [t EXCEPT !.pc = "apps"].pc = "apps"
      BY <1>1 DEF Task
    <3>2. QED
      BY Zenon, <2>2, <3>1 DEF FilterApplications
  <2>3. CASE UpdateApplications(s, c)
    <3>1. \A r \in Results : [t EXCEPT !.pc = "finish", !.result = r].pc = "finish"
      BY <1>1 DEF Task
    <3>2. QED
      BY Zenon, <2>3, <3>1 DEF UpdateApplications
  <2>4. QED
    BY <2>1, <2>2, <2>3 DEF RunStep
<1>4. QED
  BY <1>2, <1>3, OtherTasks

\* A step of Reconcile before or after the run changes the task of one object.
\* It enters at Get, starts a run in Proceed only, and AddFinalizer stays.
LEMMA ReconcileMoves ==
    ASSUME TypeOK, NEW c \in CRs, Get(c) \/ ReconcileStep(c)
    PROVE  /\ \A u \in Sources : u # Reconciler => task'[u] = task[u]
           /\ \A d \in CRs : d # c => task'[Reconciler][d] = task[Reconciler][d]
           /\ Get(c) => /\ task[Reconciler][c].pc = "idle"
                        /\ \/ UNCHANGED <<task, stale>>
                           \/ task'[Reconciler][c].pc = "got" /\ obj[c].present
                           \/ task'[Reconciler][c].pc = "idle"
           /\ Finalize(c) => /\ task[Reconciler][c].pc = "got"
                             /\ task'[Reconciler][c].pc = "remove"
           /\ RemoveFinalizer(c) => /\ task[Reconciler][c].pc = "remove"
                                    /\ task'[Reconciler][c].pc = "idle"
           /\ StopDeleting(c) => /\ task[Reconciler][c].pc = "got"
                                 /\ task'[Reconciler][c].pc = "idle"
           /\ AddFinalizer(c) => /\ task[Reconciler][c].pc = "got"
                                 /\ task'[Reconciler][c].pc \in {"got", "idle"}
           /\ Proceed(c) => /\ task[Reconciler][c].pc = "got"
                            /\ \/ task'[Reconciler][c].pc = "idle" /\ UNCHANGED completed
                               \/ /\ task'[Reconciler][c].pc = "begin"
                                  /\ ~AlreadyDone(c)
                                  /\ completed' = IF Once THEN completed \cup {c}
                                                  ELSE completed
           /\ FinishReconcile(c) => /\ task[Reconciler][c].pc = "finish"
                                    /\ task'[Reconciler][c].pc = "idle"
<1> DEFINE t == task[Reconciler][c]
<1>1. Reconciler \in Sources /\ t \in Task /\ task \in [Sources -> [CRs -> Task]]
  BY SourceTypes DEF TypeOK
<1>2. Idle.pc = "idle"
  BY DEF Idle
<1>3. (task' = task) \/ \E u : SetTask(Reconciler, c, u)
  BY Zenon DEF Get, ReconcileStep, Finalize, RemoveFinalizer, ReturnError, StopDeleting,
     AddFinalizer, Proceed, FinishReconcile
<1>4. /\ \A u \in Sources : u # Reconciler => task'[u] = task[u]
      /\ \A d \in CRs : d # c => task'[Reconciler][d] = task[Reconciler][d]
  BY <1>1, <1>3, OtherTasks
<1>5. Get(c) => /\ t.pc = "idle"
                /\ \/ UNCHANGED <<task, stale>>
                   \/ task'[Reconciler][c].pc = "got" /\ obj[c].present
                   \/ task'[Reconciler][c].pc = "idle"
  <2> SUFFICES ASSUME Get(c)
               PROVE  \/ UNCHANGED <<task, stale>>
                      \/ task'[Reconciler][c].pc = "got" /\ obj[c].present
                      \/ task'[Reconciler][c].pc = "idle"
    BY Zenon DEF Get, At
  <2>1. [Idle EXCEPT !.pc = "got", !.copy = CopyOf(obj[c])].pc = "got"
    BY DEF Idle
  <2>2. CASE UNCHANGED <<task, stale>>
    BY Zenon, <2>2
  <2>3. CASE obj[c].present
             /\ SetTask(Reconciler, c, [Idle EXCEPT !.pc = "got", !.copy = CopyOf(obj[c])])
    <3>1. task'[Reconciler][c] = [Idle EXCEPT !.pc = "got", !.copy = CopyOf(obj[c])]
      BY Zenon, <1>1, <2>3, OtherTasks
    <3>2. QED
      BY Zenon, <2>1, <2>3, <3>1
  <2>4. CASE SetTask(Reconciler, c, Idle)
    <3>1. task'[Reconciler][c] = Idle
      BY <1>1, <2>4, OtherTasks
    <3>2. QED
      BY Zenon, <1>2, <3>1
  <2>5. QED
    BY Zenon, <2>2, <2>3, <2>4 DEF Get
<1>6. Finalize(c) => t.pc = "got" /\ task'[Reconciler][c].pc = "remove"
  <2>1. [t EXCEPT !.pc = "remove"].pc = "remove"
    BY <1>1 DEF Task
  <2>2. Finalize(c) => task'[Reconciler][c] = [t EXCEPT !.pc = "remove"]
    BY <1>1, OtherTasks DEF Finalize
  <2>3. QED
    BY Zenon, <2>1, <2>2 DEF Finalize, At
<1>7. RemoveFinalizer(c) => t.pc = "remove" /\ task'[Reconciler][c].pc = "idle"
  BY <1>1, <1>2, OtherTasks DEF RemoveFinalizer, ReturnError, At
<1>8. StopDeleting(c) => t.pc = "got" /\ task'[Reconciler][c].pc = "idle"
  BY <1>1, <1>2, OtherTasks DEF StopDeleting, At
<1>9. AddFinalizer(c) => t.pc = "got" /\ task'[Reconciler][c].pc \in {"got", "idle"}
  <2>1. t.pc = "got" => [t EXCEPT !.copy.finalizer = TRUE].pc = "got"
    BY <1>1 DEF Task
  <2>2. AddFinalizer(c) => \/ task'[Reconciler][c] = [t EXCEPT !.copy.finalizer = TRUE]
                           \/ task'[Reconciler][c] = Idle
    BY <1>1, OtherTasks DEF AddFinalizer, ReturnError
  <2>3. QED
    BY Zenon, <1>2, <2>1, <2>2 DEF AddFinalizer, At
<1>10. Proceed(c) => /\ t.pc = "got"
                     /\ \/ task'[Reconciler][c].pc = "idle" /\ UNCHANGED completed
                        \/ /\ task'[Reconciler][c].pc = "begin"
                           /\ ~AlreadyDone(c)
                           /\ completed' = IF Once THEN completed \cup {c} ELSE completed
  <2>1. [t EXCEPT !.pc = "begin"].pc = "begin"
    BY <1>1 DEF Task
  <2> SUFFICES ASSUME Proceed(c)
               PROVE  \/ task'[Reconciler][c].pc = "idle" /\ UNCHANGED completed
                      \/ /\ task'[Reconciler][c].pc = "begin"
                         /\ ~AlreadyDone(c)
                         /\ completed' = IF Once THEN completed \cup {c} ELSE completed
    BY Zenon DEF Proceed, At
  <2>2. CASE Interval = "negative" \/ AlreadyDone(c)
    <3>1. SetTask(Reconciler, c, Idle) /\ UNCHANGED completed
      BY Zenon, <2>2 DEF Proceed
    <3>2. task'[Reconciler][c] = Idle
      BY <1>1, <3>1, OtherTasks
    <3>3. QED
      BY Zenon, <1>2, <3>1, <3>2
  <2>3. CASE ~(Interval = "negative" \/ AlreadyDone(c))
    <3>1. /\ SetTask(Reconciler, c, [t EXCEPT !.pc = "begin"])
          /\ completed' = IF Once THEN completed \cup {c} ELSE completed
      BY Zenon, <2>3 DEF Proceed
    <3>2. task'[Reconciler][c] = [t EXCEPT !.pc = "begin"]
      BY <1>1, <3>1, OtherTasks
    <3>3. QED
      BY Zenon, <2>1, <2>3, <3>1, <3>2
  <2>4. QED
    BY Zenon, <2>2, <2>3
<1>11. FinishReconcile(c) => t.pc = "finish" /\ task'[Reconciler][c].pc = "idle"
  BY <1>1, <1>2, OtherTasks DEF FinishReconcile, At
<1>12. QED
  BY Zenon, <1>4, <1>5, <1>6, <1>7, <1>8, <1>9, <1>10, <1>11

\* The steps of the warm-up, of the webhooks, of users and of the queue leave
\* the tasks of Reconcile alone.
LEMMA OthersLeaveReconcile ==
    ASSUME TypeOK,
           \/ ListForWarmUp \/ ManagerFails \/ StopManager \/ UNCHANGED vars
           \/ \E c \in CRs : WaitForWarmUp(c) \/ Tick(c) \/ Create(c) \/ Edit(c)
                             \/ Delete(c) \/ Release(c) \/ FinishWarmUp(c)
           \/ \E e \in Events : ListForWebhook(e)
           \/ \E e \in Events, c \in CRs : FinishWebhook(e, c)
           \/ \E s \in Listers, c \in CRs : Acquire(s, c) \/ RunStep(s, c)
           \/ \E s \in Listers : Wait(s)
    PROVE  task'[Reconciler] = task[Reconciler]
<1>1. \A s \in Listers : s \in Sources /\ s # Reconciler
  BY SourceTypes
<1>2. CASE UNCHANGED task
  BY Zenon, <1>2
<1>3. ASSUME NEW s \in Listers, Listed(s) PROVE task'[Reconciler] = task[Reconciler]
  BY Zenon, <1>1, <1>3, SourceTypes DEF Listed, TypeOK
<1>4. ASSUME NEW s \in Listers, NEW c \in CRs, \E t : SetTask(s, c, t)
      PROVE  task'[Reconciler] = task[Reconciler]
  BY <1>1, <1>4, SourceTypes, OtherTasks
<1>5. ASSUME NEW s \in Listers, NEW c \in CRs, Acquire(s, c) \/ RunStep(s, c)
      PROVE  \E t : SetTask(s, c, t)
  BY Zenon, <1>5 DEF Acquire, RunStep, setReconcilingStatus, FilterApplications,
     UpdateApplications
<1>6. ASSUME NEW c \in CRs, FinishWarmUp(c) PROVE \E t : SetTask(Warmer, c, t)
  BY Zenon, <1>6 DEF FinishWarmUp
<1>7. ASSUME NEW e \in Events, NEW c \in CRs, FinishWebhook(e, c)
      PROVE  e \in Listers /\ \E t : SetTask(e, c, t)
  BY Zenon, <1>7, SourceTypes DEF FinishWebhook
<1>8. CASE ListForWarmUp
  BY Zenon, <1>2, <1>3, <1>8, SourceTypes DEF ListForWarmUp
<1>9. ASSUME NEW e \in Events, ListForWebhook(e) PROVE task'[Reconciler] = task[Reconciler]
  BY Zenon, <1>2, <1>3, <1>9, SourceTypes DEF ListForWebhook
<1>10. CASE \/ ManagerFails \/ StopManager \/ UNCHANGED vars
            \/ \E c \in CRs : WaitForWarmUp(c) \/ Tick(c) \/ Create(c) \/ Edit(c)
                              \/ Delete(c) \/ Release(c)
            \/ \E s \in Listers : Wait(s)
  BY Zenon, <1>2, <1>10 DEF ManagerFails, StopManager, vars, WaitForWarmUp, Tick, Create,
     Edit, Delete, Release, Wait
<1>11. QED
  BY Zenon, <1>4, <1>5, <1>6, <1>7, <1>8, <1>9, <1>10, SourceTypes

-----------------------------------------------------------------------------
(***************************************************************************)
(* Objects.  A finalizer is only ever on an object that exists, and a copy *)
(* that is not stale is of an object that exists: an Update never brings   *)
(* an object back.  So without Create the objects only become fewer.       *)
(***************************************************************************)
ObjectInv ==
    \A c \in CRs :
        /\ obj[c].finalizer \/ obj[c].foreign => obj[c].present
        /\ task[Reconciler][c].pc = "got" /\ ~stale[c] => obj[c].present

\* It holds at the start.
LEMMA ObjectInit == Init => ObjectInv
<1> SUFFICES ASSUME Init PROVE ObjectInv
  OBVIOUS
<1>1. \A d \in CRs : task[Reconciler][d].pc = "idle"
  BY Zenon, SourceTypes DEF Init, Fresh, Idle
<1>2. \A d \in CRs : obj[d].finalizer \/ obj[d].foreign => obj[d].present
  BY DEF Init, InitialObjects, Object
<1>3. QED
  BY Zenon, <1>1, <1>2 DEF ObjectInv

\* A step that leaves the objects alone, and reads only an object that exists.
LEMMA ObjectFrame ==
    ASSUME ObjectInv, UNCHANGED obj,
           \A d \in CRs : task'[Reconciler][d].pc = "got" /\ ~stale'[d] =>
               obj[d].present \/ (task[Reconciler][d].pc = "got" /\ ~stale[d])
    PROVE  ObjectInv' /\ Present' \subseteq Present
BY Zenon DEF ObjectInv, Present

\* A write that changes one object.
LEMMA ObjectWritten ==
    ASSUME TypeOK, ObjectInv, NEW c \in CRs,
           \A d \in CRs : d # c => /\ obj'[d] = obj[d] /\ stale'[d] = stale[d]
                                   /\ task'[Reconciler][d] = task[Reconciler][d],
           obj'[c].finalizer \/ obj'[c].foreign => obj'[c].present,
           task'[Reconciler][c].pc = "got" /\ ~stale'[c] => obj'[c].present
    PROVE  /\ ObjectInv'
           /\ (obj'[c].present => obj[c].present) => Present' \subseteq Present
<1>1. ObjectInv'
  BY Zenon DEF ObjectInv
<1>2. ASSUME obj'[c].present => obj[c].present PROVE Present' \subseteq Present
  BY Zenon, <1>2 DEF Present
<1>3. QED
  BY Zenon, <1>1, <1>2

\* Reconcile before and after its run.
LEMMA ObjectReconcile ==
    ASSUME TypeOK, ObjectInv, NEW c \in CRs, Get(c) \/ ReconcileStep(c)
    PROVE  ObjectInv' /\ Present' \subseteq Present
<1>1. /\ obj \in [CRs -> Object] /\ obj[c] \in Object
      /\ stale \in [CRs -> BOOLEAN]
  BY DEF TypeOK
<1>2. \A d \in CRs : d # c => task'[Reconciler][d] = task[Reconciler][d]
  BY Zenon, ReconcileMoves
<1>3. \A d \in CRs : d # c => obj'[d] = obj[d] /\ stale'[d] = stale[d]
  BY Zenon, <1>1 DEF Get, ReconcileStep, Finalize, RemoveFinalizer, ReturnError,
     StopDeleting, AddFinalizer, Proceed, FinishReconcile, updateStatus, Outdate, store
<1>4. CASE Get(c)
  <2>1. UNCHANGED obj
    BY <1>4 DEF Get, store
  <2>2. task'[Reconciler][c].pc = "got" /\ ~stale'[c] => obj[c].present
    BY Zenon, <1>4, ReconcileMoves
  <2>3. QED
    BY Zenon, <1>2, <1>3, <2>1, <2>2, ObjectFrame
<1>5. CASE Finalize(c) \/ StopDeleting(c) \/ Proceed(c) \/ FinishReconcile(c)
  <2>1. UNCHANGED obj
    BY Zenon, <1>5 DEF Finalize, StopDeleting, Proceed, FinishReconcile, store
  <2>2. task'[Reconciler][c].pc \in {"remove", "idle", "begin"}
    BY Zenon, <1>5, ReconcileMoves
  <2>3. task'[Reconciler][c].pc # "got"
    BY <2>2
  <2>4. QED
    BY Zenon, <1>2, <1>3, <2>1, <2>3, ObjectFrame
<1>6. CASE RemoveFinalizer(c)
  <2>1. task'[Reconciler][c].pc # "got"
    BY <1>6, ReconcileMoves
  <2>2. /\ obj'[c].finalizer \/ obj'[c].foreign => obj'[c].present
        /\ obj'[c].present => obj[c].present
    <3>1. CASE UNCHANGED obj
      BY Zenon, <3>1 DEF ObjectInv
    <3>2. CASE obj' = [obj EXCEPT ![c].finalizer = FALSE, ![c].present = obj[c].foreign,
                                  ![c].deleting = obj[c].foreign]
      <4>1. /\ obj'[c].finalizer = FALSE /\ obj'[c].foreign = obj[c].foreign
            /\ obj'[c].present = obj[c].foreign
        BY <1>1, <3>2 DEF Object
      <4>2. QED
        BY Zenon, <4>1 DEF ObjectInv
    <3>3. QED
      BY Zenon, <1>6, <3>1, <3>2 DEF RemoveFinalizer
  <2>3. QED
    BY Zenon, <1>2, <1>3, <2>1, <2>2, ObjectWritten
<1>7. CASE AddFinalizer(c)
  <2>1. CASE obj' = [obj EXCEPT ![c].finalizer = TRUE] /\ ~stale[c]
    <3>1. obj[c].present
      BY Zenon, <1>7, <2>1 DEF AddFinalizer, At, ObjectInv
    <3>2. obj'[c].present
      BY <1>1, <2>1, <3>1 DEF Object
    <3>3. QED
      BY Zenon, <1>2, <1>3, <3>1, <3>2, ObjectWritten
  <2>2. CASE UNCHANGED obj /\ ReturnError(c)
    <3>1. task'[Reconciler][c] = Idle
      BY <2>2, SourceTypes, OtherTasks DEF ReturnError
    <3>2. task'[Reconciler][c].pc # "got"
      BY <3>1 DEF Idle
    <3>3. QED
      BY Zenon, <1>2, <1>3, <2>2, <3>2, ObjectFrame
  <2>3. QED
    BY Zenon, <1>7, <2>1, <2>2 DEF AddFinalizer
<1>8. QED
  BY Zenon, <1>4, <1>5, <1>6, <1>7 DEF ReconcileStep

\* Users.
LEMMA ObjectUsers ==
    ASSUME TypeOK, ObjectInv, NEW c \in CRs,
           Create(c) \/ Edit(c) \/ Delete(c) \/ Release(c)
    PROVE  ObjectInv' /\ (Create(c) \/ Present' \subseteq Present)
<1>1. /\ obj \in [CRs -> Object] /\ obj[c] \in Object
      /\ stale \in [CRs -> BOOLEAN]
  BY DEF TypeOK
<1>2. \A d \in CRs : d # c => /\ obj'[d] = obj[d] /\ stale'[d] = stale[d]
                              /\ task'[Reconciler][d] = task[Reconciler][d]
  BY Zenon, <1>1 DEF Create, Edit, Delete, Release, Outdate
<1>3. task'[Reconciler][c].pc = "got" => stale'[c]
  <2>1. UNCHANGED task /\ Outdate(c)
    BY Zenon DEF Create, Edit, Delete, Release
  <2>2. QED
    BY Zenon, <1>1, <2>1 DEF Outdate
<1>4. /\ obj'[c].finalizer \/ obj'[c].foreign => obj'[c].present
      /\ Create(c) \/ (obj'[c].present => obj[c].present)
  <2>1. CASE Create(c)
    <3>1. PICK held \in BOOLEAN :
             obj' = [obj EXCEPT ![c] = [present |-> TRUE, gen |-> @.gen + 1,
                        deleting |-> FALSE, finalizer |-> FALSE, foreign |-> held]]
      BY Zenon, <2>1 DEF Create
    <3>2. obj'[c].present
      BY <1>1, <3>1
    <3>3. QED
      BY Zenon, <2>1, <3>2
  <2>2. CASE Edit(c)
    <3>1. /\ obj'[c].finalizer = obj[c].finalizer /\ obj'[c].foreign = obj[c].foreign
          /\ obj'[c].present = obj[c].present
      BY Zenon, <1>1, <2>2 DEF Edit, Object
    <3>2. QED
      BY Zenon, <3>1 DEF ObjectInv
  <2>3. CASE Delete(c)
    <3>1. /\ obj'[c].finalizer = obj[c].finalizer /\ obj'[c].foreign = obj[c].foreign
          /\ obj'[c].present = Held(c)
      BY <1>1, <2>3 DEF Delete, Object
    <3>2. QED
      BY Zenon, <2>3, <3>1 DEF Delete, Held
  <2>4. CASE Release(c)
    <3>1. /\ obj'[c].finalizer = obj[c].finalizer /\ obj'[c].foreign = FALSE
          /\ obj'[c].present = obj[c].finalizer
      BY <1>1, <2>4 DEF Release, Object
    <3>2. QED
      BY Zenon, <3>1 DEF ObjectInv
  <2>5. QED
    BY Zenon, <2>1, <2>2, <2>3, <2>4
<1>5. QED
  BY Zenon, <1>2, <1>3, <1>4, ObjectWritten

\* The runs, the warm-up, the webhooks and the queue.
LEMMA ObjectOthers ==
    ASSUME TypeOK, ObjectInv,
           \/ ListForWarmUp \/ ManagerFails \/ StopManager \/ UNCHANGED vars \/ Restart
           \/ \E c \in CRs : WaitForWarmUp(c) \/ Tick(c) \/ FinishWarmUp(c)
           \/ \E e \in Events : ListForWebhook(e)
           \/ \E e \in Events, c \in CRs : FinishWebhook(e, c)
           \/ \E s \in Listers, c \in CRs : Acquire(s, c)
           \/ \E s \in Sources, c \in CRs : RunStep(s, c)
           \/ \E s \in Listers : Wait(s)
    PROVE  ObjectInv' /\ Present' \subseteq Present
<1>1. UNCHANGED obj
  BY Zenon DEF ListForWarmUp, ManagerFails, StopManager, vars, Restart, WaitForWarmUp, Tick,
     FinishWarmUp, ListForWebhook, FinishWebhook, Acquire, RunStep, setReconcilingStatus,
     FilterApplications, UpdateApplications, Wait, store
<1>2. CASE Restart
  <2>1. \A d \in CRs : task'[Reconciler][d].pc # "got"
    BY Zenon, <1>2, SourceTypes DEF Restart, Fresh, Idle
  <2>2. QED
    BY Zenon, <1>1, <2>1, ObjectFrame
<1>3. \/ UNCHANGED stale
      \/ \E c \in CRs : Outdate(c)
      \/ Restart
  <2>1. ASSUME NEW s \in Sources, NEW c \in CRs, RunStep(s, c)
        PROVE  UNCHANGED stale \/ Outdate(c)
    BY Zenon, <2>1 DEF RunStep, setReconcilingStatus, FilterApplications, UpdateApplications
  <2>2. ASSUME NEW c \in CRs, WaitForWarmUp(c) \/ Tick(c) \/ FinishWarmUp(c)
        PROVE  UNCHANGED stale \/ Outdate(c)
    BY Zenon, <2>2 DEF WaitForWarmUp, Tick, FinishWarmUp, updateStatus
  <2>3. QED
    BY Zenon, <2>1, <2>2 DEF ListForWarmUp, ManagerFails, StopManager, vars, ListForWebhook,
       FinishWebhook, Acquire, Wait, updateStatus
<1>4. \A d \in CRs : task[Reconciler][d].pc = "got" /\ stale[d] => stale'[d] \/ Restart
  <2>1. stale \in [CRs -> BOOLEAN]
    BY DEF TypeOK
  <2>2. ASSUME NEW c \in CRs, Outdate(c), NEW d \in CRs,
               task[Reconciler][d].pc = "got", stale[d]
        PROVE  stale'[d]
    BY <2>1, <2>2 DEF Outdate
  <2>3. QED
    BY Zenon, <1>3, <2>2
<1>5. \A d \in CRs : task'[Reconciler][d].pc = "got" /\ ~Restart =>
          task[Reconciler][d].pc = "got"
  <2>1. ASSUME NEW c \in CRs, RunStep(Reconciler, c), NEW d \in CRs,
               task'[Reconciler][d].pc = "got"
        PROVE  task[Reconciler][d].pc = "got"
    BY <2>1, SourceTypes, RunMoves
  <2>2. CASE task'[Reconciler] = task[Reconciler]
    BY Zenon, <2>2
  <2>3. QED
    BY Zenon, <2>1, <2>2, OthersLeaveReconcile DEF Sources
<1>6. CASE ~Restart
  BY Zenon, <1>1, <1>4, <1>5, <1>6, ObjectFrame
<1>7. QED
  BY Zenon, <1>2, <1>6

\* Every step keeps the invariant, and only Create adds an object.
LEMMA ObjectStep ==
    ASSUME TypeOK, ObjectInv, [Next]_vars
    PROVE  /\ ObjectInv'
           /\ "create" \notin UserOps => Present' \subseteq Present
<1>1. ASSUME NEW c \in CRs, Create(c) \/ Edit(c) \/ Delete(c) \/ Release(c)
      PROVE  ObjectInv' /\ ("create" \notin UserOps => Present' \subseteq Present)
  BY Zenon, <1>1, ObjectUsers DEF Create, UserMay
<1>2. QED
  BY <1>1, ObjectReconcile, ObjectOthers DEF Next

-----------------------------------------------------------------------------
(***************************************************************************)
(* Run-once mode.  The counter of Wg is the number of listed objects that  *)
(* Reconcile has not ended for.  That needs, besides the warm-up and the   *)
(* objects above: Reconcile runs only for an object it has stored in       *)
(* onceCompleted and not ended for, and works only on listed objects.  The *)
(* last holds because the objects that exist are all listed, as long as    *)
(* none is created after the list.                                         *)
(***************************************************************************)
OnceInv ==
    /\ ended \subseteq completed
    /\ \A c \in CRs : task[Reconciler][c].pc \in InRun => c \in completed \ ended
    /\ phase[Warmer] = "waiting" => ~watching /\ wg = 0 /\ ended = {}
    /\ watching => /\ proc # "panicked"
                   /\ wg = Cardinality(counted \ ended)
                   /\ Present \subseteq counted
                   /\ \A c \in CRs : task[Reconciler][c].pc # "idle" => c \in counted
    /\ proc = "stopped" => watching /\ counted \subseteq ended

\* A step of RunOnce, or one that RunOnce does not see.
OnceMove == [OneShot!Next]_(OneShot!vars)

\* It holds at the start, and the start is one of RunOnce.
LEMMA OnceInit == ASSUME Once, Init PROVE OnceInv /\ OneShot!Init
<1>1. \A d \in CRs : task[Reconciler][d].pc = "idle"
  BY Zenon, SourceTypes DEF Init, Fresh, Idle
<1>2. phase[Warmer] = "waiting"
  BY SourceTypes DEF Init
<1>3. OnceInv
  BY <1>1 DEF Init, OnceInv, InRun
<1>4. Present \in SUBSET CRs
  BY DEF Present
<1>5. OnceState = "listing"
  BY <1>2 DEF Init, OnceState
<1>6. QED
  BY <1>3, <1>4, <1>5 DEF Init, OneShot!Init

\* Steps that neither start nor end a run of Reconcile.
LEMMA OnceFrame ==
    ASSUME OnceInv, UNCHANGED <<once, proc>>, Present' \subseteq Present,
           phase'[Warmer] = "waiting" <=> phase[Warmer] = "waiting",
           \A c \in CRs : /\ task'[Reconciler][c].pc \in InRun =>
                                task[Reconciler][c].pc \in InRun
                          /\ task'[Reconciler][c].pc # "idle" =>
                                task[Reconciler][c].pc # "idle" \/ c \in Present
    PROVE  OnceInv' /\ OnceMove
<1>1. UNCHANGED <<completed, wg, watching, counted, ended>>
  BY DEF once
<1>2. OnceInv'
  BY Zenon, <1>1 DEF OnceInv
<1>3. OnceState' = OnceState
  BY Zenon, <1>1 DEF OnceState
<1>4. Present' \in SUBSET CRs
  BY DEF Present
<1>5. OnceMove
  BY <1>1, <1>3, <1>4 DEF OnceMove, OneShot!Next, OneShot!Users, OneShot!vars
<1>6. QED
  BY <1>2, <1>5

\* Proceed stores the object and starts its run, unless it is stored already.
LEMMA OnceProceed ==
    ASSUME Once, TypeOK, OnceInv, NEW c \in CRs, Proceed(c)
    PROVE  OnceInv' /\ OnceMove
<1>1. /\ UNCHANGED <<obj, phase, wg, watching, proc, counted, ended>>
      /\ task[Reconciler][c].pc = "got"
      /\ \A d \in CRs : d # c => task'[Reconciler][d] = task[Reconciler][d]
      /\ \/ task'[Reconciler][c].pc = "idle" /\ UNCHANGED completed
         \/ /\ task'[Reconciler][c].pc = "begin"
            /\ ~AlreadyDone(c)
            /\ completed' = completed \cup {c}
  <2>1. UNCHANGED <<obj, phase, wg, watching, proc, counted, ended>>
    BY Zenon DEF Proceed, store
  <2>2. QED
    BY Zenon, <2>1, ReconcileMoves DEF ReconcileStep
<1>2. UNCHANGED <<Present, OnceState>>
  BY Zenon, <1>1 DEF Present, OnceState
<1>3. ended' \subseteq completed'
  BY <1>1 DEF OnceInv
<1>4. \A d \in CRs : task'[Reconciler][d].pc \in InRun => d \in completed' \ ended'
  <2> SUFFICES ASSUME NEW d \in CRs, task'[Reconciler][d].pc \in InRun
               PROVE  d \in completed' \ ended'
    OBVIOUS
  <2>1. CASE d # c
    BY <1>1, <2>1 DEF OnceInv
  <2>2. CASE d = c
    <3>1. completed' = completed \cup {c} /\ c \notin completed
      BY <1>1, <2>2 DEF InRun, AlreadyDone
    <3>2. QED
      BY <1>1, <2>2, <3>1 DEF OnceInv
  <2>3. QED
    BY <2>1, <2>2
<1>5. \A d \in CRs : task'[Reconciler][d].pc # "idle" => task[Reconciler][d].pc # "idle"
  BY <1>1
<1>6. OnceInv'
  BY Zenon, <1>1, <1>2, <1>3, <1>4, <1>5 DEF OnceInv
<1>7. OnceMove
  BY <1>1, <1>2 DEF OnceMove, OneShot!vars
<1>8. QED
  BY <1>6, <1>7

\* The end of a run: one object less to wait for.
LEMMA OnceFinish ==
    ASSUME Once, TypeOK, WarmUpInv, OnceInv, NEW c \in CRs, FinishReconcile(c)
    PROVE  OnceInv' /\ OnceMove
<1>1. /\ UNCHANGED <<obj, phase, completed, watching, counted>>
      /\ ended' = ended \cup {c} /\ Done(c) /\ proc = "up"
  BY Zenon DEF FinishReconcile, SignalDone, At
<1>2. /\ task[Reconciler][c].pc = "finish" /\ task'[Reconciler][c].pc = "idle"
      /\ \A d \in CRs : d # c => task'[Reconciler][d] = task[Reconciler][d]
  BY Zenon, ReconcileMoves DEF ReconcileStep
<1>3. c \in completed \ ended /\ phase[Warmer] # "waiting"
  BY <1>2 DEF OnceInv, InRun, WarmUpInv
<1>4. Present' = Present
  BY Zenon, <1>1 DEF Present
<1>5. ended' \subseteq completed'
  BY <1>1, <1>3 DEF OnceInv
<1>6. \A d \in CRs : task'[Reconciler][d].pc \in InRun => d \in completed' \ ended'
  BY <1>1, <1>2 DEF OnceInv, InRun
<1>7. CASE watching
  <2>1. c \in counted /\ wg = Cardinality(counted \ ended)
    BY <1>2, <1>7 DEF OnceInv
  <2>2. IsFiniteSet(counted \ ended)
    BY FS_Subset DEF TypeOK
  <2>3. /\ c \in counted \ ended /\ counted' \ ended' = (counted \ ended) \ {c}
    BY <1>1, <1>3, <2>1
  <2>4. /\ Cardinality(counted' \ ended') = Cardinality(counted \ ended) - 1
        /\ Cardinality(counted \ ended) \in Nat
        /\ Cardinality(counted' \ ended') \in Nat
    <3>1. /\ IsFiniteSet((counted \ ended) \ {c})
          /\ Cardinality((counted \ ended) \ {c}) = Cardinality(counted \ ended) - 1
      BY Zenon, <2>2, <2>3, FS_RemoveElement
    <3>2. QED
      BY Zenon, <2>2, <2>3, <3>1, FS_CardinalityType
  <2>5. wg > 0
    BY <2>1, <2>4
  <2>6. wg' = Cardinality(counted' \ ended') /\ proc' = "up"
    BY <1>1, <2>1, <2>4, <2>5 DEF Done
  <2>7. \A d \in CRs : task'[Reconciler][d].pc # "idle" => d \in counted'
    BY <1>1, <1>2, <1>7 DEF OnceInv
  <2>8. OnceInv'
    BY <1>1, <1>3, <1>4, <1>5, <1>6, <1>7, <2>6, <2>7 DEF OnceInv
  <2>9. OneShot!Process(c)
    BY <1>1, <1>4, <1>7, <2>3, <2>6 DEF OneShot!Process, OnceState
  <2>10. QED
    BY <2>8, <2>9 DEF OnceMove, OneShot!Next
<1>8. CASE ~watching
  <2>1. proc' \in {"up", "panicked"}
    BY <1>1 DEF Done
  <2>2. OnceInv'
    BY <1>1, <1>3, <1>5, <1>6, <1>8, <2>1 DEF OnceInv
  <2>3. OnceState = "failed" /\ OnceState' = "failed"
    BY <1>1, <1>3, <1>8, <2>1 DEF OnceState
  <2>4. ended' \in SUBSET CRs
    BY <1>1 DEF TypeOK
  <2>5. OneShot!Astray
    BY <1>1, <1>4, <2>3, <2>4 DEF OneShot!Astray
  <2>6. QED
    BY <2>2, <2>5 DEF OnceMove, OneShot!Next
<1>9. QED
  BY <1>7, <1>8

\* The list: every object that exists is counted.
LEMMA OnceLists ==
    ASSUME Once, TypeOK, WarmUpInv, OnceInv, ListForWarmUp
    PROVE  OnceInv' /\ OnceMove
<1>1. /\ UNCHANGED <<obj, completed, proc, ended>>
      /\ proc = "up" /\ phase[Warmer] = "waiting"
  BY Zenon DEF ListForWarmUp, store
<1>2. ~watching /\ wg = 0 /\ ended = {}
  BY <1>1 DEF OnceInv
<1>3. Present' = Present /\ Present \subseteq CRs /\ OnceState = "listing"
  BY <1>1, <1>2 DEF Present, OnceState
<1>4. \A c \in CRs : task'[Reconciler][c].pc = "idle"
  <2>1. task'[Reconciler] = task[Reconciler]
    BY Zenon, OthersLeaveReconcile
  <2>2. QED
    BY <1>1, <2>1 DEF WarmUpInv
<1>5. phase'[Warmer] # "waiting"
  BY Zenon, SourceTypes DEF ListForWarmUp, TypeOK
<1>6. CASE UNCHANGED <<wg, watching, counted>>
  <2>1. OnceInv'
    BY <1>1, <1>2, <1>4, <1>5, <1>6 DEF OnceInv, InRun
  <2>2. OnceState' = "failed"
    BY <1>1, <1>2, <1>5, <1>6 DEF OnceState
  <2>3. OneShot!Fail
    BY <1>1, <1>3, <1>6, <2>2 DEF OneShot!Fail
  <2>4. QED
    BY <2>1, <2>3 DEF OnceMove, OneShot!Next
<1>7. CASE wg' = wg + WgAdd /\ watching' = Once /\ counted' = Present
  <2>1. IsFiniteSet(Present) /\ Cardinality(Present) \in Nat
    BY <1>3, FS_Subset, FS_CardinalityType
  <2>2. wg' = Cardinality(Present) /\ counted' \ ended' = Present
    BY <1>1, <1>2, <1>7, <2>1 DEF WgAdd
  <2>3. OnceInv'
    BY <1>1, <1>2, <1>3, <1>4, <1>5, <1>7, <2>2 DEF OnceInv, InRun
  <2>4. OnceState' = "processing"
    BY <1>1, <1>7 DEF OnceState
  <2>5. OneShot!List
    BY <1>1, <1>3, <1>7, <2>4 DEF OneShot!List
  <2>6. QED
    BY <2>3, <2>5 DEF OnceMove, OneShot!Next
<1>8. QED
  BY Zenon, <1>6, <1>7 DEF ListForWarmUp

\* The end of the process.
LEMMA OnceEnds ==
    ASSUME Once, TypeOK, OnceInv, ManagerFails \/ StopManager
    PROVE  OnceInv' /\ OnceMove
<1>1. /\ UNCHANGED <<obj, task, phase, completed, wg, watching, counted, ended>>
      /\ proc = "up"
  BY Zenon DEF ManagerFails, StopManager, store, once
<1>2. UNCHANGED Present
  BY Zenon, <1>1 DEF Present
<1>3. CASE ManagerFails
  <2>1. proc' = "exited" /\ phase[Warmer] = "failed"
    BY Zenon, <1>3 DEF ManagerFails
  <2>2. OnceInv'
    BY <1>1, <1>2, <2>1 DEF OnceInv
  <2>3. OnceState \in {"processing", "failed"} /\ OnceState' = "failed"
    BY <1>1, <2>1 DEF OnceState
  <2>4. QED
    BY <1>1, <1>2, <2>2, <2>3 DEF OnceMove, OneShot!Next, OneShot!Fail, OneShot!vars
<1>4. CASE StopManager
  <2>1. proc' = "stopped" /\ watching /\ wg = 0
    BY Zenon, <1>4 DEF StopManager
  <2>2. Cardinality(counted \ ended) = 0
    BY <2>1 DEF OnceInv
  <2>3. IsFiniteSet(counted \ ended)
    BY FS_Subset DEF TypeOK
  <2>4. counted \ ended = {}
    BY <2>2, <2>3, FS_EmptySet
  <2>5. counted \subseteq ended
    BY <2>4
  <2>6. OnceInv'
    BY <1>1, <1>2, <2>1, <2>5 DEF OnceInv
  <2>7. OnceState = "processing" /\ OnceState' = "stopped"
    BY <1>1, <2>1 DEF OnceState
  <2>8. OneShot!Stop
    BY <1>1, <1>2, <2>5, <2>7 DEF OneShot!Stop
  <2>9. QED
    BY <2>6, <2>8 DEF OnceMove, OneShot!Next
<1>5. QED
  BY <1>3, <1>4

\* Reconcile up to the decision to run, and the steps of its run.
LEMMA OnceReconcile ==
    ASSUME TypeOK, OnceInv, Present' \subseteq Present, NEW c \in CRs,
           \/ Get(c) \/ Finalize(c) \/ RemoveFinalizer(c) \/ StopDeleting(c)
           \/ AddFinalizer(c) \/ RunStep(Reconciler, c)
    PROVE  OnceInv' /\ OnceMove
<1>1. UNCHANGED <<once, proc, phase>>
  BY Zenon DEF Get, Finalize, RemoveFinalizer, StopDeleting, AddFinalizer, RunStep,
     setReconcilingStatus, FilterApplications, UpdateApplications
<1>2. \A d \in CRs : d # c => task'[Reconciler][d] = task[Reconciler][d]
  <2>1. CASE RunStep(Reconciler, c)
    BY <2>1, RunMoves, SourceTypes
  <2>2. CASE ~RunStep(Reconciler, c)
    BY SMTT(30), <2>2, ReconcileMoves DEF ReconcileStep
  <2>3. QED
    BY <2>1, <2>2
<1>3. /\ task'[Reconciler][c].pc \in InRun => task[Reconciler][c].pc \in InRun
      /\ task'[Reconciler][c].pc # "idle" => task[Reconciler][c].pc # "idle" \/ obj[c].present
  <2>1. CASE RunStep(Reconciler, c)
    BY <2>1, RunMoves, SourceTypes DEF InRun
  <2>2. CASE ~RunStep(Reconciler, c)
    BY SMTT(30), <2>2, ReconcileMoves DEF ReconcileStep, InRun
  <2>3. QED
    BY SMTT(30), <2>1, <2>2
<1>4. \A d \in CRs :
         /\ task'[Reconciler][d].pc \in InRun => task[Reconciler][d].pc \in InRun
         /\ task'[Reconciler][d].pc # "idle" =>
               task[Reconciler][d].pc # "idle" \/ d \in Present
  BY Zenon, <1>2, <1>3 DEF Present
<1>5. QED
  BY Zenon, <1>1, <1>4, OnceFrame

\* The runs of the warm-up and of the webhooks, users and the queue.
LEMMA OnceOthers ==
    ASSUME TypeOK, WarmUpInv, OnceInv, Present' \subseteq Present,
           \/ UNCHANGED vars
           \/ \E c \in CRs : WaitForWarmUp(c) \/ Tick(c) \/ Create(c) \/ Edit(c)
                             \/ Delete(c) \/ Release(c) \/ FinishWarmUp(c)
           \/ \E e \in Events : ListForWebhook(e)
           \/ \E e \in Events, c \in CRs : FinishWebhook(e, c)
           \/ \E s \in Listers, c \in CRs : Acquire(s, c) \/ RunStep(s, c)
           \/ \E s \in Listers : Wait(s)
    PROVE  OnceInv' /\ OnceMove
<1>1. UNCHANGED <<once, proc>>
  <2>1. ASSUME NEW s \in Listers, NEW c \in CRs, RunStep(s, c)
        PROVE  UNCHANGED <<once, proc>>
    BY Zenon, <2>1 DEF RunStep, setReconcilingStatus, FilterApplications, UpdateApplications
  <2>2. ASSUME NEW c \in CRs, Create(c) \/ Edit(c) \/ Delete(c) \/ Release(c)
        PROVE  UNCHANGED <<once, proc>>
    BY Zenon, <2>2 DEF Create, Edit, Delete, Release
  <2>3. QED
    BY Zenon, <2>1, <2>2 DEF vars, once, WaitForWarmUp, Tick, FinishWarmUp, ListForWebhook,
       FinishWebhook, Acquire, Wait
<1>2. task'[Reconciler] = task[Reconciler]
  BY Zenon, OthersLeaveReconcile
<1>3. phase'[Warmer] = "waiting" <=> phase[Warmer] = "waiting"
  <2>1. phase \in [Listers -> {"waiting", "processing", "failing", "failed", "done"}]
    BY DEF TypeOK
  <2>2. CASE UNCHANGED phase
    BY Zenon, <2>2
  <2>3. ASSUME NEW c \in CRs, FinishWarmUp(c)
        PROVE  phase[Warmer] # "waiting" /\ phase'[Warmer] # "waiting"
    BY Zenon, <2>1, <2>3, SourceTypes DEF FinishWarmUp, At, WarmUpInv
  <2>4. ASSUME NEW e \in Events, ListForWebhook(e) PROVE phase'[Warmer] = phase[Warmer]
    BY <2>1, <2>4, SourceTypes DEF ListForWebhook
  <2>5. ASSUME NEW s \in Listers, Wait(s)
        PROVE  phase'[Warmer] = "waiting" <=> phase[Warmer] = "waiting"
    <3>1. CASE s = Warmer
      BY Zenon, <2>1, <2>5, <3>1 DEF Wait
    <3>2. CASE s # Warmer
      BY Zenon, <2>1, <2>5, <3>2, SourceTypes DEF Wait
    <3>3. QED
      BY SMTT(30), <3>1, <3>2
  <2>6. ASSUME NEW s \in Listers, NEW c \in CRs, RunStep(s, c)
        PROVE  UNCHANGED phase
    BY Zenon, <2>6 DEF RunStep, setReconcilingStatus, FilterApplications, UpdateApplications
  <2>7. ASSUME NEW c \in CRs, Create(c) \/ Edit(c) \/ Delete(c) \/ Release(c)
        PROVE  UNCHANGED phase
    BY Zenon, <2>7 DEF Create, Edit, Delete, Release
  <2>8. QED
    BY Zenon, <2>2, <2>3, <2>4, <2>5, <2>6, <2>7 DEF vars, WaitForWarmUp, Tick,
       FinishWebhook, Acquire
<1>4. QED
  BY Zenon, <1>1, <1>2, <1>3, OnceFrame

\* Every step keeps the invariant and is a step that RunOnce allows.
LEMMA OnceStep ==
    ASSUME Once, "create" \notin UserOps, TypeOK, WarmUpInv, ObjectInv, OnceInv, [Next]_vars
    PROVE  OnceInv' /\ OnceMove
<1>1. Present' \subseteq Present
  BY ObjectStep
<1>2. ASSUME NEW c \in CRs, WaitForWarmUp(c) \/ Get(c) \/ ReconcileStep(c) \/ Tick(c)
      PROVE  OnceInv' /\ OnceMove
  BY <1>1, <1>2, OnceReconcile, OnceProceed, OnceFinish, OnceOthers DEF ReconcileStep
<1>3. ASSUME NEW s \in Sources, NEW c \in CRs, RunStep(s, c) PROVE OnceInv' /\ OnceMove
  BY <1>1, <1>3, OnceReconcile, OnceOthers DEF Sources
<1>4. CASE Restart
  BY <1>4 DEF Restart
<1>5. QED
  BY <1>1, <1>2, <1>3, <1>4, OnceLists, OnceEnds, OnceOthers DEF Next

\* Run-once mode implements RunOnce, for any number of objects, workers, webhook
\* events and failures, as long as no object is created after the list: one that
\* is, is processed without having been counted (CacheWarmer.Start, Reconcile).
THEOREM RunOnceKept ==
    ASSUME Once, "create" \notin UserOps
    PROVE  Spec => KeepsRunOnce
<1>1. Init => OnceInv /\ ObjectInv /\ WarmUpInv /\ OneShot!Init
  BY OnceInit, ObjectInit, WarmUpInit
<1>2. TypeOK /\ WarmUpInv /\ ObjectInv /\ OnceInv /\ [Next]_vars =>
         OnceInv' /\ ObjectInv' /\ WarmUpInv' /\ [OneShot!Next]_(OneShot!vars)
  BY OnceStep, ObjectStep, WarmUpStep DEF OnceMove
<1>3. QED
  BY <1>1, <1>2, ControllerTypes, PTL DEF Spec, KeepsRunOnce, OneShot!Spec

\* Under the same conditions the WaitGroup is never taken below zero after the
\* list, and the manager is stopped only after Reconcile has ended for every
\* object that was listed.
THEOREM OnceIsSafe ==
    ASSUME Once, "create" \notin UserOps
    PROVE  Spec => [](NoPanic /\ OnceComplete)
<1>1. Init => OnceInv /\ ObjectInv /\ WarmUpInv
  BY OnceInit, ObjectInit, WarmUpInit
<1>2. TypeOK /\ WarmUpInv /\ ObjectInv /\ OnceInv /\ [Next]_vars =>
         OnceInv' /\ ObjectInv' /\ WarmUpInv'
  BY OnceStep, ObjectStep, WarmUpStep
<1>3. OnceInv => NoPanic /\ OnceComplete
  BY Zenon DEF OnceInv, NoPanic, OnceComplete
<1>4. QED
  BY <1>1, <1>2, <1>3, ControllerTypes, PTL DEF Spec

-----------------------------------------------------------------------------
(***************************************************************************)
(* The limit on concurrent runs.  Each source keeps to it by itself: the   *)
(* workers of the controller, and the semaphore of the warm-up.  Together  *)
(* they do because the warm-up is over before Reconcile starts.            *)
(***************************************************************************)
SlotInv ==
    \A s \in {Reconciler, Warmer} : Cardinality(Working(s)) <= MaxReconciles

\* No more objects are worked on than before.
LEMMA SlotFewer ==
    ASSUME NEW s \in {Reconciler, Warmer}, Cardinality(Working(s)) <= MaxReconciles,
           Working(s)' \subseteq Working(s)
    PROVE  Cardinality(Working(s)') <= MaxReconciles
<1>1. IsFiniteSet(Working(s))
  BY FS_Subset DEF Working
<1>2. /\ IsFiniteSet(Working(s)')
      /\ Cardinality(Working(s)') <= Cardinality(Working(s))
  BY <1>1, FS_Subset
<1>3. Cardinality(Working(s)') \in Nat /\ Cardinality(Working(s)) \in Nat
  BY <1>1, <1>2, FS_CardinalityType
<1>4. QED
  BY <1>2, <1>3

\* One more is worked on, and there was a slot for it.
LEMMA SlotTaken ==
    ASSUME NEW s \in {Reconciler, Warmer}, NEW c \in CRs, HasSlot(s),
           Working(s)' \subseteq Working(s) \cup {c}
    PROVE  Cardinality(Working(s)') <= MaxReconciles
<1>1. IsFiniteSet(Working(s))
  BY FS_Subset DEF Working
<1>2. /\ IsFiniteSet(Working(s) \cup {c})
      /\ Cardinality(Working(s) \cup {c}) <= Cardinality(Working(s)) + 1
  <2>1. Cardinality(Working(s)) \in Nat
    BY <1>1, FS_CardinalityType
  <2>2. /\ IsFiniteSet(Working(s) \cup {c})
        /\ \/ Cardinality(Working(s) \cup {c}) = Cardinality(Working(s))
           \/ Cardinality(Working(s) \cup {c}) = Cardinality(Working(s)) + 1
    BY Zenon, <1>1, FS_AddElement
  <2>3. QED
    BY <2>1, <2>2
<1>3. /\ IsFiniteSet(Working(s)')
      /\ Cardinality(Working(s)') <= Cardinality(Working(s) \cup {c})
  BY <1>2, FS_Subset
<1>4. /\ Cardinality(Working(s)') \in Nat
      /\ Cardinality(Working(s)) \in Nat
      /\ Cardinality(Working(s) \cup {c}) \in Nat
  BY <1>1, <1>2, <1>3, FS_CardinalityType
<1>5. QED
  BY <1>2, <1>3, <1>4 DEF HasSlot

\* Only what a step does to a task can put it to work.
LEMMA WorkingFewer ==
    ASSUME NEW s,
           \A d \in CRs : task'[s][d].pc \notin {"idle", "listed"} =>
               task[s][d].pc \notin {"idle", "listed"}
    PROVE  Working(s)' \subseteq Working(s)
BY Zenon DEF Working

\* Every step keeps each of the two limits.
LEMMA SlotStep ==
    ASSUME TypeOK, SlotInv, [Next]_vars
    PROVE  SlotInv'
<1>1. /\ Reconciler \in Sources /\ Warmer \in Sources /\ Reconciler # Warmer
      /\ Warmer \in Listers /\ task \in [Sources -> [CRs -> Task]]
  BY SourceTypes DEF TypeOK
<1>2. ASSUME \A s \in {Reconciler, Warmer} : Working(s)' \subseteq Working(s) PROVE SlotInv'
  BY Zenon, <1>2, SlotFewer DEF SlotInv
<1>3. ASSUME \A s \in {Reconciler, Warmer} : task'[s] = task[s] PROVE SlotInv'
  BY Zenon, <1>2, <1>3 DEF Working
<1>4. ASSUME NEW c \in CRs, Get(c) \/ ReconcileStep(c) PROVE SlotInv'
  <2>1. Working(Warmer)' \subseteq Working(Warmer)
    <3>1. task'[Warmer] = task[Warmer]
      BY Zenon, <1>1, <1>4, ReconcileMoves
    <3>2. QED
      BY Zenon, <3>1 DEF Working
  <2>2. \A d \in CRs : d # c => task'[Reconciler][d] = task[Reconciler][d]
    BY Zenon, <1>4, ReconcileMoves
  <2>3. CASE Get(c)
    <3>1. HasSlot(Reconciler)
      BY Zenon, <2>3 DEF Get
    <3>2. Working(Reconciler)' \subseteq Working(Reconciler) \cup {c}
      BY Zenon, <2>2 DEF Working
    <3>3. Cardinality(Working(Reconciler)') <= MaxReconciles
      BY Zenon, <3>1, <3>2, SlotTaken
    <3>4. Cardinality(Working(Warmer)') <= MaxReconciles
      BY Zenon, <2>1, SlotFewer DEF SlotInv
    <3>5. QED
      BY Zenon, <3>3, <3>4 DEF SlotInv
  <2>4. CASE ReconcileStep(c)
    <3>1. task[Reconciler][c].pc \notin {"idle", "listed"}
      BY Zenon, <2>4, ReconcileMoves DEF ReconcileStep
    <3>2. Working(Reconciler)' \subseteq Working(Reconciler)
      BY Zenon, <2>2, <3>1, WorkingFewer
    <3>3. QED
      BY Zenon, <1>2, <2>1, <3>2
  <2>5. QED
    BY Zenon, <1>4, <2>3, <2>4
<1>5. ASSUME NEW s \in Sources, NEW c \in CRs, RunStep(s, c) PROVE SlotInv'
  <2>1. /\ \A u \in Sources : u # s => task'[u] = task[u]
        /\ \A d \in CRs : d # c => task'[s][d] = task[s][d]
        /\ task[s][c].pc \notin {"idle", "listed"}
    BY SMTT(30), <1>5, RunMoves
  <2>2. ASSUME NEW u \in {Reconciler, Warmer} PROVE Working(u)' \subseteq Working(u)
    BY Zenon, <1>1, <2>1, <2>2, WorkingFewer
  <2>3. QED
    BY Zenon, <1>2, <2>2
<1>6. ASSUME NEW s \in Listers, NEW c \in CRs, Acquire(s, c) PROVE SlotInv'
  <2>1. s \in Sources /\ s # Reconciler /\ HasSlot(s) /\ \E t : SetTask(s, c, t)
    BY Zenon, <1>6, SourceTypes DEF Acquire
  <2>2. /\ \A u \in Sources : u # s => task'[u] = task[u]
        /\ \A d \in CRs : d # c => task'[s][d] = task[s][d]
    BY SMTT(30), <2>1, OtherTasks
  <2>3. CASE s # Warmer
    BY Zenon, <1>1, <1>3, <2>1, <2>2, <2>3
  <2>4. CASE s = Warmer
    <3>1. Working(Warmer)' \subseteq Working(Warmer) \cup {c}
      BY Zenon, <2>2, <2>4 DEF Working
    <3>2. Cardinality(Working(Warmer)') <= MaxReconciles
      BY Zenon, <2>1, <2>4, <3>1, SlotTaken
    <3>3. Working(Reconciler)' \subseteq Working(Reconciler)
      BY Zenon, <1>1, <2>1, <2>2 DEF Working
    <3>4. Cardinality(Working(Reconciler)') <= MaxReconciles
      BY Zenon, <3>3, SlotFewer DEF SlotInv
    <3>5. QED
      BY Zenon, <3>2, <3>4 DEF SlotInv
  <2>5. QED
    BY Zenon, <2>3, <2>4
<1>7. ASSUME NEW s \in Listers, Listed(s) PROVE SlotInv'
  <2>1. task' = [task EXCEPT ![s] =
                    [c \in CRs |-> IF obj[c].present
                                   THEN [Idle EXCEPT !.pc = "listed", !.copy = CopyOf(obj[c])]
                                   ELSE Idle]]
    BY Zenon, <1>7 DEF Listed
  <2>2. \A c \in CRs : /\ [Idle EXCEPT !.pc = "listed", !.copy = CopyOf(obj[c])].pc = "listed"
                       /\ Idle.pc = "idle"
    BY DEF Idle
  <2>3. \A d \in CRs : task'[s][d].pc \in {"idle", "listed"}
    BY Zenon, <1>1, <2>1, <2>2, SourceTypes
  <2>4. \A u \in Sources : u # s => task'[u] = task[u]
    BY Zenon, <1>1, <2>1
  <2>5. ASSUME NEW u \in {Reconciler, Warmer} PROVE Working(u)' \subseteq Working(u)
    BY Zenon, <1>1, <2>3, <2>4, <2>5, WorkingFewer
  <2>6. QED
    BY Zenon, <1>2, <2>5
<1>8. ASSUME NEW s \in Listers, NEW c \in CRs, SetTask(s, c, Idle) PROVE SlotInv'
  <2>1. /\ s \in Sources
        /\ \A u \in Sources : u # s => task'[u] = task[u]
        /\ \A d \in CRs : d # c => task'[s][d] = task[s][d]
        /\ task'[s][c] = Idle
    BY <1>8, SourceTypes, OtherTasks
  <2>2. Idle.pc \in {"idle", "listed"}
    BY DEF Idle
  <2>3. ASSUME NEW u \in {Reconciler, Warmer} PROVE Working(u)' \subseteq Working(u)
    BY Zenon, <1>1, <2>1, <2>2, <2>3, WorkingFewer
  <2>4. QED
    BY Zenon, <1>2, <2>3
<1>9. CASE Restart
  <2>1. \A u \in {Reconciler, Warmer}, d \in CRs : task'[u][d].pc \in {"idle", "listed"}
    BY Zenon, <1>1, <1>9 DEF Restart, Fresh, Idle
  <2>2. QED
    BY Zenon, <1>2, <2>1, WorkingFewer
<1>10. CASE UNCHANGED task
  BY Zenon, <1>3, <1>10
<1>11. CASE \/ ListForWarmUp
            \/ \E e \in Events : ListForWebhook(e)
            \/ \E e \in Events, c \in CRs : FinishWebhook(e, c)
            \/ \E c \in CRs : FinishWarmUp(c)
  BY Zenon, <1>7, <1>8, <1>10, <1>11, SourceTypes
     DEF ListForWarmUp, ListForWebhook, FinishWebhook, FinishWarmUp
<1>12. CASE \/ ManagerFails \/ StopManager \/ UNCHANGED vars
            \/ \E s \in Listers : Wait(s)
            \/ \E c \in CRs : WaitForWarmUp(c) \/ Tick(c) \/ Create(c) \/ Edit(c)
                              \/ Delete(c) \/ Release(c)
  BY Zenon, <1>10, <1>12 DEF ManagerFails, StopManager, vars, Wait, WaitForWarmUp, Tick,
     Create, Edit, Delete, Release
<1>13. QED
  BY <1>4, <1>5, <1>6, <1>9, <1>11, <1>12 DEF Next

\* The runs of one source are no more than the objects it works on.
LEMMA RunsOfOne ==
    ASSUME NEW s, NEW W, W = {w \in {s} \X CRs : w[2] \in Running(w[1])}
    PROVE  IsFiniteSet(W) /\ Cardinality(W) <= Cardinality(Working(s))
<1>1. IsFiniteSet(Working(s)) /\ IsFiniteSet({s}) /\ Cardinality({s}) = 1
  BY Zenon, FS_Subset, FS_Singleton DEF Working
<1>2. /\ IsFiniteSet({s} \X Working(s))
      /\ Cardinality({s} \X Working(s)) = 1 * Cardinality(Working(s))
  BY <1>1, FS_Product
<1>3. W \subseteq {s} \X Working(s)
  BY DEF Running, Working
<1>4. /\ IsFiniteSet(W) /\ Cardinality(W) <= Cardinality({s} \X Working(s))
      /\ Cardinality(Working(s)) \in Nat
  BY <1>1, <1>2, <1>3, FS_Subset, FS_CardinalityType
<1>5. QED
  BY <1>2, <1>4

\* Without webhooks no more than MaxConcurrentReconciles objects are processed
\* at a time, the warm-up included, for any number of objects and any limit:
\* the semaphore of the warm-up and the workers of Reconcile are never in use
\* together (webhook runs have a semaphore of their own for each event).
THEOREM RunsAreLimited == ASSUME Events = {} PROVE Spec => []RunLimit
<1>1. Init => SlotInv
  <2> SUFFICES ASSUME Init, NEW s \in {Reconciler, Warmer}
               PROVE  Cardinality(Working(s)) <= MaxReconciles
    BY DEF SlotInv
  <2>1. \A d \in CRs : task[s][d].pc = "idle"
    BY Zenon, SourceTypes DEF Init, Fresh, Idle
  <2>2. Working(s) = {}
    BY <2>1 DEF Working
  <2>3. QED
    BY <2>2, FS_EmptySet
<1>2. TypeOK /\ SlotInv /\ [Next]_vars => SlotInv'
  BY SlotStep
<1>3. SlotInv /\ WarmUpFirst => RunLimit
  <2> SUFFICES ASSUME SlotInv, WarmUpFirst PROVE RunLimit
    OBVIOUS
  <2> DEFINE Runs == {w \in Sources \X CRs : w[2] \in Running(w[1])}
  <2>1. Sources = {Reconciler, Warmer}
    BY DEF Sources, Listers
  <2>2. PICK s \in {Reconciler, Warmer} : \A u \in Sources : u # s => Running(u) = {}
    <3>1. CASE \E c \in CRs : task[Reconciler][c].pc # "idle"
      <4>1. \A c \in CRs : task[Warmer][c].pc = "idle"
        BY Zenon, <3>1 DEF WarmUpFirst
      <4>2. Running(Warmer) = {}
        BY <4>1 DEF Running
      <4>3. QED
        BY Zenon, <2>1, <4>2
    <3>2. CASE ~\E c \in CRs : task[Reconciler][c].pc # "idle"
      <4>1. Running(Reconciler) = {}
        BY <3>2 DEF Running
      <4>2. QED
        BY Zenon, <2>1, <4>1
    <3>3. QED
      BY <3>1, <3>2
  <2>3. Runs = {w \in {s} \X CRs : w[2] \in Running(w[1])}
    BY <2>1, <2>2
  <2>4. IsFiniteSet(Runs) /\ Cardinality(Runs) <= Cardinality(Working(s))
    BY <2>3, RunsOfOne
  <2>5. Cardinality(Runs) \in Nat /\ Cardinality(Working(s)) \in Nat
    <3>1. IsFiniteSet(Working(s))
      BY FS_Subset DEF Working
    <3>2. QED
      BY <2>4, <3>1, FS_CardinalityType
  <2>6. Cardinality(Working(s)) <= MaxReconciles
    BY DEF SlotInv
  <2>7. QED
    BY <2>4, <2>5, <2>6 DEF RunLimit
<1>4. QED
  BY <1>1, <1>2, <1>3, WarmUpBeforeReconcile, ControllerTypes, PTL DEF Spec

-----------------------------------------------------------------------------
(***************************************************************************)
(* The Reconciling condition.  As long as no call has failed the process   *)
(* is not restarted, because only a failed warm-up run makes the manager   *)
(* exit; the warm-up writes no status; and the finalizer keeps the object  *)
(* of a run in place, so both status writes find it.                       *)
(***************************************************************************)
CleanInv ==
    /\ \A c \in CRs : task[Warmer][c].pc # "begin"
    /\ faults = 0 => /\ proc # "exited"
                     /\ phase[Warmer] \notin {"failing", "failed"}
                     /\ \A c \in CRs : task[Warmer][c].result # "failed"

\* A fault is counted for good.
LEMMA FaultsStay ==
    ASSUME TypeOK, [Next]_vars
    PROVE  /\ faults' = 0 => faults' = faults
           /\ Fault => faults' # 0
<1>1. faults \in Nat
  BY DEF TypeOK
<1>2. Fault \/ faults' = faults
  <2>1. ASSUME NEW s \in Sources, NEW c \in CRs, RunStep(s, c) PROVE Fault \/ faults' = faults
    BY Zenon, <2>1
    DEF RunStep, setReconcilingStatus, FilterApplications, UpdateApplications, NoFault
  <2>2. ASSUME NEW c \in CRs, ReconcileStep(c) PROVE Fault \/ faults' = faults
    BY Zenon, <2>2 DEF ReconcileStep, Finalize, RemoveFinalizer, StopDeleting, AddFinalizer,
       Proceed, FinishReconcile, updateStatus, NoFault
  <2>3. ASSUME NEW c \in CRs, Create(c) \/ Edit(c) \/ Delete(c) \/ Release(c)
        PROVE  Fault \/ faults' = faults
    BY Zenon, <2>3 DEF Create, Edit, Delete, Release
  <2>4. QED
    BY Zenon, <2>1, <2>2, <2>3 DEF Next, vars, WaitForWarmUp, Get, Tick, ListForWarmUp,
       ListForWebhook, Acquire, FinishWebhook, FinishWarmUp, updateStatus, Wait, ManagerFails,
       StopManager, Restart, NoFault
<1>3. QED
  BY <1>1, <1>2 DEF Fault

\* Steps that do not touch the warm-up.
LEMMA CleanFrame ==
    ASSUME CleanInv, task'[Warmer] = task[Warmer], phase'[Warmer] = phase[Warmer],
           proc' = "exited" => proc = "exited",
           faults' = 0 => faults' = faults
    PROVE  CleanInv'
BY Zenon DEF CleanInv

\* A run of the warm-up.
LEMMA CleanRun ==
    ASSUME TypeOK, CleanInv, [Next]_vars, NEW c \in CRs,
           RunStep(Warmer, c) \/ Acquire(Warmer, c)
    PROVE  CleanInv'
<1> DEFINE t == task[Warmer][c]
<1>1. t \in Task /\ Warmer \in Sources
  BY SourceTypes DEF TypeOK
<1>2. UNCHANGED <<phase, proc>>
  BY Zenon DEF RunStep, Acquire, setReconcilingStatus, FilterApplications, UpdateApplications
<1>3. PICK u : /\ SetTask(Warmer, c, u) /\ u.pc # "begin"
               /\ u.result = "failed" => t.result = "failed" \/ Fault
  <2>1. CASE setReconcilingStatus(Warmer, c)
    BY Zenon, <2>1 DEF setReconcilingStatus, At, CleanInv
  <2>2. CASE FilterApplications(Warmer, c)
    <3>1. /\ [t EXCEPT !.pc = "finish", !.result = "failed"].pc # "begin"
          /\ [t EXCEPT !.pc = "apps"].pc # "begin"
          /\ [t EXCEPT !.pc = "apps"].result = t.result
      BY <1>1 DEF Task
    <3>2. QED
      BY Zenon, <2>2, <3>1 DEF FilterApplications
  <2>3. CASE UpdateApplications(Warmer, c)
    <3>1. PICK r \in Results : SetTask(Warmer, c, [t EXCEPT !.pc = "finish", !.result = r])
      BY Zenon, <2>3 DEF UpdateApplications
    <3>2. /\ [t EXCEPT !.pc = "finish", !.result = r].pc # "begin"
          /\ [t EXCEPT !.pc = "finish", !.result = r].result # "failed"
      BY <1>1 DEF Task
    <3>3. QED
      BY Zenon, <3>1, <3>2
  <2>4. CASE Acquire(Warmer, c)
    <3>1. /\ [t EXCEPT !.pc = "run"].pc # "begin"
          /\ [t EXCEPT !.pc = "run"].result = t.result
      BY <1>1 DEF Task
    <3>2. SetTask(Warmer, c, [t EXCEPT !.pc = "run"])
      BY <2>4 DEF Acquire
    <3>3. QED
      BY Zenon, <3>1, <3>2
  <2>5. QED
    BY <2>1, <2>2, <2>3, <2>4 DEF RunStep
<1>4. task'[Warmer][c] = u /\ \A d \in CRs : d # c => task'[Warmer][d] = task[Warmer][d]
  BY SMTT(30), <1>1, <1>3, OtherTasks
<1>5. /\ faults' = 0 => faults' = faults
      /\ Fault => faults' # 0
  BY FaultsStay
<1>6. QED
  BY Zenon, <1>2, <1>3, <1>4, <1>5 DEF CleanInv

\* The list and the end of the warm-up, and of its runs.
LEMMA CleanWarmUp ==
    ASSUME TypeOK, CleanInv, [Next]_vars,
           ListForWarmUp \/ (\E c \in CRs : FinishWarmUp(c)) \/ Wait(Warmer)
    PROVE  CleanInv'
<1>1. /\ phase \in [Listers -> {"waiting", "processing", "failing", "failed", "done"}]
      /\ task \in [Sources -> [CRs -> Task]]
      /\ Warmer \in Listers /\ Warmer \in Sources
  BY SourceTypes DEF TypeOK
<1>2. /\ faults' = 0 => faults' = faults
      /\ Fault => faults' # 0
  BY FaultsStay
<1>3. CASE ListForWarmUp
  <2>1. proc' = "up"
    BY Zenon, <1>3 DEF ListForWarmUp
  <2>2. CASE Fault /\ UNCHANGED task
    BY Zenon, <1>2, <2>2 DEF CleanInv
  <2>3. CASE Listed(Warmer) /\ phase' = [phase EXCEPT ![Warmer] = "processing"]
    <3>1. \A d \in CRs :
             /\ [Idle EXCEPT !.pc = "listed", !.copy = CopyOf(obj[d])].pc # "begin"
             /\ [Idle EXCEPT !.pc = "listed", !.copy = CopyOf(obj[d])].result # "failed"
             /\ Idle.pc # "begin" /\ Idle.result # "failed"
      BY DEF Idle
    <3>2. task' = [task EXCEPT ![Warmer] =
                      [c \in CRs |-> IF obj[c].present
                                     THEN [Idle EXCEPT !.pc = "listed", !.copy = CopyOf(obj[c])]
                                     ELSE Idle]]
      BY Zenon, <2>3 DEF Listed
    <3>3. \A d \in CRs : task'[Warmer][d].pc # "begin" /\ task'[Warmer][d].result # "failed"
      BY Zenon, <1>1, <3>1, <3>2
    <3>4. phase'[Warmer] = "processing"
      BY Zenon, <1>1, <2>3
    <3>5. QED
      BY SMTT(30), <2>1, <3>3, <3>4 DEF CleanInv
  <2>4. QED
    BY Zenon, <1>3, <2>2, <2>3 DEF ListForWarmUp
<1>4. ASSUME NEW c \in CRs, FinishWarmUp(c) PROVE CleanInv'
  <2>1. /\ task'[Warmer][c] = Idle
        /\ \A d \in CRs : d # c => task'[Warmer][d] = task[Warmer][d]
    BY SMTT(30), <1>1, <1>4, OtherTasks DEF FinishWarmUp
  <2>2. Idle.pc # "begin" /\ Idle.result # "failed"
    BY DEF Idle
  <2>3. /\ UNCHANGED proc
        /\ \/ phase'[Warmer] = phase[Warmer]
           \/ task[Warmer][c].result = "failed"
    BY <1>1, <1>4 DEF FinishWarmUp
  <2>4. QED
    BY Zenon, <1>2, <2>1, <2>2, <2>3 DEF CleanInv
<1>5. CASE Wait(Warmer)
  <2>1. UNCHANGED <<task, proc>>
    BY Zenon, <1>5 DEF Wait
  <2>2. phase[Warmer] \notin {"failing", "failed"} => phase'[Warmer] = "done"
    BY <1>1, <1>5 DEF Wait
  <2>3. QED
    BY <1>2, <2>1, <2>2 DEF CleanInv
<1>6. QED
  BY <1>3, <1>4, <1>5

\* Every step keeps the invariant.
LEMMA CleanStep ==
    ASSUME TypeOK, CleanInv, [Next]_vars
    PROVE  CleanInv'
<1>1. /\ phase \in [Listers -> {"waiting", "processing", "failing", "failed", "done"}]
      /\ task \in [Sources -> [CRs -> Task]]
      /\ Warmer \in Listers /\ Warmer \in Sources /\ Warmer # Reconciler
      /\ \A e \in Events : e \in Listers /\ e \in Sources /\ e # Warmer
  BY SourceTypes DEF TypeOK
<1>2. faults' = 0 => faults' = faults
  BY FaultsStay
<1>3. ASSUME UNCHANGED phase, task'[Warmer] = task[Warmer], proc' # "exited" \/ proc' = proc
      PROVE  CleanInv'
  BY Zenon, <1>2, <1>3, CleanFrame
<1>4. ASSUME NEW c \in CRs, Get(c) \/ ReconcileStep(c) PROVE CleanInv'
  <2>1. UNCHANGED phase /\ (proc' # "exited" \/ proc' = proc)
    BY Zenon, <1>4 DEF Get, ReconcileStep, Finalize, RemoveFinalizer, StopDeleting,
       AddFinalizer, Proceed, FinishReconcile, SignalDone, Done
  <2>2. task'[Warmer] = task[Warmer]
    BY Zenon, <1>1, <1>4, ReconcileMoves
  <2>3. QED
    BY Zenon, <1>3, <2>1, <2>2
<1>5. ASSUME NEW s \in Sources, s # Warmer, NEW c \in CRs, NEW t, SetTask(s, c, t),
             UNCHANGED <<phase, proc>>
      PROVE  CleanInv'
  BY Zenon, <1>1, <1>3, <1>5, OtherTasks
<1>6. ASSUME NEW s \in Sources, NEW c \in CRs, RunStep(s, c) PROVE CleanInv'
  <2>1. (\E t : SetTask(s, c, t)) /\ UNCHANGED <<phase, proc>>
    BY Zenon, <1>6 DEF RunStep, setReconcilingStatus, FilterApplications, UpdateApplications
  <2>2. QED
    BY Zenon, <1>5, <1>6, <2>1, CleanRun
<1>7. ASSUME NEW s \in Listers, NEW c \in CRs, Acquire(s, c) PROVE CleanInv'
  <2>1. (\E t : SetTask(s, c, t)) /\ UNCHANGED <<phase, proc>>
    BY Zenon, <1>7 DEF Acquire
  <2>2. QED
    BY Zenon, <1>5, <1>7, <2>1, CleanRun, SourceTypes
<1>8. ASSUME NEW e \in Events, NEW c \in CRs, FinishWebhook(e, c) PROVE CleanInv'
  <2>1. (\E t : SetTask(e, c, t)) /\ UNCHANGED <<phase, proc>>
    BY Zenon, <1>8 DEF FinishWebhook
  <2>2. QED
    BY Zenon, <1>1, <1>5, <2>1
<1>9. ASSUME NEW e \in Events, ListForWebhook(e) PROVE CleanInv'
  <2>1. phase'[Warmer] = phase[Warmer] /\ proc' = proc
    BY Zenon, <1>1, <1>9 DEF ListForWebhook
  <2>2. task'[Warmer] = task[Warmer]
    BY Zenon, <1>1, <1>9 DEF ListForWebhook, Listed
  <2>3. QED
    BY Zenon, <1>2, <2>1, <2>2, CleanFrame
<1>10. ASSUME NEW s \in Listers, Wait(s) PROVE CleanInv'
  <2>1. CASE s = Warmer
    BY Zenon, <1>10, <2>1, CleanWarmUp
  <2>2. CASE s # Warmer
    <3>1. phase'[Warmer] = phase[Warmer] /\ UNCHANGED <<task, proc>>
      BY Zenon, <1>1, <1>10, <2>2 DEF Wait
    <3>2. QED
      BY Zenon, <1>2, <3>1, CleanFrame
  <2>3. QED
    BY <2>1, <2>2
<1>11. CASE ManagerFails
  <2>1. phase[Warmer] = "failed" /\ UNCHANGED <<task, phase>>
    BY Zenon, <1>11 DEF ManagerFails
  <2>2. QED
    BY <1>2, <2>1 DEF CleanInv
<1>12. CASE Restart
  <2>1. /\ \A c \in CRs : task'[Warmer][c] = Idle
        /\ phase'[Warmer] \in {"waiting", "done"} /\ proc' = "up"
    BY Zenon, <1>1, <1>12 DEF Restart, Fresh
  <2>2. Idle.pc # "begin" /\ Idle.result # "failed"
    BY DEF Idle
  <2>3. QED
    BY <2>1, <2>2 DEF CleanInv
<1>13. CASE \/ StopManager \/ UNCHANGED vars
            \/ \E c \in CRs : WaitForWarmUp(c) \/ Tick(c) \/ Create(c) \/ Edit(c)
                              \/ Delete(c) \/ Release(c)
  BY Zenon, <1>3, <1>13 DEF StopManager, vars, WaitForWarmUp, Tick, Create, Edit, Delete, Release
<1>14. QED
  BY <1>4, <1>6, <1>7, <1>8, <1>9, <1>10, <1>11, <1>12, <1>13, CleanWarmUp DEF Next

\* What ReconcilingExact says of the objects.
Exact ==
    \A c \in CRs : obj[c].present =>
        (status[c].reconciling = "True" <=> c \in Running(Reconciler))

\* Steps that write no status and start or end no run of Reconcile.
LEMMA ExactFrame ==
    ASSUME Exact, UNCHANGED status, Present' \subseteq Present,
           \A d \in CRs : task'[Reconciler][d].pc \in {"run", "apps", "finish"} <=>
                          task[Reconciler][d].pc \in {"run", "apps", "finish"}
    PROVE  Exact'
<1>1. \A d \in CRs : obj'[d].present => obj[d].present
  BY Zenon DEF Present
<1>2. QED
  BY Zenon, <1>1 DEF Exact, Running

\* Steps without a fault that Reconcile or a run of it takes.
LEMMA ExactReconcile ==
    ASSUME TypeOK, ObjectInv, SeriesInv, Exact, UNCHANGED faults, [Next]_vars,
           NEW c \in CRs, Get(c) \/ ReconcileStep(c) \/ RunStep(Reconciler, c)
    PROVE  Exact'
<1>1. /\ status \in [CRs -> Status] /\ status[c] \in Status
      /\ faults \in Nat /\ Reconciler \in Sources
      /\ task[Reconciler][c] \in Task /\ task \in [Sources -> [CRs -> Task]]
  BY SourceTypes DEF TypeOK
<1>2. ~Fault
  BY <1>1 DEF Fault
<1>3. \A d \in CRs : d # c => task'[Reconciler][d] = task[Reconciler][d]
  <2>1. CASE RunStep(Reconciler, c)
    BY <1>1, <2>1, RunMoves
  <2>2. CASE Get(c) \/ ReconcileStep(c)
    BY Zenon, <2>2, ReconcileMoves
  <2>3. QED
    BY Zenon, <2>1, <2>2
<1>4. Present' \subseteq Present
  <2>1. CASE Get(c) \/ ReconcileStep(c)
    BY Zenon, <2>1, ObjectReconcile
  <2>2. CASE RunStep(Reconciler, c)
    BY Zenon, <1>1, <2>2, ObjectOthers
  <2>3. QED
    BY Zenon, <2>1, <2>2
<1>5. CASE setReconcilingStatus(Reconciler, c)
  <2>1. obj[c].present
    BY Zenon, <1>5 DEF setReconcilingStatus, At, SeriesInv
  <2>2. /\ status' = [status EXCEPT ![c].reconciling = "True"]
        /\ UNCHANGED obj
    BY Zenon, <1>2, <1>5, <2>1 DEF setReconcilingStatus
  <2>3. task'[Reconciler][c].pc = "run"
    <3>1. /\ [task[Reconciler][c] EXCEPT !.pc = "run", !.copy = CopyOf(obj[c])].pc = "run"
          /\ [task[Reconciler][c] EXCEPT !.pc = "run"].pc = "run"
      BY <1>1 DEF Task
    <3>2. PICK u : SetTask(Reconciler, c, u) /\ u.pc = "run"
      BY Zenon, <1>5, <3>1 DEF setReconcilingStatus
    <3>3. task'[Reconciler][c] = u
      BY <1>1, <3>2, OtherTasks
    <3>4. QED
      BY Zenon, <3>2, <3>3
  <2>4. /\ status'[c].reconciling = "True"
        /\ \A d \in CRs : d # c => status'[d] = status[d]
    BY <1>1, <2>2 DEF Status
  <2>5. QED
    BY <1>3, <2>2, <2>3, <2>4 DEF Exact, Running
<1>6. CASE FinishReconcile(c)
  <2>1. obj[c].present
    BY Zenon, <1>6 DEF FinishReconcile, At, SeriesInv
  <2>2. status' = [status EXCEPT ![c] =
                      [setCompletionConditions(@, task[Reconciler][c].result)
                          EXCEPT !.observed = ObservedGeneration(Reconciler, c)]]
        /\ UNCHANGED obj
    BY Zenon, <1>2, <1>6, <2>1 DEF FinishReconcile, updateStatus
  <2>3. task'[Reconciler][c].pc = "idle"
    BY Zenon, <1>6, ReconcileMoves DEF ReconcileStep
  <2>4. /\ status'[c].reconciling = "False"
        /\ \A d \in CRs : d # c => status'[d] = status[d]
    <3>1. [setCompletionConditions(status[c], task[Reconciler][c].result)
              EXCEPT !.observed = ObservedGeneration(Reconciler, c)].reconciling = "False"
      BY <1>1 DEF setCompletionConditions, Status
    <3>2. QED
      BY Zenon, <1>1, <2>2, <3>1
  <2>5. QED
    BY <1>3, <2>2, <2>3, <2>4 DEF Exact, Running
<1>7. CASE FilterApplications(Reconciler, c) \/ UpdateApplications(Reconciler, c)
  <2>1. UNCHANGED status /\ task[Reconciler][c].pc \in {"run", "apps", "finish"}
    BY Zenon, <1>7 DEF FilterApplications, UpdateApplications, At, store
  <2>2. task'[Reconciler][c].pc \in {"run", "apps", "finish"}
    BY Zenon, <1>1, <1>7, RunMoves DEF RunStep
  <2>3. QED
    BY Zenon, <1>3, <1>4, <2>1, <2>2, ExactFrame
<1>8. CASE \/ Get(c) \/ Finalize(c) \/ RemoveFinalizer(c) \/ StopDeleting(c)
           \/ AddFinalizer(c) \/ Proceed(c)
  <2>1. UNCHANGED status
    BY Zenon, <1>8 DEF Get, Finalize, RemoveFinalizer, StopDeleting, AddFinalizer, Proceed, store
  <2>2. /\ task[Reconciler][c].pc \notin {"run", "apps", "finish"}
        /\ task'[Reconciler][c].pc \notin {"run", "apps", "finish"}
    BY Zenon, <1>8, ReconcileMoves DEF ReconcileStep
  <2>3. QED
    BY Zenon, <1>3, <1>4, <2>1, <2>2, ExactFrame
<1>9. QED
  BY <1>5, <1>6, <1>7, <1>8 DEF ReconcileStep, RunStep

\* A new object has no condition, and no run of Reconcile is left for it.
LEMMA ExactCreate ==
    ASSUME TypeOK, SeriesInv, Exact, NEW c \in CRs, Create(c)
    PROVE  Exact'
<1>1. /\ status \in [CRs -> Status] /\ obj \in [CRs -> Object]
      /\ ~obj[c].present /\ UNCHANGED task
      /\ status' = [status EXCEPT ![c] = NewStatus]
  BY Zenon DEF TypeOK, Create
<1>2. \A d \in CRs : d # c => status'[d] = status[d] /\ obj'[d] = obj[d]
  BY Zenon, <1>1 DEF Create
<1>3. status'[c].reconciling # "True"
  BY <1>1 DEF NewStatus
<1>4. task[Reconciler][c].pc \notin {"begin", "run", "apps", "finish"}
  BY Zenon, <1>1 DEF SeriesInv
<1>5. c \notin Running(Reconciler)'
  BY <1>1, <1>4 DEF Running
<1>6. QED
  BY Zenon, <1>1, <1>2, <1>3, <1>5 DEF Exact, Running

\* As long as nothing has failed and without webhooks, Reconciling is True for
\* exactly the objects whose run is between its two status writes, for any number
\* of objects and workers and whatever users do: every way out of the run writes
\* the condition again (setReconcilingStatus, updateStatusAfterReconcile).
THEOREM ReconcilingIsExact == ASSUME Events = {} PROVE Spec => []ReconcilingExact
<1>1. Init => CleanInv /\ ObjectInv /\ SeriesInv /\ ReconcilingExact
  <2> SUFFICES ASSUME Init PROVE CleanInv /\ ReconcilingExact
    BY ObjectInit, SeriesInit
  <2>1. \A s \in Sources, d \in CRs : task[s][d] = Idle
    BY Zenon DEF Init, Fresh
  <2>2. Idle.pc = "idle" /\ Idle.result = "Unset"
    BY DEF Idle
  <2>3. CleanInv
    BY <2>1, <2>2, SourceTypes DEF Init, CleanInv
  <2>4. \A d \in CRs : status[d].reconciling = "Unset"
    BY DEF Init, NewStatus
  <2>5. ReconcilingExact
    BY <2>1, <2>2, <2>4, SourceTypes DEF ReconcilingExact, Running
  <2>6. QED
    BY <2>3, <2>5
<1>2. TypeOK /\ CleanInv /\ ObjectInv /\ SeriesInv /\ ReconcilingExact /\ [Next]_vars =>
         CleanInv' /\ ObjectInv' /\ SeriesInv' /\ ReconcilingExact'
  <2> SUFFICES ASSUME TypeOK, CleanInv, ObjectInv, SeriesInv, ReconcilingExact, [Next]_vars
               PROVE  ReconcilingExact'
    BY CleanStep, ObjectStep, SeriesStep
  <2> SUFFICES ASSUME faults' = 0 PROVE Exact'
    BY Zenon DEF ReconcilingExact, Exact
  <2>1. faults = 0 /\ UNCHANGED faults /\ ~Fault
    BY FaultsStay
  <2>2. Exact
    BY Zenon, <2>1 DEF ReconcilingExact, Exact
  <2>3. Sources = {Warmer, Reconciler} /\ Listers = {Warmer}
    BY DEF Sources, Listers
  <2>4. ASSUME NEW c \in CRs, Get(c) \/ ReconcileStep(c) \/ RunStep(Reconciler, c)
        PROVE  Exact'
    BY Zenon, <2>1, <2>2, <2>4, ExactReconcile
  <2>5. CASE Restart
    BY Zenon, <2>1, <2>5 DEF Restart, CleanInv
  <2>6. ASSUME UNCHANGED status, Present' \subseteq Present, task'[Reconciler] = task[Reconciler]
        PROVE  Exact'
    BY Zenon, <2>2, <2>6, ExactFrame
  <2>7. ASSUME NEW c \in CRs, RunStep(Warmer, c) PROVE Exact'
    <3>1. UNCHANGED status
      <4>1. ~setReconcilingStatus(Warmer, c)
        BY Zenon DEF setReconcilingStatus, At, CleanInv
      <4>2. QED
        BY Zenon, <2>7, <4>1 DEF RunStep, FilterApplications, UpdateApplications, store
    <3>2. Present' \subseteq Present
      BY Zenon, <2>7, SourceTypes, ObjectOthers
    <3>3. task'[Reconciler] = task[Reconciler]
      BY Zenon, <2>7, SourceTypes, OthersLeaveReconcile
    <3>4. QED
      BY Zenon, <2>6, <3>1, <3>2, <3>3
  <2>8. ASSUME NEW c \in CRs, Edit(c) \/ Delete(c) \/ Release(c) PROVE Exact'
    <3>1. UNCHANGED status /\ UNCHANGED task
      BY Zenon, <2>8 DEF Edit, Delete, Release
    <3>2. Create(c) \/ Present' \subseteq Present
      BY Zenon, <2>8, ObjectUsers
    <3>3. QED
      BY Zenon, <2>2, <2>6, <3>1, <3>2, ExactCreate
  <2>9. CASE \/ ListForWarmUp \/ ManagerFails \/ StopManager \/ UNCHANGED vars
             \/ \E c \in CRs : WaitForWarmUp(c) \/ Tick(c) \/ FinishWarmUp(c)
                               \/ Acquire(Warmer, c)
             \/ Wait(Warmer)
    <3>1. UNCHANGED status
      BY Zenon, <2>9 DEF ListForWarmUp, ManagerFails, StopManager, vars, WaitForWarmUp, Tick,
         FinishWarmUp, Acquire, Wait, store
    <3>2. Present' \subseteq Present
      BY Zenon, <2>9, SourceTypes, ObjectOthers
    <3>3. task'[Reconciler] = task[Reconciler]
      BY Zenon, <2>9, SourceTypes, OthersLeaveReconcile
    <3>4. QED
      BY Zenon, <2>6, <3>1, <3>2, <3>3
  <2>10. QED
    BY <2>2, <2>3, <2>4, <2>5, <2>7, <2>8, <2>9, ExactCreate DEF Next
<1>3. QED
  BY <1>1, <1>2, ControllerTypes, PTL DEF Spec
=============================================================================
