---------------------------- MODULE Controller ----------------------------
(***************************************************************************)
(* The ImageUpdater controller process: Reconcile with its finalizer and   *)
(* status writes, the cache warm-up that gates it, the webhook server that *)
(* runs beside it, run-once mode, and the Prometheus series each run       *)
(* writes.  What a run does to the applications is the subject of          *)
(* WriteBack; here a run is the two steps that touch the controller's own  *)
(* state.                                                                  *)
(*                                                                         *)
(* The API server, the informers and the work queue are external: they are *)
(* modelled from how the controller uses them (optimistic concurrency on   *)
(* Update, events filtered by GenerationChangedPredicate, one Reconcile    *)
(* per object at a time, RequeueAfter, requeue on error).                  *)
(***************************************************************************)
EXTENDS Integers, FiniteSets

CONSTANTS
    CRs,           \* names of ImageUpdater objects
    Events,        \* webhook events that may arrive, each handled once
    Reconciler,    \* the source of the runs that Reconcile starts
    Warmer,        \* the source of the runs that CacheWarmer starts
    Interval,      \* CheckInterval: "negative", "zero" or "positive"
    Once,          \* --once
    WarmUp,        \* --warmup-cache
    MaxReconciles, \* --max-concurrent-reconciles
    UserOps,       \* what users do to the objects while the process runs
    Results,       \* how the applications of a run may come out
    MaxGen,        \* bound: spec versions per name
    MaxFaults      \* bound: failed API calls, failed runs and crashes

Listers == Events \cup {Warmer}
Sources == Listers \cup {Reconciler}

ASSUME ControllerAssumption ==
    /\ Reconciler \notin Listers
    /\ Warmer \notin Events
    /\ Interval \in {"negative", "zero", "positive"}
    /\ Once \in BOOLEAN
    /\ WarmUp \in BOOLEAN
    /\ Once => WarmUp /\ Interval = "zero"
    /\ MaxReconciles \in Nat \ {0}
    /\ UserOps \subseteq {"create", "edit", "delete", "hold"}
    /\ Results \subseteq {"ok", "partial"}
    /\ MaxGen \in Nat \ {0}
    /\ MaxFaults \in Nat
    /\ IsFiniteSet(CRs)

VARIABLES
    obj,       \* the objects in the API server
    status,    \* their status subresource
    queued,    \* the work queue
    timer,     \* RequeueAfter: names that enter the queue after a delay
    task,      \* the run of each source for each object
    stale,     \* the object was written since Reconcile read its copy
    phase,     \* what the warm-up and the webhook goroutines are doing
    warmed,    \* the channel CacheWarmed is closed
    completed, \* onceCompleted
    wg,        \* the counter of Wg
    watching,  \* the goroutine that waits for Wg runs
    proc,      \* the process
    metrics,   \* objects that have series in the registry
    faults,    \* faults so far
    checked,   \* history: the newest spec version a run got through
    counted,   \* history: the objects Wg counts
    ended      \* history: the objects whose Reconcile ran to its end

store == <<obj, status>>
queue == <<queued, timer>>
once == <<completed, wg, watching, counted, ended>>
vars == <<obj, status, queued, timer, task, stale, phase, warmed, completed,
          wg, watching, proc, metrics, faults, checked, counted, ended>>

(***************************************************************************)
(* Types.  A name keeps counting its spec versions when the object is      *)
(* created again: gen stands for the pair of UID and metadata.generation,  *)
(* which is what tells two versions apart.                                 *)
(***************************************************************************)
Gens == 0 .. MaxGen
Object == [present: BOOLEAN, gen: Gens, deleting: BOOLEAN,
           finalizer: BOOLEAN, foreign: BOOLEAN]
Outcomes == Results \cup {"failed"}
Status == [observed: Gens, reconciling: {"Unset", "True", "False"},
           outcome: Outcomes \cup {"Unset"}]
Copy == [gen: Gens, deleting: BOOLEAN, finalizer: BOOLEAN]
Pcs == {"idle", "listed", "got", "remove", "begin", "run", "apps", "finish"}
Task == [pc: Pcs, copy: Copy, result: Outcomes \cup {"Unset"}]

\* The type invariant: every variable of the controller, of the API server
\* and of the work queue holds a value of its Go type, and the WaitGroup
\* counter is never seen below zero (a Done that would take it there panics).
TypeOK ==
    /\ obj \in [CRs -> Object]
    /\ status \in [CRs -> Status]
    /\ queued \in [CRs -> BOOLEAN]
    /\ timer \in [CRs -> BOOLEAN]
    /\ task \in [Sources -> [CRs -> Task]]
    /\ stale \in [CRs -> BOOLEAN]
    /\ phase \in [Listers -> {"waiting", "processing", "failing", "failed", "done"}]
    /\ warmed \in BOOLEAN
    /\ completed \subseteq CRs
    /\ wg \in Nat
    /\ watching \in BOOLEAN
    /\ proc \in {"up", "stopped", "exited", "panicked"}
    /\ metrics \subseteq CRs
    /\ faults \in 0 .. MaxFaults
    /\ checked \in [CRs -> Gens]
    /\ counted \subseteq CRs
    /\ ended \subseteq CRs

NoCopy == [gen |-> 0, deleting |-> FALSE, finalizer |-> FALSE]
Idle == [pc |-> "idle", copy |-> NoCopy, result |-> "Unset"]
NewStatus == [observed |-> 0, reconciling |-> "Unset", outcome |-> "Unset"]
CopyOf(o) == [gen |-> o.gen, deleting |-> o.deleting, finalizer |-> o.finalizer]

Present == {c \in CRs : obj[c].present}
Working(s) == {c \in CRs : task[s][c].pc \notin {"idle", "listed"}}
Running(s) == {c \in CRs : task[s][c].pc \in {"run", "apps", "finish"}}

SetTask(s, c, t) == task' = [task EXCEPT ![s][c] = t]
At(s, c, pc) == proc = "up" /\ task[s][c].pc = pc

\* A call fails; the bound keeps the number of failures finite.
Fault == faults < MaxFaults /\ faults' = faults + 1
NoFault == UNCHANGED faults

\* A write to an object outdates the copy Reconcile holds for an Update.
Outdate(c) ==
    stale' = [stale EXCEPT ![c] = task[Reconciler][c].pc \in {"got", "remove"}]
Enqueue(c) == queued' = [queued EXCEPT ![c] = TRUE]

-----------------------------------------------------------------------------
(***************************************************************************)
(* Start of the process.  The informer lists the objects and enqueues all  *)
(* of them; without warm-up the channel is closed before the manager runs. *)
(***************************************************************************)
Fresh ==
    [queued |-> [c \in CRs |-> obj[c].present],
     timer |-> [c \in CRs |-> FALSE],
     task |-> [s \in Sources |-> [c \in CRs |-> Idle]],
     stale |-> [c \in CRs |-> FALSE]]

InitialObjects ==
    {o \in Object :
        /\ o.gen = IF o.present THEN 1 ELSE 0
        /\ o.deleting => "delete" \in UserOps /\ (o.finalizer \/ o.foreign)
        /\ o.foreign => "hold" \in UserOps
        /\ ~o.present => ~o.deleting /\ ~o.finalizer /\ ~o.foreign}

Init ==
    /\ obj \in [CRs -> InitialObjects]
    /\ status = [c \in CRs |-> NewStatus]
    /\ queued = Fresh.queued
    /\ timer = Fresh.timer
    /\ task = Fresh.task
    /\ stale = Fresh.stale
    /\ phase = [s \in Listers |-> IF s = Warmer /\ ~WarmUp THEN "done" ELSE "waiting"]
    /\ warmed = ~WarmUp
    /\ completed = {}
    /\ wg = 0
    /\ watching = FALSE
    /\ proc = "up"
    /\ metrics = {}
    /\ faults = 0
    /\ checked = [c \in CRs |-> 0]
    /\ counted = {}
    /\ ended = {}

\* Kubernetes starts the container again after a crash or an exit.  The
\* objects stay, everything the process held in memory is gone, and a webhook
\* event it had accepted is lost.
Restart ==
    /\ ~Once
    /\ \/ proc = "up" /\ Fault
       \/ proc = "exited" /\ NoFault
    /\ proc' = "up"
    /\ queued' = Fresh.queued
    /\ timer' = Fresh.timer
    /\ task' = Fresh.task
    /\ stale' = Fresh.stale
    /\ phase' = [s \in Listers |->
                    IF s = Warmer THEN (IF WarmUp THEN "waiting" ELSE "done")
                    ELSE IF phase[s] = "waiting" THEN "waiting" ELSE "done"]
    /\ warmed' = ~WarmUp
    /\ metrics' = {}
    /\ UNCHANGED <<store, checked, once>>

-----------------------------------------------------------------------------
(***************************************************************************)
(* Reconcile, up to the point where the run starts.                        *)
(***************************************************************************)

\* Mutants: one slot too many, and one too few.
OneSlotMore(s) == Cardinality(Working(s)) <= MaxReconciles
OneSlotLess(s) == Cardinality(Working(s)) < MaxReconciles - 1

\* MaxConcurrentReconciles bounds the workers of the controller, and the
\* semaphore of each call of ProcessImageUpdaterCRs.
HasSlot(s) == Cardinality(Working(s)) < MaxReconciles

\* Mutant: Reconcile does not wait for the warm-up.
GateOpen == TRUE

\* The first select of Reconcile.
CacheWarmed == warmed

\* The warm-up is not complete: look again in five seconds.
WaitForWarmUp(c) ==
    /\ At(Reconciler, c, "idle") /\ queued[c] /\ HasSlot(Reconciler)
    /\ ~CacheWarmed
    /\ queued' = [queued EXCEPT ![c] = FALSE]
    /\ timer' = [timer EXCEPT ![c] = TRUE]
    /\ UNCHANGED <<store, task, stale, phase, warmed, once, proc, metrics,
                   faults, checked>>

\* A name leaves the queue and Reconcile reads the object.
Get(c) ==
    /\ At(Reconciler, c, "idle") /\ queued[c] /\ HasSlot(Reconciler)
    /\ CacheWarmed
    /\ \/ Fault /\ UNCHANGED <<queued, task, stale>>
       \/ /\ NoFault
          /\ queued' = [queued EXCEPT ![c] = FALSE]
          /\ stale' = [stale EXCEPT ![c] = FALSE]
          /\ SetTask(Reconciler, c,
                     IF obj[c].present
                     THEN [Idle EXCEPT !.pc = "got", !.copy = CopyOf(obj[c])]
                     ELSE Idle)
    /\ UNCHANGED <<store, timer, phase, warmed, once, proc, metrics, checked>>

\* Mutant: the error is logged and nil is returned.
SwallowError(c) ==
    /\ SetTask(Reconciler, c, Idle)
    /\ stale' = [stale EXCEPT ![c] = FALSE]
    /\ UNCHANGED queued

\* Reconcile returns an error: the queue takes the name back.
ReturnError(c) ==
    /\ SetTask(Reconciler, c, Idle)
    /\ stale' = [stale EXCEPT ![c] = FALSE]
    /\ Enqueue(c)

\* Mutant: the finalizer leaves the series behind.
KeepSeries(c) ==
    /\ At(Reconciler, c, "got")
    /\ task[Reconciler][c].copy.deleting
    /\ task[Reconciler][c].copy.finalizer
    /\ SetTask(Reconciler, c, [task[Reconciler][c] EXCEPT !.pc = "remove"])
    /\ UNCHANGED <<store, queue, stale, phase, warmed, once, proc, metrics,
                   faults, checked>>

\* The object is being deleted and carries the finalizer: drop its series.
Finalize(c) ==
    /\ At(Reconciler, c, "got")
    /\ task[Reconciler][c].copy.deleting
    /\ task[Reconciler][c].copy.finalizer
    /\ metrics' = metrics \ {c}
    /\ SetTask(Reconciler, c, [task[Reconciler][c] EXCEPT !.pc = "remove"])
    /\ UNCHANGED <<store, queue, stale, phase, warmed, once, proc, faults, checked>>

\* The Update without the finalizer; the API server lets the object go when
\* no other finalizer holds it.  A stale copy is a conflict.
RemoveFinalizer(c) ==
    /\ At(Reconciler, c, "remove")
    /\ \/ /\ ~stale[c] /\ NoFault
          /\ obj' = [obj EXCEPT ![c].finalizer = FALSE,
                                ![c].present = obj[c].foreign,
                                ![c].deleting = obj[c].foreign]
          /\ queued' = [queued EXCEPT ![c] = @ \/ ~obj[c].foreign]
          /\ SetTask(Reconciler, c, Idle)
          /\ UNCHANGED stale
       \/ /\ (stale[c] /\ NoFault) \/ Fault
          /\ ReturnError(c)
          /\ UNCHANGED obj
    /\ UNCHANGED <<status, timer, phase, warmed, once, proc, metrics, checked>>

\* Another finalizer still holds an object this controller is done with.
StopDeleting(c) ==
    /\ At(Reconciler, c, "got")
    /\ task[Reconciler][c].copy.deleting
    /\ ~task[Reconciler][c].copy.finalizer
    /\ SetTask(Reconciler, c, Idle)
    /\ stale' = [stale EXCEPT ![c] = FALSE]
    /\ UNCHANGED <<store, queue, phase, warmed, once, proc, metrics, faults, checked>>

AddFinalizer(c) ==
    /\ At(Reconciler, c, "got")
    /\ ~task[Reconciler][c].copy.deleting
    /\ ~task[Reconciler][c].copy.finalizer
    /\ \/ /\ ~stale[c] /\ NoFault
          /\ obj' = [obj EXCEPT ![c].finalizer = TRUE]
          /\ SetTask(Reconciler, c, [task[Reconciler][c] EXCEPT !.copy.finalizer = TRUE])
          /\ UNCHANGED <<stale, queued>>
       \/ /\ (stale[c] /\ NoFault) \/ Fault
          /\ ReturnError(c)
          /\ UNCHANGED obj
    /\ UNCHANGED <<status, timer, phase, warmed, once, proc, metrics, checked>>

\* Mutant: run-once mode does not remember what it has processed.
NeverDone(c) == FALSE

\* LoadOrStore on onceCompleted.
AlreadyDone(c) == Once /\ c \in completed

\* The finalizer is there; the check interval decides what Reconcile does.
Proceed(c) ==
    /\ At(Reconciler, c, "got")
    /\ ~task[Reconciler][c].copy.deleting
    /\ task[Reconciler][c].copy.finalizer
    /\ stale' = [stale EXCEPT ![c] = FALSE]
    /\ IF Interval = "negative" \/ AlreadyDone(c)
       THEN SetTask(Reconciler, c, Idle) /\ UNCHANGED completed
       ELSE /\ SetTask(Reconciler, c, [task[Reconciler][c] EXCEPT !.pc = "begin"])
            /\ completed' = IF Once THEN completed \cup {c} ELSE completed
    /\ UNCHANGED <<store, queue, phase, warmed, wg, watching, proc, metrics,
                   faults, checked, counted, ended>>

-----------------------------------------------------------------------------
(***************************************************************************)
(* A run for object c: setReconcilingStatus, RunImageUpdater and           *)
(* updateStatusAfterReconcile.  Both status writes read the object again   *)
(* and retry on a conflict, so each is one step; an error is only logged.  *)
(***************************************************************************)

\* Reconciling becomes True, and the run goes on with the copy it just read.
\* When the read fails it goes on with the copy it had.
setReconcilingStatus(s, c) ==
    /\ At(s, c, "begin")
    /\ \/ /\ obj[c].present /\ NoFault
          /\ status' = [status EXCEPT ![c].reconciling = "True"]
          /\ Outdate(c)
          /\ SetTask(s, c, [task[s][c] EXCEPT !.pc = "run", !.copy = CopyOf(obj[c])])
       \/ /\ obj[c].present /\ Fault
          /\ SetTask(s, c, [task[s][c] EXCEPT !.pc = "run", !.copy = CopyOf(obj[c])])
          /\ UNCHANGED <<status, stale>>
       \/ /\ (~obj[c].present /\ NoFault) \/ Fault
          /\ SetTask(s, c, [task[s][c] EXCEPT !.pc = "run"])
          /\ UNCHANGED <<status, stale>>
    /\ UNCHANGED <<obj, queue, phase, warmed, once, proc, metrics, checked>>

\* Runs of the warm-up write no series.
Series(s, c) == IF s = Warmer THEN metrics ELSE metrics \cup {c}

\* The first half of RunImageUpdater: find the applications.
FilterApplications(s, c) ==
    /\ At(s, c, "run")
    /\ \/ /\ Fault
          /\ SetTask(s, c, [task[s][c] EXCEPT !.pc = "finish", !.result = "failed"])
          /\ UNCHANGED metrics
       \/ /\ NoFault
          /\ metrics' = Series(s, c)
          /\ SetTask(s, c, [task[s][c] EXCEPT !.pc = "apps"])
    /\ UNCHANGED <<store, queue, stale, phase, warmed, once, proc, checked>>

\* The second half: every application was processed, and the counters of the
\* object are written again.
UpdateApplications(s, c) ==
    /\ At(s, c, "apps")
    /\ metrics' = Series(s, c)
    /\ \E r \in Results :
          SetTask(s, c, [task[s][c] EXCEPT !.pc = "finish", !.result = r])
    /\ checked' = IF s # Warmer /\ task[s][c].copy.gen > checked[c]
                  THEN [checked EXCEPT ![c] = task[s][c].copy.gen] ELSE checked
    /\ UNCHANGED <<store, queue, stale, phase, warmed, once, proc, faults>>

\* Mutants: the generation the run started from is recorded, and a run with
\* errors leaves Reconciling alone.
CopyGeneration(s, c) == task[s][c].copy.gen
IdleOnSuccess(st, r) ==
    [st EXCEPT !.reconciling = IF r = "ok" THEN "False" ELSE @, !.outcome = r]

\* The status a finished run writes over the one it has just read.
ObservedGeneration(s, c) == obj[c].gen
setCompletionConditions(st, r) ==
    [st EXCEPT !.reconciling = "False", !.outcome = r]

updateStatus(s, c) ==
    \/ /\ obj[c].present /\ NoFault
       /\ status' = [status EXCEPT ![c] =
                        [setCompletionConditions(@, task[s][c].result)
                            EXCEPT !.observed = ObservedGeneration(s, c)]]
       /\ Outdate(c)
    \/ /\ (~obj[c].present /\ NoFault) \/ Fault
       /\ UNCHANGED <<status, stale>>

\* Wg.Done: below zero it panics.
Done(c) ==
    IF wg > 0 THEN wg' = wg - 1 /\ UNCHANGED proc
              ELSE proc' = "panicked" /\ UNCHANGED wg

\* Mutants: the name is not queued again, and only a run without an error
\* is signalled.
NoNextCheck(c) == UNCHANGED timer
DoneOnSuccess(c) ==
    IF Once /\ task[Reconciler][c].result # "failed" THEN Done(c)
    ELSE UNCHANGED <<wg, proc>>

\* What Reconcile does after the status write: RequeueAfter in periodic mode,
\* Done in run-once mode, nothing otherwise.
NextCheck(c) == timer' = [timer EXCEPT ![c] = @ \/ Interval = "positive"]
SignalDone(c) == IF Once THEN Done(c) ELSE UNCHANGED <<wg, proc>>

FinishReconcile(c) ==
    /\ At(Reconciler, c, "finish")
    /\ updateStatus(Reconciler, c)
    /\ NextCheck(c)
    /\ SignalDone(c)
    /\ ended' = ended \cup {c}
    /\ SetTask(Reconciler, c, Idle)
    /\ UNCHANGED <<obj, queued, phase, warmed, completed, watching, metrics,
                   checked, counted>>

-----------------------------------------------------------------------------
(***************************************************************************)
(* The warm-up and the webhook goroutines: list the objects, then          *)
(* ProcessImageUpdaterCRs on the copies that were listed.                  *)
(***************************************************************************)
Listed(s) ==
    task' = [task EXCEPT ![s] = [c \in CRs |-> IF obj[c].present
                                                THEN [Idle EXCEPT !.pc = "listed", !.copy = CopyOf(obj[c])]
                                                ELSE Idle]]

\* Mutants: the last object is not counted, and only as many as there are
\* workers are.
OneShort == IF Once THEN Cardinality(Present) - 1 ELSE 0
WorkersOnly ==
    IF ~Once THEN 0
    ELSE IF Cardinality(Present) < MaxReconciles THEN Cardinality(Present)
    ELSE MaxReconciles

\* What Wg.Add counts in run-once mode.
WgAdd == IF Once THEN Cardinality(Present) ELSE 0

\* CacheWarmer.Start lists the objects; in run-once mode it counts them and
\* starts the goroutine that stops the manager when the count is back at zero.
ListForWarmUp ==
    /\ proc = "up" /\ phase[Warmer] = "waiting"
    /\ \/ /\ Fault
          /\ phase' = [phase EXCEPT ![Warmer] = "failed"]
          /\ warmed' = TRUE
          /\ UNCHANGED <<task, wg, watching, counted>>
       \/ /\ NoFault
          /\ phase' = [phase EXCEPT ![Warmer] = "processing"]
          /\ Listed(Warmer)
          /\ wg' = wg + WgAdd
          /\ watching' = Once
          /\ counted' = Present
          /\ UNCHANGED warmed
    /\ UNCHANGED <<store, queue, stale, completed, proc, metrics, checked, ended>>

\* processWebhookEvent: neither gated by the warm-up nor by the finalizer.
ListForWebhook(e) ==
    /\ proc = "up" /\ phase[e] = "waiting"
    /\ \/ /\ Fault
          /\ phase' = [phase EXCEPT ![e] = "done"]
          /\ UNCHANGED task
       \/ /\ NoFault
          /\ phase' = [phase EXCEPT ![e] = "processing"]
          /\ Listed(e)
    /\ UNCHANGED <<store, queue, stale, warmed, once, proc, metrics, checked>>

\* sem.Acquire, and the goroutine for one object.  A warm-up run skips the
\* status.
Acquire(s, c) ==
    /\ At(s, c, "listed") /\ HasSlot(s)
    /\ SetTask(s, c, [task[s][c] EXCEPT !.pc = IF s = Warmer THEN "run" ELSE "begin"])
    /\ UNCHANGED <<store, queue, stale, phase, warmed, once, proc, metrics,
                   faults, checked>>

FinishWebhook(e, c) ==
    /\ At(e, c, "finish")
    /\ updateStatus(e, c)
    /\ SetTask(e, c, Idle)
    /\ UNCHANGED <<obj, queue, phase, warmed, once, proc, metrics, checked>>

\* The error of one object is collected, the others go on.
FinishWarmUp(c) ==
    /\ At(Warmer, c, "finish")
    /\ SetTask(Warmer, c, Idle)
    /\ phase' = [phase EXCEPT ![Warmer] =
                    IF task[Warmer][c].result = "failed" THEN "failing" ELSE @]
    /\ UNCHANGED <<store, queue, stale, warmed, once, proc, metrics, faults, checked>>

\* wg.Wait of ProcessImageUpdaterCRs returns.  CacheWarmer.Start closes the
\* channel also when it returns an error.
Wait(s) ==
    /\ proc = "up" /\ phase[s] \in {"processing", "failing"}
    /\ \A c \in CRs : task[s][c].pc = "idle"
    /\ phase' = [phase EXCEPT ![s] = IF @ = "failing" THEN "failed" ELSE "done"]
    /\ warmed' = (warmed \/ s = Warmer)
    /\ UNCHANGED <<store, queue, task, stale, once, proc, metrics, faults, checked>>

\* The manager stops when the warm-up returned an error.
ManagerFails ==
    /\ proc = "up" /\ phase[Warmer] = "failed"
    /\ proc' = "exited"
    /\ UNCHANGED <<store, queue, task, stale, phase, warmed, once, metrics,
                   faults, checked>>

\* Wg.Wait returns, StopChan is closed and the manager is cancelled.
StopManager ==
    /\ proc = "up" /\ watching /\ wg = 0
    /\ proc' = "stopped"
    /\ UNCHANGED <<store, queue, task, stale, phase, warmed, once, metrics,
                   faults, checked>>

\* A RequeueAfter delay is over.
Tick(c) ==
    /\ proc = "up" /\ timer[c]
    /\ timer' = [timer EXCEPT ![c] = FALSE]
    /\ Enqueue(c)
    /\ UNCHANGED <<store, task, stale, phase, warmed, once, proc, metrics,
                   faults, checked>>

-----------------------------------------------------------------------------
(***************************************************************************)
(* Users.  A change of the spec, and the deletion mark, raise the          *)
(* generation and pass GenerationChangedPredicate; the controller's own    *)
(* finalizer and status writes do not.  What users do after the process    *)
(* has stopped for good is of no interest.                                 *)
(***************************************************************************)
UserMay(op, c) ==
    op \in UserOps /\ proc \in {"up", "exited"} /\ obj[c].gen < MaxGen

Create(c) ==
    /\ UserMay("create", c) /\ ~obj[c].present
    /\ \E held \in BOOLEAN :
          /\ held => "hold" \in UserOps
          /\ obj' = [obj EXCEPT ![c] = [present |-> TRUE, gen |-> @.gen + 1,
                        deleting |-> FALSE, finalizer |-> FALSE, foreign |-> held]]
    /\ status' = [status EXCEPT ![c] = NewStatus]
    /\ Enqueue(c)
    /\ Outdate(c)
    /\ UNCHANGED <<timer, task, phase, warmed, once, proc, metrics, faults, checked>>

Edit(c) ==
    /\ UserMay("edit", c) /\ obj[c].present
    /\ obj' = [obj EXCEPT ![c].gen = @ + 1]
    /\ Enqueue(c)
    /\ Outdate(c)
    /\ UNCHANGED <<status, timer, task, phase, warmed, once, proc, metrics,
                   faults, checked>>

Held(c) == obj[c].finalizer \/ obj[c].foreign

Delete(c) ==
    /\ UserMay("delete", c) /\ obj[c].present /\ ~obj[c].deleting
    /\ obj' = [obj EXCEPT ![c].gen = @ + 1,
                          ![c].present = Held(c), ![c].deleting = Held(c)]
    /\ Enqueue(c)
    /\ Outdate(c)
    /\ UNCHANGED <<status, timer, task, phase, warmed, once, proc, metrics,
                   faults, checked>>

\* The owner of another finalizer lets go of an object being deleted.
Release(c) ==
    /\ proc \in {"up", "exited"}
    /\ obj[c].deleting /\ obj[c].foreign
    /\ obj' = [obj EXCEPT ![c].foreign = FALSE,
                          ![c].present = obj[c].finalizer,
                          ![c].deleting = obj[c].finalizer]
    /\ queued' = [queued EXCEPT ![c] = @ \/ ~obj[c].finalizer]
    /\ Outdate(c)
    /\ UNCHANGED <<status, timer, task, phase, warmed, once, proc, metrics,
                   faults, checked>>

-----------------------------------------------------------------------------
ReconcileStep(c) ==
    \/ Finalize(c) \/ RemoveFinalizer(c) \/ StopDeleting(c)
    \/ AddFinalizer(c) \/ Proceed(c) \/ FinishReconcile(c)

RunStep(s, c) ==
    \/ setReconcilingStatus(s, c)
    \/ FilterApplications(s, c)
    \/ UpdateApplications(s, c)

Next ==
    \/ \E c \in CRs : WaitForWarmUp(c) \/ Get(c) \/ ReconcileStep(c) \/ Tick(c)
    \/ \E s \in Sources, c \in CRs : RunStep(s, c)
    \/ ListForWarmUp
    \/ \E e \in Events : ListForWebhook(e)
    \/ \E s \in Listers, c \in CRs : Acquire(s, c)
    \/ \E e \in Events, c \in CRs : FinishWebhook(e, c)
    \/ \E c \in CRs : FinishWarmUp(c)
    \/ \E s \in Listers : Wait(s)
    \/ ManagerFails
    \/ StopManager
    \/ Restart
    \/ \E c \in CRs : Create(c) \/ Edit(c) \/ Delete(c) \/ Release(c)

Spec == Init /\ [][Next]_vars

(***************************************************************************)
(* Go schedules every goroutine, a delay ends, and Kubernetes restarts an  *)
(* exited container: weak fairness.  The work queue is first in, first     *)
(* out, so a name that waits for a worker gets one although others queue   *)
(* again and again: strong fairness of Get.  Nothing makes users act,      *)
(* webhooks arrive or calls fail.                                          *)
(***************************************************************************)
Fairness ==
    /\ \A c \in CRs :
          /\ SF_vars(WaitForWarmUp(c))
          /\ SF_vars(Get(c))
          /\ WF_vars(ReconcileStep(c))
          /\ WF_vars(Tick(c))
          /\ WF_vars(FinishWarmUp(c))
          /\ \A s \in Sources : WF_vars(RunStep(s, c))
          /\ \A s \in Listers : WF_vars(Acquire(s, c))
          /\ \A e \in Events : WF_vars(FinishWebhook(e, c))
    /\ WF_vars(ListForWarmUp)
    /\ \A s \in Listers : WF_vars(Wait(s))
    /\ WF_vars(ManagerFails)
    /\ WF_vars(StopManager)
    /\ WF_vars(proc = "exited" /\ Restart)

FairSpec == Spec /\ Fairness

-----------------------------------------------------------------------------
(***************************************************************************)
(* Properties.                                                             *)
(***************************************************************************)

\* Without webhooks every series belongs to an object that exists and carries
\* the finalizer, so that the finalizer can still remove it: Reconcile adds
\* the finalizer before a run, and the run and the finalizer of one object
\* never overlap (imageupdater_controller.go, steps 1 and 2 of Reconcile).
MetricsBacked ==
    \A c \in metrics : obj[c].present /\ obj[c].finalizer

\* Without webhooks no more than MaxConcurrentReconciles objects are processed
\* at a time, the warm-up included ("Process a maximum of number ImageUpdater custom
\* resources concurrently", docs/install/cmd/run.md).
RunLimit ==
    Cardinality({w \in Sources \X CRs : w[2] \in Running(w[1])}) <= MaxReconciles

\* Reconcile touches an object only after the last warm-up run has ended: the
\* channel CacheWarmed is closed by CacheWarmer.Start on every way out.
WarmUpFirst ==
    (\E c \in CRs : task[Reconciler][c].pc # "idle") =>
        \A c \in CRs : task[Warmer][c].pc = "idle"

\* As long as no call has failed and without webhooks, Reconciling says True
\* exactly while a run of Reconcile is between its two status writes.
ReconcilingExact ==
    faults = 0 => \A c \in CRs : obj[c].present =>
        (status[c].reconciling = "True" <=> c \in Running(Reconciler))

\* The observed generation of an object never goes back, although runs that
\* started from older copies finish in any order: updateStatusAfterReconcile
\* reads the object again before it writes.
ObservedMonotone ==
    [][\A c \in CRs : obj[c].present /\ obj'[c].present =>
          status'[c].observed >= status[c].observed]_vars

\* The finalizer never holds back a deletion for good, whatever conflicts,
\* failed updates and crashes happen on the way.
FinalizerReleased ==
    \A c \in CRs : (obj[c].deleting /\ obj[c].finalizer) ~> ~obj[c].finalizer

\* Every version of a spec is processed, or replaced, or its object deleted:
\* no event is lost in the warm-up gate, in an error or in a crash.
SpecChecked ==
    \A c \in CRs : \A g \in 1 .. MaxGen :
        (obj[c].present /\ ~obj[c].deleting /\ obj[c].gen = g) ~>
            (checked[c] >= g \/ obj[c].gen > g)

\* A condition Reconciling=True left behind by a failed status write or by a
\* crash does not stay: a later check writes it over, unless the object is
\* deleted first.
ReconcilingSettles ==
    \A c \in CRs :
        (obj[c].present /\ status[c].reconciling = "True") ~>
            (~obj[c].present \/ obj[c].deleting \/ status[c].reconciling # "True")

\* Every webhook event the server accepted is worked off, whatever the
\* controller does beside it.
WebhooksDrain ==
    \A e \in Events : (phase[e] = "processing") ~> (phase[e] = "done")

\* How far run-once mode has come, for RunOnce.  A list that failed leaves the
\* process without a count; a panic after the count is no state of RunOnce.
OnceState ==
    IF proc = "up"
    THEN IF watching THEN "processing"
         ELSE IF phase[Warmer] = "waiting" THEN "listing" ELSE "failed"
    ELSE IF proc = "exited" \/ ~watching THEN "failed" ELSE proc

OneShot == INSTANCE RunOnce
           WITH Objects <- CRs, exists <- Present, state <- OnceState,
                listed <- counted, processed <- ended

\* Run-once mode keeps the promise of RunOnce: Reconcile runs to its end at most
\* once for every object the warm-up listed, and the manager is stopped only when
\* it has for all of them ("wait for all CRs to complete",
\* imageupdater_controller.go), however failures and edits fall between.
KeepsRunOnce == OneShot!Spec

\* In run-once mode the manager is stopped only after Reconcile has ended for
\* every object the warm-up listed.
OnceComplete == proc = "stopped" => counted \subseteq ended

\* Wg.Done is never called more often than Wg.Add counted, once the warm-up
\* has counted the objects (Reconcile stores each name in onceCompleted to
\* avoid the panic).
NoPanic == watching => proc # "panicked"

\* In run-once mode the process comes to an end by itself.
OnceStops == Once => <>(proc # "up")
=============================================================================
