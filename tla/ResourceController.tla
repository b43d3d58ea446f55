------------------------- MODULE ResourceController -------------------------
(***************************************************************************)
(* The shell every resource controller (service_controller.go,             *)
(* node_controller.go, ...) repeats around its own work: a worker takes a  *)
(* key and reads the Store; polls while the Store is empty; reports the    *)
(* outcome in status.resources of the HeraldConfig; and asks for the next  *)
(* reconcile or does not.  A controller's module extends this one and adds *)
(* the work itself.                                                        *)
(*                                                                         *)
(* There is one worker per controller (controller-runtime's default) and   *)
(* one process at a time (leader election).  Reads of Kubernetes objects   *)
(* come from the informer cache, which is updated before an event is       *)
(* queued.                                                                 *)
(***************************************************************************)
EXTENDS ConfigStore, ControllerQueue

CONSTANTS
    Keys        \* the objects of the controller, by reconcile key

ASSUME KeysAssumption == Nil \notin Keys

VARIABLES
    q,          \* the controller's work queue
    cfgEvent,   \* a HeraldConfig event waits for the controller's handler
    w,          \* the worker, see IdleWorker
    status      \* status.resources.<type>: see EmptyStatus

shellVars == <<q, cfgEvent, w, status>>

\* spec is the snapshot Store.Get returned, err the outcome to report, timer
\* whether RequeueAfter is to be returned, and fresh whether the HeraldConfig
\* read for the status is still its latest version.
IdleWorker ==
    [pc |-> "idle", key |-> Nil, spec |-> Nil,
     err |-> FALSE, timer |-> FALSE, fresh |-> FALSE]

\* current: ObservedGeneration is the HeraldConfig's generation.
EmptyStatus == [enabled |-> FALSE, current |-> FALSE, err |-> FALSE]

\* The type of the shell for a controller whose own work has these steps.
ShellTypeOK(steps) ==
    /\ q \in [Keys -> QueueState]
    /\ cfgEvent \in BOOLEAN
    /\ w \in [pc : {"idle", "get", "status", "write"} \cup steps,
              key : Keys \cup {Nil}, spec : Specs \cup {Nil},
              err : BOOLEAN, timer : BOOLEAN, fresh : BOOLEAN]
    /\ status \in [enabled : BOOLEAN, current : BOOLEAN, err : BOOLEAN]

\* The informers report every object that exists to a new process.
FirstEvents(existing) ==
    [k \in Keys |-> IF k \in existing THEN "ready" ELSE "absent"]

ShellInit(existing) ==
    /\ q = FirstEvents(existing)
    /\ cfgEvent = FALSE
    /\ w = IdleWorker
    /\ status = EmptyStatus
-----------------------------------------------------------------------------
(* The environment *)

\* The store's own steps leave the controllers alone.
StoreStep == (ControllerStep \/ CalmDown) /\ UNCHANGED shellVars

\* The user changes the HeraldConfig: an event is on its way, the observed
\* generation is no longer current, and a version read before is outdated.
EditConfig(spec) ==
    /\ ChangeConfig(spec)
    /\ cfgEvent' = TRUE
    /\ w' = [w EXCEPT !.fresh = FALSE]
    /\ status' = IF cr = Nil \/ spec = Nil
                 THEN EmptyStatus ELSE [status EXCEPT !.current = FALSE]
    /\ UNCHANGED q

\* EnqueueRequestsFromMapFunc: every object known now is queued.
DeliverConfigEvent(existing) ==
    /\ cfgEvent
    /\ cfgEvent' = FALSE
    /\ q' = Add(q, existing)
    /\ UNCHANGED <<storeVars, w, status>>

\* The handler's List fails: it logs, and the event is lost.
LoseConfigEvent ==
    /\ May("kube")
    /\ cfgEvent
    /\ cfgEvent' = FALSE
    /\ UNCHANGED <<storeVars, q, w, status>>

\* Another controller updates the HeraldConfig's status.
OtherStatusWrite ==
    /\ "status" \in Disturb
    /\ w.fresh
    /\ w' = [w EXCEPT !.fresh = FALSE]
    /\ UNCHANGED <<storeVars, q, cfgEvent, status>>

\* A delay is over.
TimerFires(k) ==
    /\ q[k] = "delayed"
    /\ q' = Elapse(q, k)
    /\ UNCHANGED <<storeVars, cfgEvent, w, status>>

\* Something else asks for an object that exists to be looked at, again and
\* again: the informers' own resync (10 hours unless configured), or a Node's
\* heartbeat.
CacheResync(k, existing) ==
    /\ "resync" \in Disturb
    /\ k \in existing
    /\ q' = Add(q, {k})
    /\ UNCHANGED <<storeVars, cfgEvent, w, status>>

\* The process dies and another one takes over; the queue was in memory.
ShellRestart(existing) ==
    /\ StoreRestart
    /\ q' = FirstEvents(existing)
    /\ cfgEvent' = FALSE
    /\ w' = IdleWorker
    /\ UNCHANGED status
-----------------------------------------------------------------------------
(* The worker *)

\* Mutant: the reconcile waits for an event instead of polling.
AwaitStore(k) ==
    /\ w.pc = "idle"
    /\ q[k] = "ready"
    /\ store = Nil
    /\ q' = Take(q, k)
    /\ UNCHANGED <<storeVars, cfgEvent, w, status>>

\* The Store is empty: look again after storeNotReadyPollInterval.
PollStore(k) ==
    /\ w.pc = "idle"
    /\ q[k] = "ready"
    /\ store = Nil
    /\ q' = AddAfter(Take(q, k), k)
    /\ UNCHANGED <<storeVars, cfgEvent, w, status>>

\* Store.Get returns the spec the whole reconcile works with.
StartReconcile(k) ==
    /\ w.pc = "idle"
    /\ q[k] = "ready"
    /\ store # Nil
    /\ q' = Take(q, k)
    /\ w' = [IdleWorker EXCEPT !.pc = "get", !.key = k, !.spec = store]
    /\ UNCHANGED <<storeVars, cfgEvent, status>>

\* The worker goes on with step pc.
Proceed(pc) ==
    /\ w' = [w EXCEPT !.pc = pc]
    /\ UNCHANGED <<storeVars, q, cfgEvent, status>>

\* The work is done; timer: RequeueAfter is to follow once it is reported.
Succeed(timer) ==
    /\ w' = [w EXCEPT !.pc = "status", !.timer = timer]
    /\ UNCHANGED <<storeVars, q, cfgEvent, status>>

\* The work failed: what is returned is Result{} and the outcome of the status
\* update, not the error.
Fail ==
    /\ w' = [w EXCEPT !.pc = "status", !.err = TRUE, !.timer = FALSE]
    /\ UNCHANGED <<storeVars, q, cfgEvent, status>>

\* Reconcile returns without an error.
ReturnResult ==
    /\ w' = IdleWorker
    /\ q' = IF w.timer THEN AddAfter(q, w.key) ELSE q

\* Reconcile returns an error: the key backs off and is tried again.
ReturnError ==
    /\ w' = IdleWorker
    /\ q' = AddAfter(q, w.key)

\* r.Get of the object fails with something else than NotFound.
GetFails ==
    /\ May("kube")
    /\ w.pc = "get"
    /\ ReturnError
    /\ UNCHANGED <<storeVars, cfgEvent, status>>

\* Reading the HeraldConfig for the status: gone, or the Store was emptied
\* since - then nothing is reported.
SkipStatus ==
    /\ w.pc = "status"
    /\ cr = Nil \/ store = Nil
    /\ ReturnResult
    /\ UNCHANGED <<storeVars, cfgEvent, status>>

ReadForStatus ==
    /\ w.pc = "status"
    /\ cr # Nil
    /\ store # Nil
    /\ w' = [w EXCEPT !.pc = "write", !.fresh = TRUE]
    /\ UNCHANGED <<storeVars, q, cfgEvent, status>>

ReadForStatusFails ==
    /\ May("kube")
    /\ w.pc = "status"
    /\ ReturnError
    /\ UNCHANGED <<storeVars, cfgEvent, status>>

\* Mutant: an error reported once is never taken back.
ReportKeepsError ==
    [enabled |-> w.spec.enabled, current |-> TRUE, err |-> w.err \/ status.err]

\* The spec is the one of the Store, the generation that of the HeraldConfig.
Report == [enabled |-> w.spec.enabled, current |-> TRUE, err |-> w.err]

\* Status().Update.
WriteStatus ==
    /\ w.pc = "write"
    /\ w.fresh
    /\ status' = Report
    /\ ReturnResult
    /\ UNCHANGED <<storeVars, cfgEvent>>

\* The update conflicts with a newer version of the HeraldConfig.
StatusConflict ==
    /\ w.pc = "write"
    /\ ~w.fresh
    /\ ReturnError
    /\ UNCHANGED <<storeVars, cfgEvent, status>>

\* The update fails, or its answer is lost.
WriteStatusFails ==
    /\ May("kube")
    /\ w.pc = "write"
    /\ w.fresh
    /\ status' \in {status, Report}
    /\ ReturnError
    /\ UNCHANGED <<storeVars, cfgEvent>>

ReportStep == SkipStatus \/ ReadForStatus \/ WriteStatus \/ StatusConflict
ReportFault == ReadForStatusFails \/ WriteStatusFails

=============================================================================
