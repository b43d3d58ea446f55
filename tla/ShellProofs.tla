---------------------------- MODULE ShellProofs ----------------------------
(***************************************************************************)
(* Facts about ResourceController and NetBoxApi that the proofs about the  *)
(* controllers share: the shell's steps keep its types, whatever steps of  *)
(* its own a controller adds, and which of them touch the worker.          *)
(***************************************************************************)
EXTENDS ResourceController, NetBoxApi, FiniteSetTheorems, TLAPS

\* The record sets of the type invariant.
ShellWorkers(steps) ==
    [pc : {"idle", "get", "status", "write"} \cup steps,
     key : Keys \cup {Nil}, spec : Specs \cup {Nil},
     err : BOOLEAN, timer : BOOLEAN, fresh : BOOLEAN]

Statuses == [enabled : BOOLEAN, current : BOOLEAN, err : BOOLEAN]

\* The types, and what they do not say: a worker at work has a key and a spec.
ShellInv(steps) ==
    /\ StoreTypeOK
    /\ q \in [Keys -> QueueState]
    /\ cfgEvent \in BOOLEAN
    /\ w \in ShellWorkers(steps)
    /\ status \in Statuses
    /\ w.pc # "idle" => w.key \in Keys /\ w.spec \in Specs
-----------------------------------------------------------------------------
\* Events keep the type of the queue (ControllerQueue).
LEMMA QueueAdd ==
    ASSUME NEW queue \in [Keys -> QueueState], NEW K
    PROVE  Add(queue, K) \in [Keys -> QueueState]
BY DEF Add, QueueState

\* So do the worker's and the timers' operations on it.
LEMMA QueueOps ==
    ASSUME NEW queue \in [Keys -> QueueState], NEW k \in Keys
    PROVE  /\ AddAfter(queue, k) \in [Keys -> QueueState]
           /\ Take(queue, k) \in [Keys -> QueueState]
           /\ Elapse(queue, k) \in [Keys -> QueueState]
BY DEF AddAfter, Take, Elapse, QueueState

\* So do the first events of a new process (SetupWithManager).
LEMMA FirstEventsType ==
    ASSUME NEW existing
    PROVE  FirstEvents(existing) \in [Keys -> QueueState]
BY DEF FirstEvents, QueueState

\* What Reconcile leaves behind when it returns.
LEMMA ReturnTypes ==
    ASSUME q \in [Keys -> QueueState], w.key \in Keys, ReturnResult \/ ReturnError
    PROVE  q' \in [Keys -> QueueState] /\ w' = IdleWorker
<1>1. AddAfter(q, w.key) \in [Keys -> QueueState]
  BY QueueOps
<1> QED
  BY <1>1 DEF ReturnResult, ReturnError

\* A worker between two reconciles.
LEMMA ShellIdle ==
    ASSUME NEW steps
    PROVE  /\ IdleWorker \in ShellWorkers(steps)
           /\ IdleWorker.pc = "idle"
           /\ EmptyStatus \in Statuses
BY DEF IdleWorker, ShellWorkers, EmptyStatus, Statuses

\* A new process (main.go).
LEMMA ShellInitTypes ==
    ASSUME NEW steps, NEW existing, StoreInit, ShellInit(existing)
    PROVE  ShellInv(steps)
BY ShellIdle, FirstEventsType DEF StoreInit, StoreTypeOK, ShellInit, ShellInv

\* A step that leaves the shell alone.
LEMMA ShellUnchanged ==
    ASSUME NEW steps, ShellInv(steps), UNCHANGED <<storeVars, shellVars>>
    PROVE  ShellInv(steps)'
BY DEF ShellInv, storeVars, shellVars, StoreTypeOK

\* Taking a key, or polling while the Store is empty.
LEMMA ShellTake ==
    ASSUME NEW steps, ShellInv(steps), NEW k \in Keys, PollStore(k) \/ StartReconcile(k)
    PROVE  ShellInv(steps)'
<1>1. Take(q, k) \in [Keys -> QueueState]
  BY QueueOps DEF ShellInv
<1>2. CASE PollStore(k)
  <2>1. q' \in [Keys -> QueueState]
    BY <1>1, <1>2, QueueOps DEF PollStore
  <2> QED
    BY <1>2, <2>1 DEF PollStore, ShellInv, storeVars, StoreTypeOK
<1>3. CASE StartReconcile(k)
  <2>1. w' \in ShellWorkers(steps) /\ w'.key = k /\ w'.spec = store
    BY <1>3 DEF StartReconcile, IdleWorker, ShellWorkers, ShellInv, StoreTypeOK
  <2>2. store \in Specs
    BY <1>3 DEF StartReconcile, ShellInv, StoreTypeOK
  <2> QED
    BY <1>1, <1>3, <2>1, <2>2 DEF StartReconcile, ShellInv, storeVars, StoreTypeOK
<1> QED
  BY <1>2, <1>3

\* The user and the config controller.
LEMMA ShellConfig ==
    ASSUME NEW steps, ShellInv(steps),
           StoreStep \/ \E spec \in Specs \cup {Nil} : EditConfig(spec)
    PROVE  ShellInv(steps)'
<1>1. CASE StoreStep
  <2>1. StoreTypeOK'
    BY <1>1 DEF StoreStep, ControllerStep, ReadConfig, Publish, Clear, CalmDown,
                StoreTypeOK, ShellInv
  <2> QED
    BY <1>1, <2>1 DEF StoreStep, shellVars, ShellInv
<1>2. ASSUME NEW spec \in Specs \cup {Nil}, EditConfig(spec)
      PROVE  ShellInv(steps)'
  <2>1. StoreTypeOK'
    BY <1>2 DEF EditConfig, ChangeConfig, StoreTypeOK, ShellInv
  <2>2. w' \in ShellWorkers(steps) /\ w'.pc = w.pc /\ w'.key = w.key /\ w'.spec = w.spec
    BY <1>2 DEF EditConfig, ShellWorkers, ShellInv
  <2>3. status' \in Statuses
    BY <1>2, ShellIdle DEF EditConfig, Statuses, ShellInv
  <2> QED
    BY <1>2, <2>1, <2>2, <2>3 DEF EditConfig, ShellInv
<1> QED
  BY <1>1, <1>2

\* The watch on HeraldConfigs, timers and writes of other controllers.
LEMMA ShellEvents ==
    ASSUME NEW steps, ShellInv(steps), NEW existing,
           \/ DeliverConfigEvent(existing) \/ LoseConfigEvent \/ OtherStatusWrite
           \/ \E k \in Keys : TimerFires(k) \/ CacheResync(k, existing)
    PROVE  ShellInv(steps)'
<1>1. CASE OtherStatusWrite
  <2>1. w' \in ShellWorkers(steps) /\ w'.pc = w.pc /\ w'.key = w.key /\ w'.spec = w.spec
    BY <1>1 DEF OtherStatusWrite, ShellWorkers, ShellInv
  <2> QED
    BY <1>1, <2>1 DEF OtherStatusWrite, storeVars, StoreTypeOK, ShellInv
<1>2. CASE LoseConfigEvent
  BY <1>2 DEF LoseConfigEvent, storeVars, StoreTypeOK, ShellInv
<1>3. CASE DeliverConfigEvent(existing)
  <2>1. q' \in [Keys -> QueueState]
    BY <1>3, QueueAdd DEF DeliverConfigEvent, ShellInv
  <2> QED
    BY <1>3, <2>1 DEF DeliverConfigEvent, storeVars, StoreTypeOK, ShellInv
<1>4. ASSUME NEW k \in Keys, TimerFires(k) \/ CacheResync(k, existing)
      PROVE  ShellInv(steps)'
  <2>1. q' \in [Keys -> QueueState]
    BY <1>4, QueueAdd, QueueOps DEF TimerFires, CacheResync, ShellInv
  <2> QED
    BY <1>4, <2>1 DEF TimerFires, CacheResync, storeVars, StoreTypeOK, ShellInv
<1> QED
  BY <1>1, <1>2, <1>3, <1>4

\* A new process takes over.
LEMMA ShellRestartTypes ==
    ASSUME NEW steps, ShellInv(steps), NEW existing, ShellRestart(existing)
    PROVE  ShellInv(steps)' /\ w' = IdleWorker
BY ShellIdle, FirstEventsType DEF ShellRestart, StoreRestart, StoreTypeOK, ShellInv

\* The worker goes on to a step of its own.
LEMMA ShellProceed ==
    ASSUME NEW steps, ShellInv(steps), w.pc # "idle", NEW pc \in steps, Proceed(pc)
    PROVE  /\ ShellInv(steps)'
           /\ w'.pc = pc /\ w'.key = w.key /\ w'.spec = w.spec /\ w'.fresh = w.fresh
<1>1. /\ w' \in ShellWorkers(steps)
      /\ w'.pc = pc /\ w'.key = w.key /\ w'.spec = w.spec /\ w'.fresh = w.fresh
  BY DEF Proceed, ShellWorkers, ShellInv
<1> QED
  BY <1>1 DEF Proceed, ShellInv, storeVars, StoreTypeOK

\* Reconcile returns.
LEMMA ShellReturn ==
    ASSUME NEW steps, ShellInv(steps), w.pc # "idle", ReturnResult \/ ReturnError,
           UNCHANGED <<storeVars, cfgEvent>>, status' \in Statuses
    PROVE  ShellInv(steps)' /\ w' = IdleWorker
<1>1. q' \in [Keys -> QueueState] /\ w' = IdleWorker
  BY ReturnTypes DEF ShellInv
<1> QED
  BY <1>1, ShellIdle DEF ShellInv, storeVars, StoreTypeOK

\* An event queues keys.
LEMMA ShellQueued ==
    ASSUME NEW steps, ShellInv(steps), NEW K, q' = Add(q, K),
           UNCHANGED <<storeVars, cfgEvent, w, status>>
    PROVE  ShellInv(steps)'
<1>1. q' \in [Keys -> QueueState]
  BY QueueAdd DEF ShellInv
<1> QED
  BY <1>1 DEF ShellInv, storeVars, StoreTypeOK

\* The work is over, well or badly.
LEMMA ShellEnd ==
    ASSUME NEW steps, ShellInv(steps), w.pc # "idle",
           Fail \/ \E timer \in BOOLEAN : Succeed(timer)
    PROVE  /\ ShellInv(steps)'
           /\ w'.pc = "status" /\ w'.key = w.key /\ w'.spec = w.spec
           /\ Fail => w'.err
<1>1. /\ w' \in ShellWorkers(steps)
      /\ w'.pc = "status" /\ w'.key = w.key /\ w'.spec = w.spec
      /\ Fail => w'.err
  BY DEF Fail, Succeed, ShellWorkers, ShellInv
<1> QED
  BY <1>1 DEF Fail, Succeed, ShellInv, storeVars, StoreTypeOK

\* The status is written, and Reconcile returns.
LEMMA ShellReport ==
    ASSUME NEW steps, ShellInv(steps), \A spec \in Specs : spec.enabled \in BOOLEAN,
           GetFails \/ ReportStep \/ ReportFault
    PROVE  /\ ShellInv(steps)'
           /\ \/ w' = IdleWorker
              \/ /\ ReportStep
                 /\ w.pc = "status" /\ w'.pc = "write"
                 /\ w'.key = w.key /\ w'.spec = w.spec /\ w'.err = w.err
<1>1. CASE ReadForStatus
  <2>1. /\ w' \in ShellWorkers(steps)
        /\ w.pc = "status" /\ w'.pc = "write"
        /\ w'.key = w.key /\ w'.spec = w.spec /\ w'.err = w.err
    BY <1>1 DEF ReadForStatus, ShellWorkers, ShellInv
  <2> QED
    BY <1>1, <2>1 DEF ReportStep, ReadForStatus, ShellInv, storeVars, StoreTypeOK
<1>2. CASE ~ReadForStatus
  <2>1. w.pc # "idle"
    BY <1>2 DEF ReportStep, ReportFault, GetFails, SkipStatus, WriteStatus, StatusConflict,
                ReadForStatusFails, WriteStatusFails
  <2>2. Report \in Statuses
    BY <2>1 DEF Report, Statuses, ShellInv, ShellWorkers
  <2>3. /\ status' \in Statuses
        /\ ReturnResult \/ ReturnError
        /\ UNCHANGED <<storeVars, cfgEvent>>
    BY <1>2, <2>2
       DEF ReportStep, ReportFault, GetFails, SkipStatus, WriteStatus, StatusConflict,
           ReadForStatusFails, WriteStatusFails, ShellInv
  <2> QED
    BY <2>1, <2>3, ShellReturn
<1> QED
  BY <1>1, <1>2

\* Users, timers and other controllers leave the worker where it is.
LEMMA ShellKeepsWorker ==
    ASSUME NEW steps, ShellInv(steps), NEW existing,
           \/ StoreStep \/ \E spec \in Specs \cup {Nil} : EditConfig(spec)
           \/ DeliverConfigEvent(existing) \/ LoseConfigEvent \/ OtherStatusWrite
           \/ \E k \in Keys : TimerFires(k) \/ CacheResync(k, existing)
    PROVE  w'.pc = w.pc /\ w'.key = w.key /\ w'.spec = w.spec /\ w'.err = w.err
BY DEF StoreStep, shellVars, EditConfig, DeliverConfigEvent, LoseConfigEvent, OtherStatusWrite,
       TimerFires, CacheResync, ShellInv, ShellWorkers
-----------------------------------------------------------------------------
\* With Ids no larger than a page, a list returns all there is.
LEMMA WholePage ==
    ASSUME Cardinality(Ids) <= PageSize, NEW S, S \subseteq Ids
    PROVE  Pages(S) = {S}
<1>1. Cardinality(S) \in Nat /\ Cardinality(Ids) \in Nat /\ Cardinality(S) <= Cardinality(Ids)
  BY NetBoxAssumption, FS_Subset, FS_CardinalityType DEF NetBoxAssumption
<1>2. Cardinality(S) <= PageSize
  BY <1>1, NetBoxAssumption DEF NetBoxAssumption
<1> QED
  BY <1>2 DEF Pages

=============================================================================
