------------------------- MODULE HeraldConfigProofs -------------------------
(***************************************************************************)
(* Theorems about HeraldConfig, for every set of specs, slugs and          *)
(* disturbances: what the Store holds can be used, and every step is a     *)
(* step of ConfigStore.                                                    *)
(***************************************************************************)
EXTENDS HeraldConfig, TLAPS

(***************************************************************************)
(* What the types and the Store do not say of the worker: once it has read *)
(* a HeraldConfig it holds a spec, it holds Nil when it read none, it      *)
(* creates a tag only when there is none of this slug, and it gets to the  *)
(* custom field only when the tag exists.  The tags are those of specs.    *)
(***************************************************************************)
WorkerOK ==
    /\ hw.pc \in {"load", "version", "tag", "createTag", "field", "createField"}
          => hw.spec \in Specs
    /\ hw.pc = "gone" => hw.spec = Nil
    /\ hw.pc = "createTag" => hw.spec.slug \notin tags
    /\ hw.pc \in {"field", "createField"} => hw.spec.slug \in tags
    /\ \A t \in tags : \E s \in Specs : s.slug = t

\* The inductive invariant.
ConfigInv == HeraldConfigTypeOK /\ WorkerOK /\ PublishedIsBootstrapped
-----------------------------------------------------------------------------
\* The queue's operations keep its type (ControllerQueue).
LEMMA QueueOps ==
    ASSUME NEW qu \in [Names -> QueueState], NEW n \in Names, NEW K
    PROVE  /\ Add(qu, K) \in [Names -> QueueState]
           /\ AddAfter(qu, n) \in [Names -> QueueState]
           /\ Take(qu, n) \in [Names -> QueueState]
           /\ Elapse(qu, n) \in [Names -> QueueState]
BY DEF Add, AddAfter, Take, Elapse, QueueState

\* So do the first events of a new process (SetupWithManager).
LEMMA FirstEventsType ==
    ASSUME NEW exists \in BOOLEAN
    PROVE  FirstEvents(exists) \in [Names -> QueueState]
BY DEF FirstEvents, QueueState

\* The invariant holds in a new process (main.go: NewStore).
LEMMA InitInv == Init => ConfigInv
<1> SUFFICES ASSUME Init PROVE ConfigInv
  OBVIOUS
<1>1. FirstEvents(cr # Nil) \in [Names -> QueueState]
  BY FirstEventsType
<1>2. HeraldConfigTypeOK
  BY <1>1 DEF Init, HeraldConfigTypeOK, IdleWorker
<1>3. WorkerOK /\ PublishedIsBootstrapped
  BY DEF Init, WorkerOK, PublishedIsBootstrapped, IdleWorker
<1> QED
  BY <1>2, <1>3 DEF ConfigInv

\* Users, other controllers, timers and restarts preserve the invariant.
LEMMA EnvironmentInv ==
    ASSUME ConfigInv,
           \/ CalmDown
           \/ \E spec \in Specs \cup {Nil} : ChangeConfig(spec)
           \/ \E n \in OtherNames : ChangeOther(n) \/ IgnoreOther(n)
           \/ OtherStatusWrite
           \/ \E n \in Names : ElapseConfig(n)
           \/ Restart
    PROVE  ConfigInv'
<1> USE DEF ConfigInv, HeraldConfigTypeOK, WorkerOK, PublishedIsBootstrapped
<1>1. CASE CalmDown
  BY <1>1 DEF CalmDown
<1>2. ASSUME NEW spec \in Specs \cup {Nil}, ChangeConfig(spec) PROVE ConfigInv'
  <2>1. Add(queue, {Singleton}) \in [Names -> QueueState]
    BY QueueOps DEF Names
  <2> QED
    BY <1>2, <2>1 DEF ChangeConfig
<1>3. ASSUME NEW n \in OtherNames, ChangeOther(n) PROVE ConfigInv'
  <2>1. Add(queue, {n}) \in [Names -> QueueState]
    BY QueueOps DEF Names
  <2> QED
    BY <1>3, <2>1 DEF ChangeOther
<1>4. ASSUME NEW n \in OtherNames, IgnoreOther(n) PROVE ConfigInv'
  <2>1. Take(queue, n) \in [Names -> QueueState]
    BY QueueOps DEF Names
  <2> QED
    BY <1>4, <2>1 DEF IgnoreOther
<1>5. CASE OtherStatusWrite
  BY <1>5 DEF OtherStatusWrite
<1>6. ASSUME NEW n \in Names, ElapseConfig(n) PROVE ConfigInv'
  BY <1>6, QueueOps DEF ElapseConfig
<1>7. CASE Restart
  BY <1>7, ConfigAssumption, FirstEventsType DEF Restart, IdleWorker
<1> QED
  BY <1>1, <1>2, <1>3, <1>4, <1>5, <1>6, <1>7

\* The reconcile's calls up to Store.Set preserve the invariant.
LEMMA BootstrapInv ==
    ASSUME ConfigInv,
           \/ GetConfig \/ GetConfigFails \/ ForgetConfig \/ LoadConfig \/ CheckVersion
           \/ ListTags \/ CreateTag \/ TagRefused \/ ListFields \/ CreateField
    PROVE  ConfigInv'
<1> USE DEF ConfigInv, HeraldConfigTypeOK, WorkerOK, PublishedIsBootstrapped, Busy, GoTo
<1>1. CASE GetConfig
  <2>1. Take(queue, Singleton) \in [Names -> QueueState]
    BY QueueOps DEF Names
  <2> QED
    BY <1>1, <2>1 DEF GetConfig
<1>2. CASE GetConfigFails
  <2>1. AddAfter(Take(queue, Singleton), Singleton) \in [Names -> QueueState]
    BY QueueOps DEF Names
  <2> QED
    BY <1>2, <2>1 DEF GetConfigFails
<1>3. CASE ForgetConfig
  BY <1>3, ConfigAssumption DEF ForgetConfig, IdleWorker
<1>4. CASE LoadConfig
  BY <1>4 DEF LoadConfig
<1>5. CASE CheckVersion
  BY <1>5 DEF CheckVersion
<1>6. CASE ListTags
  BY <1>6 DEF ListTags
<1>7. CASE CreateTag
  <2>1. hw.spec \in Specs /\ hw.spec.slug \in Slugs
    BY <1>7, ConfigAssumption DEF CreateTag
  <2> QED
    BY <1>7, <2>1 DEF CreateTag
<1>8. CASE ListFields
  BY <1>8 DEF ListFields, SetStore
<1>9. CASE CreateField
  BY <1>9 DEF CreateField, SetStore
<1>10. CASE TagRefused
  BY <1>10 DEF TagRefused, ReportUnreachable
<1> QED
  BY <1>1, <1>2, <1>3, <1>4, <1>5, <1>6, <1>7, <1>8, <1>9, <1>10

\* Failing calls and the status updates preserve the invariant.
LEMMA OutcomeInv ==
    ASSUME ConfigInv,
           CallFails \/ WriteReady \/ WriteReadyFails \/ WriteNotReady
    PROVE  ConfigInv'
<1> USE DEF ConfigInv, HeraldConfigTypeOK, WorkerOK, PublishedIsBootstrapped, Busy, GoTo
<1>0. AddAfter(queue, Singleton) \in [Names -> QueueState]
  BY QueueOps DEF Names
<1>1. CASE CallFails
  <2>1. hw.spec \in Specs /\ hw.spec.slug \in Slugs
    BY <1>1, ConfigAssumption DEF CallFails
  <2>2. tags' \in SUBSET Slugs /\ field' \in BOOLEAN
    BY <1>1, <2>1 DEF CallFails
  <2> QED
    BY <1>1, <2>2 DEF CallFails, ReportUnreachable
<1>2. CASE WriteReady
  BY <1>0, <1>2, ConfigAssumption DEF WriteReady, IdleWorker
<1>3. CASE WriteReadyFails
  BY <1>0, <1>3, ConfigAssumption DEF WriteReadyFails, IdleWorker
<1>4. CASE WriteNotReady
  BY <1>0, <1>4, ConfigAssumption DEF WriteNotReady, IdleWorker
<1> QED
  BY <1>1, <1>2, <1>3, <1>4

\* The invariant is inductive.
LEMMA NextInv == ConfigInv /\ [Next]_vars => ConfigInv'
<1> SUFFICES ASSUME ConfigInv, [Next]_vars PROVE ConfigInv'
  OBVIOUS
<1>1. CASE UNCHANGED vars
  BY <1>1 DEF vars, ConfigInv, HeraldConfigTypeOK, WorkerOK, PublishedIsBootstrapped
<1>2. CASE Next
  BY <1>2, EnvironmentInv, BootstrapInv, OutcomeInv DEF Next, ReconcileStep
<1> QED
  BY <1>1, <1>2

(***************************************************************************)
(* The invariant of HeraldConfigReconciler's worker and Store.             *)
(***************************************************************************)
THEOREM ConfigInvariant == Spec => []ConfigInv
BY InitInv, NextInv, PTL DEF Spec

(***************************************************************************)
(* Every variable of HeraldConfigReconciler's model keeps its type.        *)
(***************************************************************************)
THEOREM ConfigTypes == Spec => []HeraldConfigTypeOK
<1>1. ConfigInv => HeraldConfigTypeOK
  BY DEF ConfigInv
<1> QED
  BY <1>1, ConfigInvariant, PTL

(***************************************************************************)
(* What a resource controller finds in the Store names a tag that exists   *)
(* in NetBox, and so does the external-ID field: Reconcile publishes only  *)
(* after the bootstrap, whatever is edited, lost or restarted meanwhile.   *)
(***************************************************************************)
THEOREM StoreIsBootstrapped == Spec => []PublishedIsBootstrapped
<1>1. ConfigInv => PublishedIsBootstrapped
  BY DEF ConfigInv
<1> QED
  BY <1>1, ConfigInvariant, PTL

-----------------------------------------------------------------------------
(* The steps of the Store's specification. *)

\* A new process starts with the Store as ConfigStore has it.
LEMMA InitRefines == Init => Abstract!StoreInit
BY DEF Init, Abstract!StoreInit, Reading, IdleWorker

\* Steps of the environment are steps of the abstract Store or leave it alone.
LEMMA EnvironmentRefines ==
    ASSUME ConfigInv,
           \/ CalmDown
           \/ \E spec \in Specs \cup {Nil} : ChangeConfig(spec)
           \/ \E n \in OtherNames : ChangeOther(n) \/ IgnoreOther(n)
           \/ OtherStatusWrite
           \/ \E n \in Names : ElapseConfig(n)
           \/ Restart
    PROVE  [Abstract!StoreNext]_<<cr, Reading, store, quiet>>
<1> USE DEF Abstract!StoreNext, May, Abstract!May
<1>1. CASE CalmDown
  BY <1>1 DEF CalmDown, Abstract!CalmDown, Reading
<1>2. ASSUME NEW spec \in Specs \cup {Nil}, ChangeConfig(spec)
      PROVE  Abstract!StoreNext
  <2>1. Reading' = Reading
    BY <1>2 DEF ChangeConfig, Reading, ConfigInv, HeraldConfigTypeOK
  <2>2. Abstract!ChangeConfig(spec)
    BY <1>2, <2>1 DEF ChangeConfig, Abstract!ChangeConfig
  <2> QED
    BY <2>2
<1>3. ASSUME NEW n \in OtherNames, ChangeOther(n) \/ IgnoreOther(n)
      PROVE  UNCHANGED <<cr, Reading, store, quiet>>
  BY <1>3 DEF ChangeOther, IgnoreOther, Reading
<1>4. CASE OtherStatusWrite
  <2>1. Reading' = Reading
    BY <1>4 DEF OtherStatusWrite, Reading, ConfigInv, HeraldConfigTypeOK
  <2> QED
    BY <1>4, <2>1 DEF OtherStatusWrite
<1>5. ASSUME NEW n \in Names, ElapseConfig(n)
      PROVE  UNCHANGED <<cr, Reading, store, quiet>>
  BY <1>5 DEF ElapseConfig, Reading
<1>6. CASE Restart
  <2>1. Abstract!StoreRestart
    BY <1>6 DEF Restart, Abstract!StoreRestart, Reading, IdleWorker
  <2> QED
    BY <2>1
<1> QED
  BY <1>1, <1>2, <1>3, <1>4, <1>5, <1>6

\* So are the steps of the reconcile.
LEMMA ReconcileRefines ==
    ASSUME ConfigInv,
           GetConfig \/ GetConfigFails \/ ReconcileStep \/ CallFails
    PROVE  [Abstract!StoreNext]_<<cr, Reading, store, quiet>>
<1> USE DEF Abstract!StoreNext, Abstract!ControllerStep, Busy
<1>0. hw \in [pc : {"idle", "gone", "load", "version", "tag", "createTag", "field",
                     "createField", "write", "writeDown"},
               spec : Specs \cup {Nil}, fresh : BOOLEAN]
  BY DEF ConfigInv, HeraldConfigTypeOK
<1>1. CASE GetConfig
  <2>1. Abstract!ReadConfig
    BY <1>1 DEF GetConfig, Abstract!ReadConfig, Reading
  <2> QED
    BY <2>1
<1>2. CASE GetConfigFails
  BY <1>2 DEF GetConfigFails, Reading
<1>3. CASE ForgetConfig
  <2>1. Reading = {Nil} /\ Reading' = {}
    BY <1>3 DEF ForgetConfig, Reading, IdleWorker, ConfigInv, WorkerOK
  <2>2. Abstract!Clear
    BY <1>3, <2>1 DEF ForgetConfig, Abstract!Clear
  <2> QED
    BY <2>2
<1>4. CASE LoadConfig \/ CheckVersion \/ ListTags \/ CreateTag
  <2>1. Reading' = Reading
    BY <1>0, <1>4 DEF LoadConfig, CheckVersion, ListTags, CreateTag, GoTo, Reading
  <2> QED
    BY <1>4, <2>1 DEF LoadConfig, CheckVersion, ListTags, CreateTag
<1>5. ASSUME hw.pc \in {"field", "createField"}, SetStore, UNCHANGED <<cr, quiet>>
      PROVE  Abstract!StoreNext
  <2>1. Reading = {hw.spec} /\ Reading' = {} /\ hw.spec # Nil
    BY <1>0, <1>5, ConfigAssumption DEF SetStore, GoTo, Reading, ConfigInv, WorkerOK
  <2>2. Abstract!Publish
    BY <1>5, <2>1 DEF SetStore, Abstract!Publish
  <2> QED
    BY <2>2
<1>6. CASE ListFields
  <2>1. CASE field
    BY <1>5, <1>6, <2>1 DEF ListFields
  <2>2. CASE ~field
    <3>1. Reading' = Reading
      BY <1>0, <1>6, <2>2 DEF ListFields, GoTo, Reading
    <3> QED
      BY <1>6, <2>2, <3>1 DEF ListFields
  <2> QED
    BY <2>1, <2>2
<1>7. CASE CreateField
  BY <1>5, <1>7 DEF CreateField
<1>8. CASE WriteReady \/ WriteReadyFails \/ WriteNotReady
  <2>1. Reading = {} /\ Reading' = {}
    BY <1>8 DEF WriteReady, WriteReadyFails, WriteNotReady, Reading, IdleWorker
  <2> QED
    BY <1>8, <2>1 DEF WriteReady, WriteReadyFails, WriteNotReady
<1>9. CASE CallFails
  <2>1. Reading = {hw.spec} /\ Reading' = {}
    BY <1>0, <1>9 DEF CallFails, ReportUnreachable, GoTo, Reading
  <2>2. Abstract!Clear
    BY <1>9, <2>1 DEF CallFails, ReportUnreachable, May, Abstract!Clear, Abstract!May
  <2> QED
    BY <2>2
<1>10. CASE TagRefused
  <2>1. PICK t \in tags : hw.spec.slug # t
    BY <1>10 DEF TagRefused, NameTaken, ConfigInv, WorkerOK
  <2>2. "reslug" \in Disturb
    BY <1>10, <2>1, ConfigAssumption DEF TagRefused, ConfigInv, WorkerOK
  <2>3. Reading = {hw.spec} /\ Reading' = {}
    BY <1>0, <1>10 DEF TagRefused, ReportUnreachable, GoTo, Reading
  <2>4. Abstract!Clear
    BY <1>10, <2>2, <2>3 DEF TagRefused, ReportUnreachable, Abstract!Clear
  <2> QED
    BY <2>4
<1> QED
  BY <1>1, <1>2, <1>3, <1>4, <1>6, <1>7, <1>8, <1>9, <1>10 DEF ReconcileStep

(***************************************************************************)
(* Every behaviour of HeraldConfigReconciler is one of the Store the       *)
(* resource controllers are modelled against, but for fairness: the Store  *)
(* changes only by publishing the snapshot the reconcile read, or by being *)
(* emptied for a reason ConfigStore allows.  With one slug in all specs,   *)
(* no tag is ever refused, and that is no such reason.                     *)
(***************************************************************************)
THEOREM RefinesStoreSteps ==
    Spec => Abstract!StoreInit /\ [][Abstract!StoreNext]_<<cr, Reading, store, quiet>>
<1>1. ConfigInv /\ [Next]_vars => [Abstract!StoreNext]_<<cr, Reading, store, quiet>>
  <2> SUFFICES ASSUME ConfigInv, [Next]_vars
               PROVE  [Abstract!StoreNext]_<<cr, Reading, store, quiet>>
    OBVIOUS
  <2>1. CASE UNCHANGED vars
    BY <2>1 DEF vars, Reading
  <2>2. CASE Next
    BY <2>2, EnvironmentRefines, ReconcileRefines DEF Next
  <2> QED
    BY <2>1, <2>2
<1> QED
  BY <1>1, InitRefines, ConfigInvariant, PTL DEF Spec

=============================================================================
