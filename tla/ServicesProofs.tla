--------------------------- MODULE ServicesProofs ---------------------------
(***************************************************************************)
(* Theorems about Services, for every set of Services, addresses, specs    *)
(* and disturbances.                                                       *)
(***************************************************************************)
EXTENDS Services, ShellProofs

\* The record sets of the type invariant.
Workers ==
    [pc : {"idle", "get", "status", "write"} \cup
          {"tag", "ensure", "update", "create", "list", "delete"},
     key : Keys \cup {Nil}, spec : Specs \cup {Nil},
     err : BOOLEAN, timer : BOOLEAN, fresh : BOOLEAN]

Jobs ==
    [svc : Service \cup {Nil}, todo : SUBSET Addrs,
     addr : Addrs \cup {Nil}, ids : SUBSET Ids]

(***************************************************************************)
(* What the types alone do not say of the worker: while it is at work it   *)
(* has a key and a spec, and while it writes an object it has an address.  *)
(***************************************************************************)
WorkerOK ==
    /\ w.pc # "idle" => w.key \in Keys /\ w.spec \in Specs
    /\ w.pc \in {"update", "create"} => job.addr \in Addrs

\* The inductive form of ServicesTypeOK.
ShellTypes ==
    /\ q \in [Keys -> QueueState]
    /\ cfgEvent \in BOOLEAN
    /\ w \in Workers
    /\ status \in Statuses

TypeInv ==
    /\ StoreTypeOK
    /\ ShellTypes
    /\ svc \in [Keys -> Service \cup {Nil}]
    /\ objs \in [Ids -> IPAddress \cup {Nil}]
    /\ job \in Jobs
    /\ WorkerOK
-----------------------------------------------------------------------------
\* A worker between two reconciles.
LEMMA IdleTypes ==
    /\ IdleWorker \in Workers
    /\ IdleWorker.pc = "idle"
    /\ NoJob \in Jobs
    /\ EmptyStatus \in Statuses
BY DEF IdleWorker, Workers, NoJob, Jobs, EmptyStatus, Statuses
-----------------------------------------------------------------------------
(* TypeInv is inductive: one lemma for each part of Next. *)

\* The types hold in a new process (main.go).
LEMMA InitTypes == Init => TypeInv
<1> SUFFICES ASSUME Init PROVE TypeInv
  OBVIOUS
<1>1. ShellTypes
  BY IdleTypes, FirstEventsType DEF Init, ShellInit, ShellTypes
<1>2. job \in Jobs /\ WorkerOK
  BY IdleTypes DEF Init, ShellInit, WorkerOK
<1>3. svc \in [Keys -> Service \cup {Nil}]
  BY ServicesAssumption DEF Init, ServicesAssumption
<1>4. objs \in [Ids -> IPAddress \cup {Nil}]
  BY DEF Init, IPAddress
<1> QED
  BY <1>1, <1>2, <1>3, <1>4 DEF Init, StoreInit, StoreTypeOK, TypeInv

\* Taking a key, or polling while the Store is empty.
LEMMA TakeTypes ==
    ASSUME TypeInv, NEW k \in Keys, TakeService(k)
    PROVE  TypeInv'
<1>1. CASE PollStore(k)
  <2>1. Take(q, k) \in [Keys -> QueueState]
    BY QueueOps DEF TypeInv, ShellTypes
  <2>2. q' \in [Keys -> QueueState]
    BY <1>1, <2>1, QueueOps DEF PollStore
  <2> QED
    BY <1>1, <2>2
       DEF PollStore, TakeService, TypeInv, ShellTypes, StoreTypeOK, storeVars, WorkerOK
<1>2. CASE StartReconcile(k)
  <2>1. q' \in [Keys -> QueueState]
    BY <1>2, QueueOps DEF StartReconcile, TypeInv, ShellTypes
  <2>2. w' \in Workers /\ WorkerOK'
    BY <1>2 DEF StartReconcile, IdleWorker, Workers, WorkerOK, TypeInv, StoreTypeOK
  <2> QED
    BY <1>2, <2>1, <2>2
       DEF StartReconcile, TakeService, TypeInv, ShellTypes, StoreTypeOK, storeVars
<1> QED
  BY <1>1, <1>2 DEF TakeService

\* Users, other controllers, timers and restarts.
LEMMA EnvironmentTypes ==
    ASSUME TypeInv, Environment
    PROVE  TypeInv'
<1> USE DEF TypeInv, ShellTypes
<1>1. CASE StoreStep /\ UNCHANGED <<svc, objs, job>>
  <2>1. StoreTypeOK'
    BY <1>1 DEF StoreStep, ControllerStep, ReadConfig, Publish, Clear, CalmDown,
                StoreTypeOK
  <2> QED
    BY <1>1, <2>1 DEF StoreStep, shellVars, WorkerOK
<1>2. ASSUME NEW spec \in Specs \cup {Nil}, EditConfig(spec) /\ UNCHANGED <<svc, objs, job>>
      PROVE  TypeInv'
  <2>1. StoreTypeOK'
    BY <1>2 DEF EditConfig, ChangeConfig, StoreTypeOK
  <2>2. w' \in Workers /\ WorkerOK'
    BY <1>2 DEF EditConfig, Workers, WorkerOK
  <2>3. status' \in Statuses
    BY <1>2, IdleTypes DEF EditConfig, Statuses
  <2> QED
    BY <1>2, <2>1, <2>2, <2>3 DEF EditConfig
<1>3. CASE enqueueAllServices
  <2>1. q' \in [Keys -> QueueState]
    BY <1>3, QueueAdd DEF enqueueAllServices, DeliverConfigEvent
  <2> QED
    BY <1>3, <2>1
       DEF enqueueAllServices, DeliverConfigEvent, storeVars, StoreTypeOK, WorkerOK
<1>4. CASE LoseConfigEvent /\ UNCHANGED <<svc, objs, job>>
  BY <1>4 DEF LoseConfigEvent, storeVars, StoreTypeOK, WorkerOK
<1>5. CASE OtherStatusWrite /\ UNCHANGED <<svc, objs, job>>
  <2>1. w' \in Workers /\ WorkerOK'
    BY <1>5 DEF OtherStatusWrite, Workers, WorkerOK
  <2> QED
    BY <1>5, <2>1 DEF OtherStatusWrite, storeVars, StoreTypeOK
<1>6. ASSUME NEW k \in Keys, TimerFires(k) /\ UNCHANGED <<svc, objs, job>>
      PROVE  TypeInv'
  <2>1. q' \in [Keys -> QueueState]
    BY <1>6, QueueOps DEF TimerFires
  <2> QED
    BY <1>6, <2>1 DEF TimerFires, storeVars, StoreTypeOK, WorkerOK
<1>7. ASSUME NEW k \in Keys, ResyncService(k)
      PROVE  TypeInv'
  <2>1. q' \in [Keys -> QueueState]
    BY <1>7, QueueAdd DEF ResyncService, CacheResync
  <2> QED
    BY <1>7, <2>1 DEF ResyncService, CacheResync, storeVars, StoreTypeOK, WorkerOK
<1>8. ASSUME NEW k \in Keys, NEW shape \in Shapes \cup {Nil}, ServiceEvent(k, shape)
      PROVE  TypeInv'
  <2>1. q' \in [Keys -> QueueState]
    BY <1>8, QueueAdd DEF ServiceEvent
  <2>2. svc' \in [Keys -> Service \cup {Nil}]
    BY <1>8, ServicesAssumption DEF ServiceEvent, ServicesAssumption
  <2> QED
    BY <1>8, <2>1, <2>2 DEF ServiceEvent, storeVars, StoreTypeOK, WorkerOK
<1>9. ASSUME NEW i \in Ids, Drift(i) \/ Untag(i)
      PROVE  TypeInv'
  <2>1. objs[i] # Nil /\ objs[i] \in IPAddress
    BY <1>9 DEF Drift, Untag
  <2>2. objs' \in [Ids -> IPAddress \cup {Nil}]
    BY <1>9, <2>1 DEF Drift, Untag, IPAddress
  <2> QED
    BY <1>9, <2>2 DEF Drift, Untag, storeVars, shellVars, StoreTypeOK, WorkerOK
<1>10. CASE ServicesRestart
  <2>1. StoreTypeOK'
    BY <1>10 DEF ServicesRestart, ShellRestart, StoreRestart, StoreTypeOK
  <2>2. q' \in [Keys -> QueueState]
    BY <1>10, FirstEventsType DEF ServicesRestart, ShellRestart
  <2>3. w' \in Workers /\ job' \in Jobs /\ WorkerOK'
    BY <1>10, IdleTypes DEF ServicesRestart, ShellRestart, WorkerOK
  <2> QED
    BY <1>10, <2>1, <2>2, <2>3 DEF ServicesRestart, ShellRestart
<1> QED
  BY <1>1, <1>2, <1>3, <1>4, <1>5, <1>6, <1>7, <1>8, <1>9, <1>10 DEF Environment

\* How the worker moves on.
LEMMA ProceedTypes ==
    ASSUME w \in Workers, Proceed(w'.pc),
           w'.pc \in {"tag", "ensure", "update", "create", "list", "delete"}
    PROVE  w' \in Workers /\ w'.key = w.key /\ w'.spec = w.spec
BY DEF Proceed, Workers

\* The end of that work, good or bad.
LEMMA EndTypes ==
    ASSUME w \in Workers, Fail \/ \E timer \in BOOLEAN : Succeed(timer)
    PROVE  /\ w' \in Workers /\ w'.key = w.key /\ w'.spec = w.spec /\ w'.pc = "status"
           /\ UNCHANGED <<storeVars, q, cfgEvent, status>>
BY DEF Fail, Succeed, Workers

\* What a step at work has to establish for TypeInv.
LEMMA WorkTypes ==
    ASSUME TypeInv, w.pc # "idle",
           w' \in Workers, w'.key = w.key, w'.spec = w.spec,
           w'.pc \in {"update", "create"} => job'.addr \in Addrs,
           UNCHANGED <<storeVars, q, cfgEvent, status, svc>>,
           objs' \in [Ids -> IPAddress \cup {Nil}],
           job' \in Jobs
    PROVE  TypeInv'
BY DEF TypeInv, ShellTypes, WorkerOK, StoreTypeOK, storeVars

\* Reconcile after the read of the Service.
LEMMA SeeTypes ==
    ASSUME TypeInv, SeeDeleted \/ SeeUnsynced \/ SeePaused \/ SeeLoadBalancer
    PROVE  TypeInv'
<1>1. w \in Workers /\ w.key \in Keys /\ w.pc = "get"
  BY DEF TypeInv, ShellTypes, WorkerOK, SeeDeleted, SeeUnsynced, SeePaused, SeeLoadBalancer
<1>2. /\ w' \in Workers /\ w'.key = w.key /\ w'.spec = w.spec
      /\ w'.pc \in {"list", "tag", "status"}
      /\ UNCHANGED <<storeVars, q, cfgEvent, status>>
  <2>1. CASE SeePaused
    BY <1>1, <2>1, EndTypes DEF SeePaused
  <2>2. CASE SeeDeleted \/ SeeUnsynced \/ SeeLoadBalancer
    <3>1. w'.pc \in {"list", "tag"} /\ Proceed(w'.pc)
      BY <1>1, <2>2 DEF SeeDeleted, SeeUnsynced, SeeLoadBalancer, Proceed, Workers
    <3> QED
      BY <1>1, <3>1, ProceedTypes DEF Proceed
  <2> QED
    BY <2>1, <2>2
<1>3. svc[w.key] # Nil => svc[w.key] \in Service /\ svc[w.key].ingress \subseteq Addrs
  BY <1>1 DEF TypeInv, Service
<1>4. job' \in Jobs
  BY <1>1, <1>3 DEF TypeInv, SeeDeleted, SeeUnsynced, SeePaused, SeeLoadBalancer, NoJob, Jobs
<1>5. UNCHANGED <<svc, objs>>
  BY DEF SeeDeleted, SeeUnsynced, SeePaused, SeeLoadBalancer
<1> QED
  BY <1>1, <1>2, <1>4, <1>5, WorkTypes DEF TypeInv

\* The calls that write no object.
LEMMA MoveTypes ==
    ASSUME TypeInv,
           \/ EnsureManagedTag \/ BadAddress \/ StartPruning
           \/ ListServiceIPs \/ DeletesDone \/ ObjectGone
    PROVE  TypeInv'
<1>1. w \in Workers /\ w.pc # "idle"
  BY DEF TypeInv, ShellTypes, EnsureManagedTag, BadAddress, StartPruning, ListServiceIPs,
         DeletesDone, ObjectGone
<1>2. /\ w' \in Workers /\ w'.key = w.key /\ w'.spec = w.spec
      /\ w'.pc \notin {"update", "create"}
      /\ UNCHANGED <<storeVars, q, cfgEvent, status>>
  <2>1. CASE BadAddress \/ DeletesDone \/ ObjectGone
    <3>1. Fail \/ \E timer \in BOOLEAN : Succeed(timer)
      BY <2>1 DEF BadAddress, DeletesDone, ObjectGone
    <3> QED
      BY <1>1, <3>1, EndTypes
  <2>2. CASE EnsureManagedTag \/ StartPruning \/ ListServiceIPs
    <3>1. w'.pc \in {"ensure", "list", "delete"} /\ Proceed(w'.pc)
      BY <1>1, <2>2 DEF EnsureManagedTag, StartPruning, ListServiceIPs, Proceed, Workers
    <3> QED
      BY <1>1, <3>1, ProceedTypes DEF Proceed
  <2> QED
    BY <2>1, <2>2
<1>3. job' \in Jobs
  <2>1. CASE ListServiceIPs
    <3>1. PICK page : job' = [job EXCEPT !.ids =
                     {i \in Owned(page, w.key) : objs[i].xid[2] \notin Desired}]
                  /\ page \in Pages(Managed(w.spec.slug))
      BY <2>1 DEF ListServiceIPs
    <3>2. page \subseteq Ids
      BY <3>1 DEF Pages, Managed
    <3> QED
      BY <3>1, <3>2 DEF TypeInv, Jobs, Owned
  <2>2. CASE ~ListServiceIPs
    BY <2>2 DEF TypeInv, Jobs, Abandon, EnsureManagedTag, BadAddress, StartPruning,
                DeletesDone, ObjectGone
  <2> QED
    BY <2>1, <2>2
<1>4. UNCHANGED <<svc, objs>>
  BY DEF EnsureManagedTag, BadAddress, StartPruning, ListServiceIPs, DeletesDone, ObjectGone
<1> QED
  BY <1>1, <1>2, <1>3, <1>4, WorkTypes DEF TypeInv

\* What EnsureServiceIP writes is an IP Address.
LEMMA WrittenType ==
    ASSUME TypeInv, w.pc \in {"update", "create"}
    PROVE  Written \in IPAddress
<1>1. w.key \in Keys /\ w.spec \in Specs /\ job.addr \in Addrs
  BY DEF TypeInv, WorkerOK
<1>2. w.spec.slug \in Slugs
  BY <1>1, ServicesAssumption DEF ServicesAssumption
<1> QED
  BY <1>1, <1>2 DEF Written, IPAddress, ExternalIDs

\* findServiceIPByExternalID.
LEMMA FindTypes ==
    ASSUME TypeInv, NEW a \in Addrs, FindServiceIP(a)
    PROVE  TypeInv'
<1>1. w \in Workers /\ w.pc = "ensure"
  BY DEF TypeInv, ShellTypes, FindServiceIP
<1>2. PICK page \in Pages(Managed(w.spec.slug)) :
         \/ \E i \in Matches(page, a) :
               job' = [job EXCEPT !.addr = a, !.ids = {i}] /\ Proceed("update")
         \/ job' = [job EXCEPT !.addr = a] /\ Proceed("create")
  BY DEF FindServiceIP
<1>3. Matches(page, a) \subseteq Ids
  BY <1>2 DEF Pages, Managed, Matches
<1>4. job' \in Jobs /\ job'.addr = a
  BY <1>2, <1>3 DEF TypeInv, Jobs
<1>5. w'.pc \in {"update", "create"} /\ Proceed(w'.pc)
  BY <1>1, <1>2 DEF Proceed, Workers
<1>6. /\ w' \in Workers /\ w'.key = w.key /\ w'.spec = w.spec
      /\ UNCHANGED <<storeVars, q, cfgEvent, status, svc, objs>>
  BY <1>1, <1>5, ProceedTypes DEF Proceed, FindServiceIP
<1> QED
  BY <1>1, <1>4, <1>6, WorkTypes DEF TypeInv

\* The writes of EnsureServiceIP and DeleteServiceIP.
LEMMA WriteTypes ==
    ASSUME TypeInv, NEW i \in Ids,
           UpdateServiceIP(i) \/ CreateServiceIP(i) \/ DeleteServiceIP(i)
    PROVE  TypeInv'
<1>1. w \in Workers /\ w.pc \in {"update", "create", "delete"}
  BY DEF TypeInv, ShellTypes, UpdateServiceIP, CreateServiceIP, DeleteServiceIP
<1>2. w'.pc \in {"ensure", "delete"} /\ Proceed(w'.pc)
  BY <1>1 DEF UpdateServiceIP, CreateServiceIP, DeleteServiceIP, Proceed, Workers
<1>3. /\ w' \in Workers /\ w'.key = w.key /\ w'.spec = w.spec
      /\ UNCHANGED <<storeVars, q, cfgEvent, status>>
  BY <1>1, <1>2, ProceedTypes DEF Proceed
<1>4. objs' \in [Ids -> IPAddress \cup {Nil}]
  BY WrittenType DEF TypeInv, UpdateServiceIP, CreateServiceIP, DeleteServiceIP
<1>5. job' \in Jobs /\ UNCHANGED svc
  BY DEF TypeInv, Jobs, Ensured, UpdateServiceIP, CreateServiceIP, DeleteServiceIP
<1> QED
  BY <1>1, <1>2, <1>3, <1>4, <1>5, WorkTypes

\* A call that fails, and may have been carried out.
LEMMA CallFailsTypes ==
    ASSUME TypeInv, CallFails
    PROVE  TypeInv'
<1>1. w \in Workers /\ w.pc # "idle"
  BY DEF TypeInv, ShellTypes, CallFails
<1>2. /\ w' \in Workers /\ w'.key = w.key /\ w'.spec = w.spec /\ w'.pc = "status"
      /\ UNCHANGED <<storeVars, q, cfgEvent, status>>
  BY <1>1, EndTypes DEF CallFails
<1>3. objs' \in [Ids -> IPAddress \cup {Nil}]
  BY WrittenType DEF TypeInv, CallFails, Outcomes, FreshIds, Jobs
<1>4. job' \in Jobs /\ UNCHANGED svc
  BY DEF TypeInv, Jobs, CallFails, Abandon
<1> QED
  BY <1>1, <1>2, <1>3, <1>4, WorkTypes

\* syncServicesStatus and the errors of the Kubernetes API.
LEMMA ReportTypes ==
    ASSUME TypeInv, syncServicesStatus \/ KubeFails
    PROVE  TypeInv'
<1>1. w \in Workers /\ w.pc \in {"get", "status", "write"} /\ w.key \in Keys /\ w.spec \in Specs
  BY DEF TypeInv, ShellTypes, WorkerOK, syncServicesStatus, KubeFails, ReportStep, ReportFault,
         GetFails, SkipStatus, ReadForStatus, ReadForStatusFails, WriteStatus, StatusConflict,
         WriteStatusFails
<1>2. UNCHANGED <<storeVars, cfgEvent, svc, objs>>
  BY DEF syncServicesStatus, KubeFails, ReportStep, ReportFault, GetFails, SkipStatus,
         ReadForStatus, ReadForStatusFails, WriteStatus, StatusConflict, WriteStatusFails
<1>3. job' \in Jobs
  BY IdleTypes DEF TypeInv, syncServicesStatus, KubeFails
<1>4. status' \in Statuses
  <2>1. Report \in Statuses
    BY <1>1, ServicesAssumption DEF Report, Statuses, Workers, ServicesAssumption
  <2> QED
    BY <2>1 DEF TypeInv, ShellTypes, syncServicesStatus, KubeFails, ReportStep, ReportFault,
         GetFails, SkipStatus, ReadForStatus, ReadForStatusFails, WriteStatus, StatusConflict,
         WriteStatusFails
<1>5. CASE ReadForStatus
  <2>1. w' \in Workers /\ w'.key = w.key /\ w'.spec = w.spec /\ w'.pc = "write"
    BY <1>1, <1>5 DEF ReadForStatus, Workers
  <2> QED
    BY <1>1, <1>2, <1>3, <1>4, <1>5, <2>1
       DEF ReadForStatus, TypeInv, ShellTypes, WorkerOK, StoreTypeOK, storeVars
<1>6. CASE ReturnResult \/ ReturnError
  <2>1. q' \in [Keys -> QueueState] /\ w' = IdleWorker
    BY <1>1, <1>6, ReturnTypes DEF TypeInv, ShellTypes
  <2> QED
    BY <1>2, <1>3, <1>4, <2>1, IdleTypes
       DEF TypeInv, ShellTypes, WorkerOK, StoreTypeOK, storeVars
<1> QED
  BY <1>5, <1>6
     DEF syncServicesStatus, KubeFails, ReportStep, ReportFault, GetFails, SkipStatus,
         ReadForStatusFails, WriteStatus, StatusConflict, WriteStatusFails

\* The types are inductive.
LEMMA NextTypes == TypeInv /\ [Next]_vars => TypeInv'
<1> SUFFICES ASSUME TypeInv, [Next]_vars PROVE TypeInv'
  OBVIOUS
<1>1. CASE UNCHANGED vars
  BY <1>1 DEF vars, storeVars, shellVars, TypeInv, ShellTypes, StoreTypeOK, WorkerOK
<1>2. CASE WorkerStep
  BY <1>2, SeeTypes, MoveTypes, FindTypes, WriteTypes, ReportTypes DEF WorkerStep
<1> QED
  BY <1>1, <1>2, TakeTypes, CallFailsTypes, ReportTypes, EnvironmentTypes DEF Next

(***************************************************************************)
(* Type correctness: every variable keeps its type, and so does whatever   *)
(* EnsureServiceIP writes to NetBox and syncServicesStatus to the status.  *)
(***************************************************************************)
THEOREM ServicesTypes == SafetySpec => []ServicesTypeOK
<1>1. TypeInv => ServicesTypeOK
  BY DEF TypeInv, ShellTypes, ServicesTypeOK, ShellTypeOK, Workers, Jobs, Statuses
<1> QED
  BY <1>1, InitTypes, NextTypes, PTL DEF SafetySpec

-----------------------------------------------------------------------------
(***************************************************************************)
(* No duplicates.  NoDuplicates is not inductive by itself: a create could *)
(* add a second object if one with the external ID appeared after the      *)
(* lookup.  What rules this out is that only the worker adds objects, and  *)
(* it remembers the lookup in its program counter:                         *)
(***************************************************************************)

\* Object i is the one EnsureServiceIP looks for.
Claimed(i) ==
    /\ objs[i] # Nil
    /\ objs[i].tag = w.spec.slug
    /\ objs[i].xid = <<w.key, job.addr>>

\* About to create: there is still none.
CreateIsNew == w.pc = "create" => \A i \in Ids : ~Claimed(i)

\* About to update: there is still no other one.
UpdateIsOnly == w.pc = "update" => \A i \in job.ids : \A j \in Ids : Claimed(j) => j = i

DupInv == TypeInv /\ NoDuplicates /\ CreateIsNew /\ UpdateIsOnly

\* A step that brings no managed object, and leaves the worker where it is or
\* takes it anywhere but to a write.
LEMMA NothingNew ==
    ASSUME DupInv, TypeInv',
           \A i \in Ids : objs'[i] # Nil /\ objs'[i].tag # Nil =>
               objs[i] # Nil /\ objs[i].tag = objs'[i].tag /\ objs[i].xid = objs'[i].xid,
           \/ w'.pc \notin {"update", "create"}
           \/ w'.pc = w.pc /\ w'.key = w.key /\ w'.spec = w.spec /\ job' = job
    PROVE  DupInv'
<1>1. NoDuplicates'
  BY DEF DupInv, NoDuplicates
<1>2. CASE w'.pc \notin {"update", "create"}
  BY <1>1, <1>2 DEF DupInv, CreateIsNew, UpdateIsOnly
<1>3. CASE w'.pc \in {"update", "create"}
  <2>1. w.spec.slug # Nil
    BY <1>3, ServicesAssumption DEF DupInv, TypeInv, WorkerOK, ServicesAssumption
  <2>2. \A i \in Ids : Claimed(i)' => Claimed(i)
    BY <1>3, <2>1 DEF Claimed
  <2> QED
    BY <1>1, <1>3, <2>2 DEF DupInv, CreateIsNew, UpdateIsOnly
<1> QED
  BY <1>2, <1>3

\* A write to object i makes no duplicate if no other object is claimed.
LEMMA WriteIsSafe ==
    ASSUME TypeInv, NoDuplicates, w.pc \in {"update", "create"}, NEW i \in Ids,
           \A j \in Ids : Claimed(j) => j = i,
           objs' = [objs EXCEPT ![i] = Written]
    PROVE  NoDuplicates'
<1>1. /\ objs'[i] = Written
      /\ \A j \in Ids \ {i} : objs'[j] = objs[j]
  BY DEF TypeInv
<1>2. Written.tag = w.spec.slug /\ Written.xid = <<w.key, job.addr>>
  BY DEF Written
<1>3. \A j \in Ids \ {i} : ~(objs[j] # Nil /\ objs[j].tag = Written.tag /\ objs[j].xid = Written.xid)
  BY <1>2 DEF Claimed
<1> QED
  BY <1>1, <1>3 DEF NoDuplicates

\* At first there is no managed object.
LEMMA InitDup == Init => DupInv
<1> SUFFICES ASSUME Init PROVE DupInv
  OBVIOUS
<1>1. \A i \in Ids : objs[i] = Nil \/ objs[i].tag = Nil
  BY DEF Init
<1>2. w.pc = "idle"
  BY IdleTypes DEF Init, ShellInit
<1> QED
  BY <1>1, <1>2, InitTypes DEF DupInv, NoDuplicates, CreateIsNew, UpdateIsOnly

\* After the lookup, what the worker remembers is true.
LEMMA FindDup ==
    ASSUME Cardinality(Ids) <= PageSize, DupInv, NEW a \in Addrs, FindServiceIP(a)
    PROVE  DupInv'
<1>1. TypeInv'
  BY FindTypes DEF DupInv
<1> DEFINE page == Managed(w.spec.slug)
<1>2. Pages(page) = {page}
  BY WholePage DEF Managed
<1>3. w \in Workers /\ job \in Jobs /\ w.spec \in Specs /\ w.spec.slug # Nil
  BY ServicesAssumption
     DEF DupInv, TypeInv, ShellTypes, WorkerOK, FindServiceIP, ServicesAssumption
<1>4. NoDuplicates' /\ UNCHANGED objs
  BY DEF DupInv, NoDuplicates, FindServiceIP
<1>5. CASE Matches(page, a) = {}
  <2>1. w' = [w EXCEPT !.pc = "create"] /\ job' = [job EXCEPT !.addr = a]
    BY <1>2, <1>5 DEF FindServiceIP, Proceed
  <2>2. w'.pc = "create" /\ w'.key = w.key /\ w'.spec = w.spec /\ job'.addr = a
    BY <1>3, <2>1 DEF Workers, Jobs
  <2>3. \A i \in Ids : ~Claimed(i)'
    BY <1>4, <1>5, <2>2 DEF Claimed, Matches, Managed
  <2> QED
    BY <1>1, <1>4, <2>2, <2>3 DEF DupInv, CreateIsNew, UpdateIsOnly
<1>6. CASE Matches(page, a) # {}
  <2>1. PICK i \in Matches(page, a) :
           w' = [w EXCEPT !.pc = "update"] /\ job' = [job EXCEPT !.addr = a, !.ids = {i}]
    BY <1>2, <1>6 DEF FindServiceIP, Proceed
  <2>2. /\ w'.pc = "update" /\ w'.key = w.key /\ w'.spec = w.spec
        /\ job'.addr = a /\ job'.ids = {i}
    BY <1>3, <2>1 DEF Workers, Jobs
  <2>3. i \in Ids /\ objs[i] # Nil /\ objs[i].tag = w.spec.slug /\ objs[i].xid = <<w.key, a>>
    BY DEF Matches, Managed
  <2>4. \A j \in Ids : Claimed(j)' => j = i
    BY <1>3, <1>4, <2>2, <2>3 DEF Claimed, DupInv, NoDuplicates
  <2> QED
    BY <1>1, <1>4, <2>2, <2>4 DEF DupInv, CreateIsNew, UpdateIsOnly
<1> QED
  BY <1>5, <1>6

\* The writes make no duplicate.
LEMMA WriteDup ==
    ASSUME DupInv, NEW i \in Ids,
           UpdateServiceIP(i) \/ CreateServiceIP(i) \/ DeleteServiceIP(i)
    PROVE  DupInv'
<1>1. TypeInv'
  BY WriteTypes DEF DupInv
<1>2. w \in Workers /\ objs \in [Ids -> IPAddress \cup {Nil}]
  BY DEF DupInv, TypeInv, ShellTypes
<1>3. w'.pc \in {"ensure", "delete"}
  BY <1>2 DEF UpdateServiceIP, CreateServiceIP, DeleteServiceIP, Proceed, Workers
<1>4. CASE DeleteServiceIP(i)
  BY <1>1, <1>2, <1>3, <1>4, NothingNew DEF DeleteServiceIP
<1>5. CASE UpdateServiceIP(i) \/ CreateServiceIP(i)
  <2>1. w.pc \in {"update", "create"} /\ \A j \in Ids : Claimed(j) => j = i
    BY <1>5 DEF DupInv, UpdateIsOnly, CreateIsNew, UpdateServiceIP, CreateServiceIP
  <2>2. NoDuplicates'
    BY <1>5, <2>1, WriteIsSafe DEF DupInv, UpdateServiceIP, CreateServiceIP
  <2> QED
    BY <1>1, <1>3, <2>2 DEF DupInv, UpdateIsOnly, CreateIsNew
<1> QED
  BY <1>4, <1>5

\* A call whose answer is lost has at most written what it was to write.
LEMMA CallFailsDup ==
    ASSUME DupInv, CallFails
    PROVE  DupInv'
<1>1. TypeInv'
  BY CallFailsTypes DEF DupInv
<1>2. w \in Workers /\ objs \in [Ids -> IPAddress \cup {Nil}] /\ job.ids \subseteq Ids
  BY DEF DupInv, TypeInv, ShellTypes, Jobs
<1>3. w'.pc = "status"
  BY <1>2, EndTypes DEF CallFails
<1>4. CASE objs' = objs
  BY <1>1, <1>3, <1>4, NothingNew
<1>5. CASE w.pc = "delete" /\ \E i \in job.ids : objs' = [objs EXCEPT ![i] = Nil]
  BY <1>1, <1>2, <1>3, <1>5, NothingNew
<1>6. CASE /\ w.pc \in {"update", "create"}
           /\ \E i \in Ids : /\ objs' = [objs EXCEPT ![i] = Written]
                             /\ w.pc = "update" => i \in job.ids
  <2>1. PICK i \in Ids : /\ objs' = [objs EXCEPT ![i] = Written]
                         /\ w.pc = "update" => i \in job.ids
    BY <1>6
  <2>2. \A j \in Ids : Claimed(j) => j = i
    BY <1>6, <2>1 DEF DupInv, UpdateIsOnly, CreateIsNew
  <2>3. NoDuplicates'
    BY <1>6, <2>1, <2>2, WriteIsSafe DEF DupInv
  <2> QED
    BY <1>1, <1>3, <2>3 DEF DupInv, UpdateIsOnly, CreateIsNew
<1> QED
  BY <1>2, <1>4, <1>5, <1>6 DEF CallFails, Outcomes, FreshIds

\* Whatever the environment does makes no duplicate.
LEMMA EnvironmentDup ==
    ASSUME DupInv, Environment
    PROVE  DupInv'
<1>1. TypeInv'
  BY EnvironmentTypes DEF DupInv
<1>2. w \in Workers /\ objs \in [Ids -> IPAddress \cup {Nil}]
  BY DEF DupInv, TypeInv, ShellTypes
<1> DEFINE Kept(j) ==
      objs'[j] # Nil /\ objs'[j].tag # Nil =>
          objs[j] # Nil /\ objs[j].tag = objs'[j].tag /\ objs[j].xid = objs'[j].xid
<1>3. \A j \in Ids : Kept(j)
  <2>1. ASSUME NEW i \in Ids, Drift(i) \/ Untag(i)
        PROVE  \A j \in Ids : Kept(j)
    <3>1. objs[i] \in IPAddress
      BY <1>2, <2>1 DEF Drift, Untag
    <3>2. \A j \in Ids \ {i} : objs'[j] = objs[j]
      BY <1>2, <2>1 DEF Drift, Untag
    <3>3. Kept(i)
      BY <1>2, <2>1, <3>1 DEF Drift, Untag, IPAddress
    <3> QED
      BY <3>2, <3>3
  <2>2. CASE UNCHANGED objs
    BY <2>2
  <2> QED
    BY <2>1, <2>2
       DEF Environment, enqueueAllServices, ResyncService, ServiceEvent, ServicesRestart
<1>4. \/ w'.pc \notin {"update", "create"}
      \/ w'.pc = w.pc /\ w'.key = w.key /\ w'.spec = w.spec /\ job' = job
  BY <1>2, IdleTypes
     DEF Environment, StoreStep, shellVars, EditConfig, enqueueAllServices, DeliverConfigEvent,
         LoseConfigEvent, OtherStatusWrite, TimerFires, ResyncService, CacheResync,
         ServiceEvent, Drift, Untag, ServicesRestart, ShellRestart, Workers
<1> QED
  BY <1>1, <1>3, <1>4, NothingNew

\* All other steps write nothing.
LEMMA OtherDup ==
    ASSUME DupInv,
           \/ \E k \in Keys : TakeService(k)
           \/ SeeDeleted \/ SeeUnsynced \/ SeePaused \/ SeeLoadBalancer
           \/ EnsureManagedTag \/ BadAddress \/ StartPruning
           \/ ListServiceIPs \/ DeletesDone \/ ObjectGone
           \/ syncServicesStatus \/ KubeFails
    PROVE  DupInv'
<1>1. TypeInv'
  BY TakeTypes, SeeTypes, MoveTypes, ReportTypes DEF DupInv
<1>2. UNCHANGED objs
  BY DEF TakeService, SeeDeleted, SeeUnsynced, SeePaused, SeeLoadBalancer, EnsureManagedTag,
         BadAddress, StartPruning, ListServiceIPs, DeletesDone, ObjectGone, syncServicesStatus,
         KubeFails
<1>3. w \in Workers
  BY DEF DupInv, TypeInv, ShellTypes
<1>4. w'.pc \notin {"update", "create"}
  <2>1. CASE \E k \in Keys : TakeService(k)
    BY <1>3, <2>1 DEF TakeService, PollStore, StartReconcile, IdleWorker
  <2>2. CASE syncServicesStatus \/ KubeFails
    BY <1>3, <2>2, IdleTypes
       DEF syncServicesStatus, KubeFails, ReportStep, ReportFault, GetFails, SkipStatus,
           ReadForStatus, ReadForStatusFails, WriteStatus, StatusConflict, WriteStatusFails,
           ReturnResult, ReturnError, Workers
  <2> QED
    BY <1>3, <2>1, <2>2
       DEF SeeDeleted, SeeUnsynced, SeePaused, SeeLoadBalancer, EnsureManagedTag, BadAddress,
           StartPruning, ListServiceIPs, DeletesDone, ObjectGone, Proceed, Succeed, Fail, Workers
<1> QED
  BY <1>1, <1>2, <1>4, NothingNew

\* With whole pages, DupInv is inductive.
LEMMA NextDup ==
    ASSUME Cardinality(Ids) <= PageSize
    PROVE  DupInv /\ [Next]_vars => DupInv'
<1> SUFFICES ASSUME DupInv, [Next]_vars PROVE DupInv'
  OBVIOUS
<1>1. CASE UNCHANGED vars
  <2>1. TypeInv'
    BY NextTypes DEF DupInv
  <2> QED
    BY <1>1, <2>1, NothingNew DEF vars, shellVars
<1>2. CASE WorkerStep
  BY <1>2, FindDup, WriteDup, OtherDup DEF WorkerStep
<1> QED
  BY <1>1, <1>2, OtherDup, CallFailsDup, EnvironmentDup DEF Next

(***************************************************************************)
(* As long as NetBox returns every object Herald asks for in one page, no  *)
(* two managed IP Addresses have the same external ID: EnsureServiceIP is  *)
(* idempotent under failed calls, lost answers, restarts and whatever      *)
(* users do.                                                               *)
(***************************************************************************)
THEOREM ServicesNoDuplicates ==
    ASSUME Cardinality(Ids) <= PageSize
    PROVE  SafetySpec => []NoDuplicates
<1>1. DupInv => NoDuplicates
  BY DEF DupInv
<1> QED
  BY <1>1, InitDup, NextDup, PTL DEF SafetySpec

-----------------------------------------------------------------------------
(***************************************************************************)
(* Unmanaged objects.  The worker writes to IDs it got from an earlier     *)
(* list, so what has to be invariant is that they still carry the tag:     *)
(***************************************************************************)
AimsAtManaged ==
    w.pc \in {"update", "delete"} =>
        \A i \in job.ids : objs[i] # Nil => objs[i].tag # Nil

AimInv == TypeInv /\ AimsAtManaged

\* What a step does to the objects it must not touch.
Spared == \A i \in Ids : objs[i] # Nil /\ objs[i].tag = Nil => objs'[i] = objs[i]

\* A step that takes the tag off no object, and aims at no further one.
LEMMA AimKept ==
    ASSUME AimInv, TypeInv',
           \A i \in Ids : objs'[i] # Nil /\ objs'[i].tag = Nil => objs[i] = objs'[i],
           \/ w'.pc \notin {"update", "delete"}
           \/ w'.pc = w.pc /\ job'.ids \subseteq job.ids
    PROVE  AimInv'
<1>1. job.ids \subseteq Ids
  BY DEF AimInv, TypeInv, Jobs
<1> QED
  BY <1>1 DEF AimInv, AimsAtManaged

\* The objects a list returns carry the tag it asked for (Managed, Pages).
LEMMA PagesOf ==
    ASSUME NEW S, NEW page \in Pages(S)
    PROVE  page \subseteq S
BY DEF Pages

\* The two steps that aim the worker at objects: EnsureServiceIP's lookup and
\* ListServiceIPs.
LEMMA ListAim ==
    ASSUME AimInv, (\E a \in Addrs : FindServiceIP(a)) \/ ListServiceIPs
    PROVE  AimInv' /\ Spared
<1>1. TypeInv'
  BY FindTypes, MoveTypes DEF AimInv
<1>2. w \in Workers /\ job \in Jobs /\ w.spec.slug # Nil /\ UNCHANGED objs
  BY ServicesAssumption
     DEF AimInv, TypeInv, ShellTypes, WorkerOK, FindServiceIP, ListServiceIPs, ServicesAssumption
<1>3. \A i \in Managed(w.spec.slug) : objs[i].tag # Nil
  BY <1>2 DEF Managed
<1>4. AimsAtManaged'
  <2>1. ASSUME NEW a \in Addrs, FindServiceIP(a) PROVE AimsAtManaged'
    <3>1. PICK page \in Pages(Managed(w.spec.slug)) :
             \/ \E i \in Matches(page, a) : job' = [job EXCEPT !.addr = a, !.ids = {i}]
             \/ Proceed("create")
      BY <2>1 DEF FindServiceIP
    <3>2. page \subseteq Managed(w.spec.slug)
      BY PagesOf
    <3>3. CASE Proceed("create")
      BY <1>2, <3>3 DEF Proceed, AimsAtManaged, Workers
    <3>4. ASSUME NEW i \in Matches(page, a), job' = [job EXCEPT !.addr = a, !.ids = {i}]
          PROVE  AimsAtManaged'
      <4>1. job'.ids = {i} /\ i \in Managed(w.spec.slug)
        BY <1>2, <3>2, <3>4 DEF Matches, Jobs
      <4> QED
        BY <1>2, <1>3, <4>1 DEF AimsAtManaged
    <3> QED
      BY <3>1, <3>3, <3>4
  <2>2. CASE ListServiceIPs
    <3>1. PICK page \in Pages(Managed(w.spec.slug)) :
             job' = [job EXCEPT !.ids =
                        {i \in Owned(page, w.key) : objs[i].xid[2] \notin Desired}]
      BY <2>2 DEF ListServiceIPs
    <3>2. page \subseteq Managed(w.spec.slug)
      BY PagesOf
    <3>3. job'.ids \subseteq Managed(w.spec.slug)
      BY <1>2, <3>1, <3>2 DEF Owned, Jobs
    <3> QED
      BY <1>2, <1>3, <3>3 DEF AimsAtManaged
  <2> QED
    BY <2>1, <2>2
<1> QED
  BY <1>1, <1>2, <1>4 DEF AimInv, Spared

\* The writes go where the worker aims (EnsureServiceIP, DeleteServiceIP).
LEMMA WriteAim ==
    ASSUME AimInv, NEW i \in Ids,
           UpdateServiceIP(i) \/ CreateServiceIP(i) \/ DeleteServiceIP(i)
    PROVE  AimInv' /\ Spared
<1>1. TypeInv'
  BY WriteTypes DEF AimInv
<1>2. w \in Workers /\ job \in Jobs /\ w.spec.slug # Nil /\ objs \in [Ids -> IPAddress \cup {Nil}]
  BY ServicesAssumption
     DEF AimInv, TypeInv, ShellTypes, WorkerOK, UpdateServiceIP, CreateServiceIP,
         DeleteServiceIP, ServicesAssumption
<1>3. objs[i] = Nil \/ objs[i].tag # Nil
  BY DEF AimInv, AimsAtManaged, UpdateServiceIP, CreateServiceIP, DeleteServiceIP, FreshIds
<1>4. \/ objs' = [objs EXCEPT ![i] = Nil]
      \/ objs' = [objs EXCEPT ![i] = Written]
  BY DEF UpdateServiceIP, CreateServiceIP, DeleteServiceIP
<1>5. Written.tag # Nil
  BY <1>2 DEF Written
<1>6. Spared
  BY <1>2, <1>3, <1>4 DEF Spared
<1>7. \A j \in Ids : objs'[j] # Nil /\ objs'[j].tag = Nil => objs[j] = objs'[j]
  BY <1>2, <1>4, <1>5
<1>8. \/ w'.pc \notin {"update", "delete"}
      \/ w'.pc = w.pc /\ job'.ids \subseteq job.ids
  BY <1>2 DEF UpdateServiceIP, CreateServiceIP, DeleteServiceIP, Proceed, Workers, Jobs
<1> QED
  BY <1>1, <1>6, <1>7, <1>8, AimKept

\* So does a write whose answer is lost.
LEMMA CallFailsAim ==
    ASSUME AimInv, CallFails
    PROVE  AimInv' /\ Spared
<1>1. TypeInv'
  BY CallFailsTypes DEF AimInv
<1>2. /\ w \in Workers /\ job.ids \subseteq Ids /\ w.spec.slug # Nil
      /\ objs \in [Ids -> IPAddress \cup {Nil}]
  BY ServicesAssumption
     DEF AimInv, TypeInv, ShellTypes, WorkerOK, Jobs, CallFails, ServicesAssumption
<1>3. w'.pc = "status"
  BY <1>2, EndTypes DEF CallFails
<1>4. Written.tag # Nil
  BY <1>2 DEF Written
<1>5. \/ objs' = objs
      \/ \E i \in Ids : /\ objs[i] = Nil \/ objs[i].tag # Nil
                        /\ \/ objs' = [objs EXCEPT ![i] = Nil]
                           \/ objs' = [objs EXCEPT ![i] = Written]
  BY <1>2 DEF AimInv, AimsAtManaged, CallFails, Outcomes, FreshIds
<1>6. Spared
  BY <1>2, <1>5 DEF Spared
<1>7. \A j \in Ids : objs'[j] # Nil /\ objs'[j].tag = Nil => objs[j] = objs'[j]
  BY <1>2, <1>4, <1>5
<1> QED
  BY <1>1, <1>3, <1>6, <1>7, AimKept

\* Users who leave the tags alone do no harm.
LEMMA EnvironmentAim ==
    ASSUME "untag" \notin Disturb, AimInv, Environment
    PROVE  AimInv' /\ Spared
<1>1. TypeInv'
  BY EnvironmentTypes DEF AimInv
<1>2. w \in Workers /\ objs \in [Ids -> IPAddress \cup {Nil}]
  BY DEF AimInv, TypeInv, ShellTypes
<1>3. /\ Spared
      /\ \A j \in Ids : objs'[j] # Nil /\ objs'[j].tag = Nil => objs[j] = objs'[j]
  <2>1. ASSUME NEW i \in Ids, Drift(i)
        PROVE  /\ \A j \in Ids \ {i} : objs'[j] = objs[j]
               /\ objs[i] # Nil /\ objs[i].tag # Nil
               /\ objs'[i] = Nil \/ objs'[i].tag = objs[i].tag
    <3>1. objs[i] \in IPAddress /\ objs[i].tag # Nil /\ objs[i] # Nil
      BY <1>2, <2>1 DEF Drift
    <3>2. \A j \in Ids \ {i} : objs'[j] = objs[j]
      BY <1>2, <2>1 DEF Drift
    <3>3. objs'[i] = Nil \/ objs'[i].tag = objs[i].tag
      BY <1>2, <2>1, <3>1 DEF Drift, IPAddress
    <3> QED
      BY <3>1, <3>2, <3>3
  <2>2. CASE UNCHANGED objs
    BY <2>2 DEF Spared
  <2>3. ASSUME NEW i \in Ids, Untag(i) PROVE FALSE
    BY <2>3 DEF Untag, May
  <2>4. CASE \E i \in Ids : Drift(i)
    BY <2>1, <2>4 DEF Spared
  <2> QED
    BY <2>2, <2>3, <2>4
       DEF Environment, enqueueAllServices, ResyncService, ServiceEvent, ServicesRestart
<1>4. \/ w'.pc \notin {"update", "delete"}
      \/ w'.pc = w.pc /\ job'.ids \subseteq job.ids
  BY <1>2, IdleTypes
     DEF Environment, StoreStep, shellVars, EditConfig, enqueueAllServices, DeliverConfigEvent,
         LoseConfigEvent, OtherStatusWrite, TimerFires, ResyncService, CacheResync,
         ServiceEvent, Drift, Untag, ServicesRestart, ShellRestart, Workers
<1> QED
  BY <1>1, <1>3, <1>4, AimKept

\* All other steps write nothing and aim at nothing.
LEMMA OtherAim ==
    ASSUME AimInv,
           \/ \E k \in Keys : TakeService(k)
           \/ SeeDeleted \/ SeeUnsynced \/ SeePaused \/ SeeLoadBalancer
           \/ EnsureManagedTag \/ BadAddress \/ StartPruning
           \/ DeletesDone \/ ObjectGone
           \/ syncServicesStatus \/ KubeFails
    PROVE  AimInv' /\ Spared
<1>1. TypeInv'
  BY TakeTypes, SeeTypes, MoveTypes, ReportTypes DEF AimInv
<1>2. UNCHANGED objs
  BY DEF TakeService, SeeDeleted, SeeUnsynced, SeePaused, SeeLoadBalancer, EnsureManagedTag,
         BadAddress, StartPruning, DeletesDone, ObjectGone, syncServicesStatus, KubeFails
<1>3. w \in Workers
  BY DEF AimInv, TypeInv, ShellTypes
<1>4. \/ w'.pc \notin {"update", "delete"}
      \/ w'.pc = w.pc /\ job'.ids \subseteq job.ids
  <2>1. CASE \E k \in Keys : TakeService(k)
    BY <1>3, <2>1 DEF TakeService, PollStore, StartReconcile, IdleWorker
  <2>2. CASE syncServicesStatus \/ KubeFails
    BY <1>3, <2>2, IdleTypes
       DEF syncServicesStatus, KubeFails, ReportStep, ReportFault, GetFails, SkipStatus,
           ReadForStatus, ReadForStatusFails, WriteStatus, StatusConflict, WriteStatusFails,
           ReturnResult, ReturnError, Workers
  <2> QED
    BY <1>3, <2>1, <2>2
       DEF SeeDeleted, SeeUnsynced, SeePaused, SeeLoadBalancer, EnsureManagedTag, BadAddress,
           StartPruning, DeletesDone, ObjectGone, Proceed, Succeed, Fail, Workers
<1> QED
  BY <1>1, <1>2, <1>4, AimKept DEF Spared

\* Every step keeps the aim and spares what is not Herald's.
LEMMA NextAim ==
    ASSUME "untag" \notin Disturb
    PROVE  AimInv /\ [Next]_vars => AimInv' /\ [Spared]_vars
<1> SUFFICES ASSUME AimInv, [Next]_vars PROVE AimInv' /\ [Spared]_vars
  OBVIOUS
<1>1. CASE UNCHANGED vars
  <2>1. TypeInv'
    BY NextTypes DEF AimInv
  <2> QED
    BY <1>1, <2>1, AimKept DEF vars, shellVars
<1>2. CASE WorkerStep
  BY <1>2, ListAim, WriteAim, OtherAim DEF WorkerStep
<1> QED
  BY <1>1, <1>2, OtherAim, CallFailsAim, EnvironmentAim DEF Next

(***************************************************************************)
(* As long as nobody takes the managed tag off an object, no step writes   *)
(* or deletes an object without it, however many pages a list has and      *)
(* whatever fails (EnsureServiceIP, DeleteServiceIPs).  The assumption is  *)
(* needed: the tag can be taken off between the list and the write, and    *)
(* the write does not look at it again.                                    *)
(***************************************************************************)
THEOREM ServicesSpareUnmanaged ==
    ASSUME "untag" \notin Disturb
    PROVE  SafetySpec => UnmanagedUntouched
<1>1. Init => AimInv
  <2>1. Init => w.pc = "idle"
    BY IdleTypes DEF Init, ShellInit
  <2> QED
    BY <2>1, InitTypes DEF AimInv, AimsAtManaged
<1> QED
  BY <1>1, NextAim, PTL DEF SafetySpec, UnmanagedUntouched, Spared

-----------------------------------------------------------------------------
(* What the steps do, for the proofs that follow. *)

\* The only ways in which NetBox changes.
LEMMA StepsOnObjects ==
    ASSUME TypeInv, [Next]_vars
    PROVE  \/ UNCHANGED objs
           \/ \E i \in Ids : Drift(i) \/ Untag(i)
           \/ /\ w.pc \in {"update", "create"}
              /\ \E i \in Ids : /\ w.pc = "update" => i \in job.ids
                                /\ w.pc = "create" => objs[i] = Nil
                                /\ objs' = [objs EXCEPT ![i] = Written]
           \/ /\ w.pc = "delete"
              /\ \E i \in job.ids : objs' = [objs EXCEPT ![i] = Nil]
<1>1. job.ids \subseteq Ids
  BY DEF TypeInv, Jobs
<1>2. CASE CallFails
  BY <1>1, <1>2 DEF CallFails, Outcomes, FreshIds
<1>3. CASE \E i \in Ids : UpdateServiceIP(i) \/ CreateServiceIP(i) \/ DeleteServiceIP(i)
  BY <1>3 DEF UpdateServiceIP, CreateServiceIP, DeleteServiceIP, FreshIds
<1> QED
  BY <1>2, <1>3
     DEF Next, WorkerStep, Environment, vars, TakeService, SeeDeleted, SeeUnsynced, SeePaused,
         SeeLoadBalancer, EnsureManagedTag, BadAddress, StartPruning, FindServiceIP,
         ListServiceIPs, DeletesDone, ObjectGone, syncServicesStatus, KubeFails,
         enqueueAllServices, ResyncService, ServiceEvent, ServicesRestart

\* What users do to an object leaves its external ID alone, and its tag unless they
\* take it off.
LEMMA UserEdits ==
    ASSUME TypeInv, NEW i \in Ids, Drift(i) \/ Untag(i)
    PROVE  /\ objs[i] # Nil
           /\ \A j \in Ids \ {i} : objs'[j] = objs[j]
           /\ \/ objs'[i] = Nil
              \/ objs'[i].xid = objs[i].xid /\ objs'[i].tag \in {objs[i].tag, Nil}
<1>1. objs \in [Ids -> IPAddress \cup {Nil}] /\ objs[i] # Nil
  BY DEF TypeInv, Drift, Untag
<1>2. objs[i] \in IPAddress /\ \A j \in Ids \ {i} : objs'[j] = objs[j]
  BY <1>1 DEF Drift, Untag
<1>3. CASE Drift(i)
  BY <1>1, <1>2, <1>3 DEF Drift, IPAddress
<1>4. CASE Untag(i)
  BY <1>1, <1>2, <1>4 DEF Untag, IPAddress
<1> QED
  BY <1>1, <1>2, <1>3, <1>4

\* What users and the rest of the process do to the worker: nothing, or all of it.
LEMMA EnvironmentAndWorker ==
    ASSUME TypeInv, Environment \/ UNCHANGED vars
    PROVE  \/ w' = IdleWorker /\ job' = NoJob /\ "crash" \in Disturb
           \/ /\ w'.pc = w.pc /\ w'.key = w.key /\ w'.spec = w.spec
              /\ w'.err = w.err /\ w'.timer = w.timer
              /\ job' = job
<1>1. w \in Workers
  BY DEF TypeInv, ShellTypes
<1> QED
  BY <1>1
     DEF Environment, vars, StoreStep, shellVars, EditConfig, enqueueAllServices,
         DeliverConfigEvent, LoseConfigEvent, OtherStatusWrite, TimerFires, ResyncService,
         CacheResync, ServiceEvent, Drift, Untag, ServicesRestart, ShellRestart, StoreRestart,
         May, Workers

\* The end of a reconcile.
LEMMA ReportAndWorker ==
    ASSUME TypeInv, syncServicesStatus \/ KubeFails
    PROVE  /\ UNCHANGED <<svc, objs>>
           /\ \/ /\ w' = IdleWorker /\ job' = NoJob
                 /\ \/ q' = AddAfter(q, w.key)
                    \/ w.pc \in {"status", "write"} /\ ~w.timer /\ q' = q
              \/ /\ w.pc = "status" /\ w'.pc = "write" /\ w'.key = w.key /\ w'.spec = w.spec
                 /\ w'.err = w.err /\ w'.timer = w.timer
                 /\ job' = job /\ q' = q
<1>1. w \in Workers /\ IdleWorker.pc = "idle"
  BY IdleTypes DEF TypeInv, ShellTypes
<1>2. CASE ReadForStatus
  <2>1. /\ w.pc = "status" /\ w'.pc = "write" /\ w'.key = w.key /\ w'.spec = w.spec
        /\ w'.err = w.err /\ w'.timer = w.timer /\ q' = q
    BY <1>1, <1>2 DEF ReadForStatus, Workers
  <2>2. syncServicesStatus
    BY <1>1, <1>2, <2>1
       DEF KubeFails, GetFails, ReportFault, ReadForStatusFails, WriteStatusFails, ReturnError
  <2> QED
    BY <2>1, <2>2 DEF syncServicesStatus
<1>3. CASE ~ReadForStatus
  BY <1>1, <1>3
     DEF syncServicesStatus, KubeFails, ReportStep, ReportFault, GetFails, SkipStatus,
         ReadForStatusFails, WriteStatus, StatusConflict, WriteStatusFails, ReturnResult,
         ReturnError
<1> QED
  BY <1>2, <1>3
-----------------------------------------------------------------------------
(***************************************************************************)
(* What the worker knows of NetBox on its way through a reconcile, if      *)
(* nobody else edits managed objects.                                      *)
(***************************************************************************)

\* Object i belongs to the Service at work.
Mine(i) ==
    /\ objs[i] # Nil
    /\ objs[i].tag = w.spec.slug
    /\ objs[i].xid[1] = w.key

\* Its address a is in NetBox.
Present(a) == \E i \in Ids : Mine(i) /\ objs[i].xid[2] = a

\* Every managed object has an external ID.
Identified ==
    \A i \in Ids : objs[i] # Nil /\ objs[i].tag # Nil => objs[i].xid \in ExternalIDs

\* It records the address of its external ID.
Faithful ==
    \A i \in Ids : objs[i] # Nil /\ objs[i].tag # Nil => objs[i].addr = objs[i].xid[2]

\* What has been ensured stays so until the end, and what is to be written or deleted
\* is what it was when it was found.
WorkRight ==
    /\ w.pc \in {"idle", "get"} => job = NoJob
    /\ w.pc \in {"tag", "ensure", "update", "create"} =>
          /\ job.svc # Nil
          /\ Qualifies(w.spec, job.svc)
          /\ \A a \in Desired \ job.todo : Present(a)
    /\ w.pc = "update" => \A i \in job.ids : Mine(i) /\ objs[i].xid[2] = job.addr
    /\ w.pc \in {"list", "delete"} =>
          /\ job.svc = Nil \/ ~Paused(w.spec)
          /\ \A a \in Desired : Present(a)
    /\ w.pc = "delete" => \A i \in job.ids : Mine(i) /\ objs[i].xid[2] \notin Desired

\* What is no longer desired is going to be deleted.
AllListed ==
    w.pc = "delete" => \A i \in Ids : Mine(i) /\ objs[i].xid[2] \notin Desired => i \in job.ids

WorkInv == TypeInv /\ Identified /\ Faithful /\ WorkRight

\* At first there is no managed object and no work.
LEMMA InitWork == Init => WorkInv /\ AllListed
<1> SUFFICES ASSUME Init PROVE WorkInv /\ AllListed
  OBVIOUS
<1>1. \A i \in Ids : objs[i] = Nil \/ objs[i].tag = Nil
  BY DEF Init
<1>2. w.pc = "idle" /\ job = NoJob
  BY IdleTypes DEF Init, ShellInit
<1> QED
  BY <1>1, <1>2, InitTypes DEF WorkInv, Identified, Faithful, WorkRight, AllListed

\* What EnsureServiceIP writes can be recognised.
LEMMA WrittenIsMine ==
    ASSUME TypeInv, w.pc \in {"update", "create"}
    PROVE  /\ Written # Nil
           /\ Written.tag = w.spec.slug /\ w.spec.slug # Nil
           /\ Written.xid \in ExternalIDs /\ Written.xid[1] = w.key
           /\ Written.xid[2] = job.addr /\ Written.addr = job.addr
<1>1. w.key \in Keys /\ w.spec \in Specs /\ job.addr \in Addrs
  BY DEF TypeInv, WorkerOK
<1>2. w.spec.slug \in Slugs /\ w.spec.slug # Nil /\ Nil \notin IPAddress
  BY <1>1, ServicesAssumption DEF ServicesAssumption
<1> QED
  BY <1>1, <1>2, WrittenType DEF Written, ExternalIDs

\* The objects keep to what EnsureServiceIP writes.
LEMMA NextIdentified == TypeInv /\ Identified /\ [Next]_vars => Identified'
<1> SUFFICES ASSUME TypeInv, Identified, [Next]_vars PROVE Identified'
  OBVIOUS
<1>1. objs \in [Ids -> IPAddress \cup {Nil}] /\ job.ids \subseteq Ids
  BY DEF TypeInv, Jobs
<1>2. CASE UNCHANGED objs
  BY <1>2 DEF Identified
<1>3. ASSUME NEW i \in Ids, Drift(i) \/ Untag(i) PROVE Identified'
  BY <1>3, UserEdits DEF Identified
<1>4. CASE w.pc = "delete" /\ \E i \in job.ids : objs' = [objs EXCEPT ![i] = Nil]
  BY <1>1, <1>4 DEF Identified
<1>5. CASE /\ w.pc \in {"update", "create"}
           /\ \E i \in Ids : objs' = [objs EXCEPT ![i] = Written]
  BY <1>1, <1>5, WrittenIsMine DEF Identified
<1> QED
  BY <1>2, <1>3, <1>4, <1>5, StepsOnObjects

\* If nobody edits them, they also record the address.
LEMMA NextFaithful ==
    ASSUME "drift" \notin Disturb, "untag" \notin Disturb
    PROVE  TypeInv /\ Faithful /\ [Next]_vars => Faithful'
<1> SUFFICES ASSUME TypeInv, Faithful, [Next]_vars PROVE Faithful'
  OBVIOUS
<1>1. objs \in [Ids -> IPAddress \cup {Nil}] /\ job.ids \subseteq Ids
  BY DEF TypeInv, Jobs
<1>2. CASE UNCHANGED objs
  BY <1>2 DEF Faithful
<1>3. ASSUME NEW i \in Ids, Drift(i) \/ Untag(i) PROVE FALSE
  BY <1>3 DEF Drift, Untag, May
<1>4. CASE w.pc = "delete" /\ \E i \in job.ids : objs' = [objs EXCEPT ![i] = Nil]
  BY <1>1, <1>4 DEF Faithful
<1>5. CASE /\ w.pc \in {"update", "create"}
           /\ \E i \in Ids : objs' = [objs EXCEPT ![i] = Written]
  BY <1>1, <1>5, WrittenIsMine DEF Faithful
<1> QED
  BY <1>2, <1>3, <1>4, <1>5, StepsOnObjects

\* The objects the worker takes from a list are those of its Service.
LEMMA OwnedAreMine ==
    ASSUME Identified, w.spec.slug # Nil
    PROVE  \A i : i \in Owned(Managed(w.spec.slug), w.key) <=> i \in Ids /\ Mine(i)
<1>1. Nil \notin ExternalIDs
  BY ServicesAssumption DEF ServicesAssumption
<1> QED
  BY <1>1 DEF Owned, Managed, Mine, Identified

\* The slug of a reconcile is one.
LEMMA SlugOfWork ==
    ASSUME TypeInv, w.pc # "idle"
    PROVE  w.spec.slug \in Slugs /\ w.spec.slug # Nil /\ w.spec.enabled \in BOOLEAN
BY ServicesAssumption DEF TypeInv, WorkerOK, ServicesAssumption

\* The way into a reconcile: what the Service as read asks for.
LEMMA SeeWork ==
    ASSUME WorkInv, SeeDeleted \/ SeeUnsynced \/ SeePaused \/ SeeLoadBalancer
    PROVE  WorkRight'
<1>1. w \in Workers /\ w.pc = "get" /\ job = NoJob /\ UNCHANGED objs
  BY DEF WorkInv, TypeInv, ShellTypes, WorkRight, SeeDeleted, SeeUnsynced, SeePaused,
         SeeLoadBalancer
<1>2. CASE SeePaused
  BY <1>1, <1>2 DEF SeePaused, Succeed, Workers, WorkRight
<1>3. CASE SeeDeleted
  <2>1. w'.pc = "list" /\ job'.svc = Nil
    BY <1>1, <1>3 DEF SeeDeleted, Proceed, Workers, NoJob
  <2> QED
    BY <2>1 DEF WorkRight, Desired
<1>4. CASE SeeUnsynced
  <2>1. w'.pc = "list" /\ w'.spec = w.spec /\ job'.svc = svc[w.key]
    BY <1>1, <1>4 DEF SeeUnsynced, Proceed, Workers, NoJob
  <2>2. Desired' = {}
    BY <1>4, <2>1 DEF SeeUnsynced, Desired
  <2>3. ~Paused(w'.spec)
    BY <1>4, <2>1 DEF SeeUnsynced, Paused
  <2> QED
    BY <2>1, <2>2, <2>3 DEF WorkRight
<1>5. CASE SeeLoadBalancer
  <2>1. /\ w'.pc = "tag" /\ w'.spec = w.spec
        /\ job'.svc = svc[w.key] /\ job'.todo = svc[w.key].ingress
    BY <1>1, <1>5 DEF SeeLoadBalancer, Proceed, Workers, NoJob
  <2>2. Desired' = job'.todo
    BY <1>5, <2>1 DEF SeeLoadBalancer, Desired
  <2> QED
    BY <1>5, <2>1, <2>2 DEF WorkRight, SeeLoadBalancer
<1> QED
  BY <1>2, <1>3, <1>4, <1>5

\* findServiceIPByExternalID and ListServiceIPs: what is found is the Service's own.
LEMMA ListWork ==
    ASSUME WorkInv, (\E a \in Addrs : FindServiceIP(a)) \/ ListServiceIPs
    PROVE  WorkRight'
<1>1. w \in Workers /\ job \in Jobs /\ w.spec.slug # Nil /\ UNCHANGED objs
  BY SlugOfWork DEF WorkInv, TypeInv, ShellTypes, FindServiceIP, ListServiceIPs
<1>2. ASSUME NEW a \in Addrs, FindServiceIP(a) PROVE WorkRight'
  <2>1. PICK page \in Pages(Managed(w.spec.slug)) :
           \/ \E i \in Matches(page, a) :
                 job' = [job EXCEPT !.addr = a, !.ids = {i}] /\ Proceed("update")
           \/ job' = [job EXCEPT !.addr = a] /\ Proceed("create")
    BY <1>2 DEF FindServiceIP
  <2>2. page \subseteq Managed(w.spec.slug)
    BY PagesOf
  <2>3. /\ w.pc = "ensure" /\ w'.pc \in {"update", "create"}
        /\ w'.spec = w.spec /\ w'.key = w.key
        /\ job'.svc = job.svc /\ job'.todo = job.todo /\ job'.addr = a
    BY <1>1, <1>2, <2>1 DEF FindServiceIP, Proceed, Workers, Jobs
  <2>4. w'.pc = "update" =>
           \A i \in job'.ids : objs[i] # Nil /\ objs[i].tag = w.spec.slug /\ objs[i].xid = <<w.key, a>>
    <3>1. CASE Proceed("create")
      BY <1>1, <3>1 DEF Proceed, Workers
    <3>2. ASSUME NEW i \in Matches(page, a), job' = [job EXCEPT !.addr = a, !.ids = {i}]
          PROVE  /\ job'.ids = {i}
                 /\ objs[i] # Nil /\ objs[i].tag = w.spec.slug /\ objs[i].xid = <<w.key, a>>
      BY <1>1, <2>2, <3>2 DEF Matches, Managed, Jobs
    <3> QED
      BY <2>1, <3>1, <3>2
  <2>5. Desired' = Desired /\ \A b : Present(b)' <=> Present(b)
    BY <1>1, <2>3 DEF Desired, Present, Mine
  <2>6. w'.pc = "update" => \A i \in job'.ids : Mine(i)' /\ objs'[i].xid[2] = a
    BY <1>1, <2>3, <2>4 DEF Mine
  <2> QED
    BY <2>3, <2>5, <2>6 DEF WorkInv, WorkRight
<1>3. CASE ListServiceIPs
  <2>1. PICK page \in Pages(Managed(w.spec.slug)) :
           job' = [job EXCEPT !.ids = {i \in Owned(page, w.key) : objs[i].xid[2] \notin Desired}]
    BY <1>3 DEF ListServiceIPs
  <2>2. page \subseteq Managed(w.spec.slug)
    BY PagesOf
  <2>3. /\ w.pc = "list" /\ w'.pc = "delete" /\ w'.spec = w.spec /\ w'.key = w.key
        /\ job'.svc = job.svc
        /\ job'.ids = {i \in Owned(page, w.key) : objs[i].xid[2] \notin Desired}
    BY <1>1, <1>3, <2>1 DEF ListServiceIPs, Proceed, Workers, Jobs
  <2>4. \A i \in job'.ids : Mine(i) /\ objs[i].xid[2] \notin Desired
    BY <2>2, <2>3, <1>1, OwnedAreMine DEF Owned, WorkInv
  <2>5. /\ Desired' = Desired
        /\ \A b : Present(b)' <=> Present(b)
        /\ \A i : Mine(i)' <=> Mine(i)
    BY <1>1, <2>3 DEF Desired, Present, Mine
  <2> QED
    BY <1>1, <2>3, <2>4, <2>5 DEF WorkInv, WorkRight
<1> QED
  BY <1>2, <1>3

\* EnsureServiceIP: one more address is there, and none is lost.
LEMMA EnsureWork ==
    ASSUME WorkInv, NEW i \in Ids, UpdateServiceIP(i) \/ CreateServiceIP(i)
    PROVE  WorkRight'
<1>1. /\ w \in Workers /\ job \in Jobs /\ objs \in [Ids -> IPAddress \cup {Nil}]
      /\ w.pc \in {"update", "create"}
  BY DEF WorkInv, TypeInv, ShellTypes, UpdateServiceIP, CreateServiceIP
<1>2. /\ w'.pc = "ensure" /\ w'.spec = w.spec /\ w'.key = w.key
      /\ job'.svc = job.svc /\ job'.todo = job.todo \ {job.addr}
  BY <1>1 DEF UpdateServiceIP, CreateServiceIP, Ensured, Proceed, Workers, Jobs
<1>3. objs'[i] = Written /\ \A j \in Ids \ {i} : objs'[j] = objs[j]
  BY <1>1 DEF UpdateServiceIP, CreateServiceIP
<1>4. Mine(i)' /\ objs'[i].xid[2] = job.addr
  BY <1>1, <1>2, <1>3, WrittenIsMine DEF Mine, WorkInv
<1>5. objs[i] = Nil \/ objs[i].xid[2] = job.addr
  BY <1>1 DEF WorkInv, WorkRight, UpdateServiceIP, CreateServiceIP, FreshIds
<1>6. Desired' = Desired
  BY <1>2 DEF Desired
<1>7. ASSUME NEW a \in Desired \ job'.todo PROVE Present(a)'
  <2>1. CASE a = job.addr
    BY <1>4, <2>1 DEF Present
  <2>2. CASE a # job.addr
    <3>1. a \in Desired \ job.todo
      BY <1>2, <2>2
    <3>2. PICK j \in Ids : Mine(j) /\ objs[j].xid[2] = a
      BY <1>1, <3>1 DEF WorkInv, WorkRight, Present
    <3>3. j # i
      BY <1>5, <2>2, <3>2 DEF Mine
    <3> QED
      BY <1>2, <1>3, <3>2, <3>3 DEF Present, Mine
  <2> QED
    BY <2>1, <2>2
<1> QED
  BY <1>1, <1>2, <1>6, <1>7 DEF WorkInv, WorkRight

\* DeleteServiceIP: only what is not desired goes.
LEMMA DeleteWork ==
    ASSUME WorkInv, NEW i \in Ids, DeleteServiceIP(i)
    PROVE  WorkRight'
<1>1. /\ w \in Workers /\ job \in Jobs /\ objs \in [Ids -> IPAddress \cup {Nil}]
      /\ w.pc = "delete" /\ i \in job.ids
  BY DEF WorkInv, TypeInv, ShellTypes, DeleteServiceIP
<1>2. /\ w'.pc = "delete" /\ w'.spec = w.spec /\ w'.key = w.key
      /\ job'.svc = job.svc /\ job'.ids = job.ids \ {i}
  BY <1>1 DEF DeleteServiceIP, Proceed, Workers, Jobs
<1>3. \A j \in Ids \ {i} : objs'[j] = objs[j]
  BY <1>1 DEF DeleteServiceIP
<1>4. Desired' = Desired
  BY <1>2 DEF Desired
<1>5. \A j \in Ids \ {i} : Mine(j)' <=> Mine(j)
  BY <1>2, <1>3 DEF Mine
<1>6. job.ids \subseteq Ids /\ objs[i].xid[2] \notin Desired
  BY <1>1 DEF Jobs, WorkInv, WorkRight
<1>7. \A a \in Desired : Present(a)'
  BY <1>1, <1>3, <1>5, <1>6 DEF Present, WorkInv, WorkRight
<1>8. \A j \in job'.ids : Mine(j)' /\ objs'[j].xid[2] \notin Desired
  BY <1>1, <1>2, <1>3, <1>5, <1>6 DEF WorkInv, WorkRight
<1> QED
  BY <1>1, <1>2, <1>4, <1>7, <1>8 DEF WorkInv, WorkRight

\* The calls that neither read nor write an object.
LEMMA MoveWork ==
    ASSUME WorkInv,
           \/ \E k \in Keys : TakeService(k)
           \/ EnsureManagedTag \/ StartPruning
           \/ BadAddress \/ DeletesDone \/ ObjectGone \/ CallFails
           \/ syncServicesStatus \/ KubeFails
    PROVE  WorkRight'
<1>1. TypeInv /\ w \in Workers /\ job \in Jobs
  BY DEF WorkInv, TypeInv, ShellTypes
<1>2. CASE \E k \in Keys : TakeService(k)
  <2>1. w.pc = "idle" /\ w'.pc \in {"idle", "get"} /\ UNCHANGED job
    BY <1>1, <1>2 DEF TakeService, PollStore, StartReconcile, IdleWorker
  <2> QED
    BY <2>1 DEF WorkInv, WorkRight
<1>3. CASE EnsureManagedTag \/ StartPruning
  <2>1. /\ w.pc \in {"tag", "ensure"} /\ w'.spec = w.spec /\ w'.key = w.key
        /\ UNCHANGED <<objs, job>>
        /\ \/ w'.pc = "ensure"
           \/ w'.pc = "list" /\ job.todo = {}
    BY <1>1, <1>3 DEF EnsureManagedTag, StartPruning, Proceed, Workers
  <2>2. Desired' = Desired /\ \A b : Present(b)' <=> Present(b)
    BY <2>1 DEF Desired, Present, Mine
  <2>3. ~Paused(w.spec)
    BY <2>1 DEF WorkInv, WorkRight, Qualifies, Paused
  <2> QED
    BY <2>1, <2>2, <2>3 DEF WorkInv, WorkRight
<1>4. CASE BadAddress \/ DeletesDone \/ ObjectGone \/ CallFails
  <2>1. w'.pc = "status"
    BY <1>1, <1>4 DEF BadAddress, DeletesDone, ObjectGone, CallFails, Fail, Succeed, Workers
  <2> QED
    BY <2>1 DEF WorkRight
<1>5. CASE syncServicesStatus \/ KubeFails
  <2>1. (w'.pc = "idle" /\ job' = NoJob) \/ w'.pc = "write"
    BY <1>1, <1>5, ReportAndWorker, IdleTypes
  <2> QED
    BY <2>1 DEF WorkRight
<1> QED
  BY <1>2, <1>3, <1>4, <1>5

\* Users who leave managed objects alone, and everything else around the worker.
LEMMA EnvironmentWork ==
    ASSUME "drift" \notin Disturb, "untag" \notin Disturb,
           WorkInv, Environment \/ UNCHANGED vars
    PROVE  WorkRight' /\ UNCHANGED objs
<1>1. ASSUME NEW i \in Ids, Drift(i) \/ Untag(i) PROVE FALSE
  BY <1>1 DEF Drift, Untag, May
<1>2. UNCHANGED objs
  BY <1>1
     DEF Environment, vars, enqueueAllServices, ResyncService, ServiceEvent, ServicesRestart
<1>3. CASE w' = IdleWorker /\ job' = NoJob
  BY <1>2, <1>3, IdleTypes DEF WorkRight
<1>4. CASE w'.pc = w.pc /\ w'.key = w.key /\ w'.spec = w.spec /\ job' = job
  <2>1. Desired' = Desired /\ \A b : (Present(b)' <=> Present(b)) /\ (Mine(b)' <=> Mine(b))
    BY <1>2, <1>4 DEF Desired, Present, Mine
  <2> QED
    BY <1>2, <1>4, <2>1 DEF WorkInv, WorkRight
<1> QED
  BY <1>3, <1>4, EnvironmentAndWorker DEF WorkInv

\* If nobody else edits managed objects, WorkInv is inductive.
LEMMA NextWork ==
    ASSUME "drift" \notin Disturb, "untag" \notin Disturb
    PROVE  WorkInv /\ [Next]_vars => WorkInv'
<1> SUFFICES ASSUME WorkInv, [Next]_vars PROVE WorkInv'
  OBVIOUS
<1>1. TypeInv' /\ Identified' /\ Faithful'
  BY NextTypes, NextIdentified, NextFaithful DEF WorkInv
<1>2. WorkRight'
  BY SeeWork, ListWork, EnsureWork, DeleteWork, MoveWork, EnvironmentWork DEF Next, WorkerStep
<1> QED
  BY <1>1, <1>2 DEF WorkInv

\* With whole pages, a list leaves out nothing that is to be deleted.
LEMMA NextListed ==
    ASSUME Cardinality(Ids) <= PageSize
    PROVE  TypeInv /\ Identified /\ AllListed /\ [Next]_vars => AllListed'
<1> SUFFICES ASSUME TypeInv, Identified, AllListed, [Next]_vars, w'.pc = "delete" PROVE AllListed'
  BY DEF AllListed
<1>1. w \in Workers /\ job \in Jobs /\ objs \in [Ids -> IPAddress \cup {Nil}]
  BY DEF TypeInv, ShellTypes
<1>2. CASE ListServiceIPs
  <2>1. w.pc = "list" /\ w.spec.slug # Nil
    BY <1>2, SlugOfWork DEF ListServiceIPs
  <2>2. Pages(Managed(w.spec.slug)) = {Managed(w.spec.slug)}
    BY WholePage DEF Managed
  <2>3. /\ w'.spec = w.spec /\ w'.key = w.key /\ job'.svc = job.svc /\ UNCHANGED objs
        /\ job'.ids = {i \in Owned(Managed(w.spec.slug), w.key) : objs[i].xid[2] \notin Desired}
    BY <1>1, <1>2, <2>2 DEF ListServiceIPs, Proceed, Workers, Jobs
  <2>4. Desired' = Desired /\ \A i : Mine(i)' <=> Mine(i)
    BY <2>3 DEF Desired, Mine
  <2> QED
    BY <2>1, <2>3, <2>4, OwnedAreMine DEF AllListed
<1>3. ASSUME NEW i \in Ids, DeleteServiceIP(i) PROVE AllListed'
  <2>1. /\ w.pc = "delete" /\ w'.spec = w.spec /\ w'.key = w.key
        /\ job'.svc = job.svc /\ job'.ids = job.ids \ {i}
        /\ objs'[i] = Nil /\ \A j \in Ids \ {i} : objs'[j] = objs[j]
    BY <1>1, <1>3 DEF DeleteServiceIP, Proceed, Workers, Jobs
  <2>2. Desired' = Desired /\ \A j \in Ids : Mine(j)' => Mine(j) /\ j # i
    BY <2>1 DEF Desired, Mine
  <2> QED
    BY <2>1, <2>2 DEF AllListed
<1>4. CASE Environment \/ UNCHANGED vars
  <2>1. w.pc = "delete" /\ w'.spec = w.spec /\ w'.key = w.key /\ job' = job
    BY <1>4, EnvironmentAndWorker, IdleTypes
  <2>2. w.spec.slug # Nil
    BY <2>1, SlugOfWork
  <2>3. UNCHANGED objs \/ \E i \in Ids : Drift(i) \/ Untag(i)
    BY <1>4
       DEF Environment, vars, enqueueAllServices, ResyncService, ServiceEvent, ServicesRestart
  <2>4. \A j \in Ids : objs'[j] # Nil /\ objs'[j].tag = w.spec.slug =>
           objs[j] # Nil /\ objs[j].tag = w.spec.slug /\ objs'[j].xid = objs[j].xid
    BY <2>2, <2>3, UserEdits
  <2>5. Desired' = Desired /\ \A j \in Ids : Mine(j)' => Mine(j) /\ objs'[j].xid = objs[j].xid
    BY <2>1, <2>4 DEF Desired, Mine
  <2> QED
    BY <2>1, <2>5 DEF AllListed
<1>5. CASE syncServicesStatus \/ KubeFails
  BY <1>5, ReportAndWorker, IdleTypes
<1>6. CASE \E k \in Keys : TakeService(k)
  BY <1>1, <1>6 DEF TakeService, PollStore, StartReconcile, IdleWorker
<1>7. CASE \/ SeeDeleted \/ SeeUnsynced \/ SeePaused \/ SeeLoadBalancer
           \/ EnsureManagedTag \/ BadAddress \/ StartPruning \/ DeletesDone \/ ObjectGone
           \/ CallFails
           \/ \E a \in Addrs : FindServiceIP(a)
           \/ \E i \in Ids : UpdateServiceIP(i) \/ CreateServiceIP(i)
  BY <1>1, <1>7
     DEF SeeDeleted, SeeUnsynced, SeePaused, SeeLoadBalancer, EnsureManagedTag, BadAddress,
         StartPruning, DeletesDone, ObjectGone, CallFails, FindServiceIP, UpdateServiceIP,
         CreateServiceIP, Proceed, Succeed, Fail, Workers
<1> QED
  BY <1>2, <1>3, <1>4, <1>5, <1>6, <1>7 DEF Next, WorkerStep

\* All ingress IPs ensured and everything else deleted: this is the moment a
\* success says something about.
LEMMA DoneIsReal ==
    ASSUME WorkInv, AllListed, DeletesDone
    PROVE  ReportedSyncIsReal'
<1>1. w \in Workers /\ w.pc = "delete" /\ job.ids = {} /\ UNCHANGED <<objs, job>>
  BY DEF WorkInv, TypeInv, ShellTypes, DeletesDone
<1>2. w'.spec = w.spec /\ w'.key = w.key /\ w.spec.slug # Nil
  BY <1>1, SlugOfWork DEF WorkInv, DeletesDone, Succeed, Workers
<1> DEFINE own == Owned(Managed(w.spec.slug), w.key)
<1>3. \A i : i \in own <=> i \in Ids /\ Mine(i)
  BY <1>2, OwnedAreMine DEF WorkInv
<1>4. \A i \in own : objs[i].xid[2] \in Desired /\ objs[i].addr = objs[i].xid[2]
  BY <1>1, <1>2, <1>3 DEF WorkInv, AllListed, Faithful, Mine
<1>5. \A a \in Desired : \E i \in own : objs[i].xid[2] = a
  BY <1>1, <1>3 DEF WorkInv, WorkRight, Present
<1>6. Recorded(w.spec.slug, w.key, Desired)
  BY <1>4, <1>5 DEF Recorded
<1>7. Recorded(w.spec.slug, w.key, Desired)'
  BY <1>1, <1>2, <1>6 DEF Recorded, Owned, Managed, Desired
<1> QED
  BY <1>7 DEF ReportedSyncIsReal

\* From there to the status update nothing changes; other reports are failures, or
\* those of a pause.
LEMMA NextReported ==
    ASSUME "drift" \notin Disturb, "untag" \notin Disturb,
           WorkInv, AllListed, ReportedSyncIsReal, [Next]_vars
    PROVE  ReportedSyncIsReal'
<1>1. w \in Workers /\ TypeInv
  BY DEF WorkInv, TypeInv, ShellTypes
<1>2. ASSUME w'.pc = w.pc \/ (w.pc = "status" /\ w'.pc = "write"),
             w'.key = w.key, w'.spec = w.spec, w'.err = w.err, job' = job, UNCHANGED objs
      PROVE  ReportedSyncIsReal'
  BY <1>2 DEF ReportedSyncIsReal, Recorded, Owned, Managed, Desired
<1>3. ASSUME w'.pc \notin {"status", "write"} \/ w'.err PROVE ReportedSyncIsReal'
  BY <1>3 DEF ReportedSyncIsReal
<1>4. CASE Environment \/ UNCHANGED vars
  BY <1>1, <1>2, <1>3, <1>4, EnvironmentAndWorker, EnvironmentWork, IdleTypes
<1>5. CASE syncServicesStatus \/ KubeFails
  BY <1>1, <1>2, <1>3, <1>5, ReportAndWorker, IdleTypes
<1>6. CASE \E k \in Keys : TakeService(k)
  BY <1>1, <1>3, <1>6 DEF TakeService, PollStore, StartReconcile, IdleWorker
<1>7. CASE BadAddress \/ ObjectGone \/ CallFails
  BY <1>1, <1>3, <1>7 DEF BadAddress, ObjectGone, CallFails, Fail, Workers
<1>8. CASE SeePaused
  <2>1. w'.spec = w.spec /\ job'.svc # Nil /\ Paused(w.spec)
    BY <1>1, <1>8 DEF SeePaused, Succeed, Workers, NoJob, Paused
  <2> QED
    BY <2>1 DEF ReportedSyncIsReal
<1>9. CASE \/ SeeDeleted \/ SeeUnsynced \/ SeeLoadBalancer
           \/ EnsureManagedTag \/ StartPruning \/ ListServiceIPs
           \/ \E a \in Addrs : FindServiceIP(a)
           \/ \E i \in Ids : UpdateServiceIP(i) \/ CreateServiceIP(i) \/ DeleteServiceIP(i)
  BY <1>1, <1>3, <1>9
     DEF SeeDeleted, SeeUnsynced, SeeLoadBalancer, EnsureManagedTag, StartPruning,
         ListServiceIPs, FindServiceIP, UpdateServiceIP, CreateServiceIP, DeleteServiceIP,
         Proceed, Workers
<1> QED
  BY <1>4, <1>5, <1>6, <1>7, <1>8, <1>9, DoneIsReal DEF Next, WorkerStep

(***************************************************************************)
(* If lists return all objects and nobody else edits managed ones, a       *)
(* reconcile that is about to report success has left in NetBox exactly    *)
(* the addresses of the Service it read: whatever failed attempts, lost    *)
(* answers and restarts left before it, and whatever happens to the        *)
(* HeraldConfig and the Services meanwhile (syncServiceAddresses,          *)
(* DeleteServiceIPs, syncServicesStatus).  The first assumption is needed: *)
(* see ServicesPaging.                                                     *)
(***************************************************************************)
THEOREM ServiceReportsAreReal ==
    ASSUME Cardinality(Ids) <= PageSize, "drift" \notin Disturb, "untag" \notin Disturb
    PROVE  SafetySpec => []ReportedSyncIsReal
<1> DEFINE Inv == WorkInv /\ AllListed /\ ReportedSyncIsReal
<1>1. Init => Inv
  <2>1. Init => w.pc = "idle"
    BY IdleTypes DEF Init, ShellInit
  <2> QED
    BY <2>1, InitWork DEF ReportedSyncIsReal
<1>2. Inv /\ [Next]_vars => Inv'
  BY NextWork, NextListed, NextReported DEF WorkInv
<1> QED
  BY <1>1, <1>2, PTL DEF SafetySpec
-----------------------------------------------------------------------------
(***************************************************************************)
(* If nobody else edits managed objects, a pause keeps what there is: the  *)
(* only writes are deletions of what belongs to a Service that was found   *)
(* deleted, however many pages there are and whatever fails (Reconcile:    *)
(* retainOnDisable).  A reconcile still at work from before the pause is   *)
(* another matter, which PausedUntouched leaves out.                       *)
(***************************************************************************)
THEOREM PausesAreKept ==
    ASSUME "drift" \notin Disturb, "untag" \notin Disturb
    PROVE  SafetySpec => PausedUntouched
<1> DEFINE Kept ==
      (store # Nil /\ Paused(store) /\ w.spec \in {Nil, store})
        => \A i \in Ids : objs'[i] # objs[i] =>
              job.svc = Nil /\ i \in Owned(Managed(store.slug), w.key) /\ objs'[i] = Nil
<1>1. WorkInv /\ [Next]_vars => Kept
  <2> SUFFICES ASSUME WorkInv, [Next]_vars, store # Nil, Paused(store), w.spec \in {Nil, store},
                      NEW i \in Ids, objs'[i] # objs[i]
               PROVE  job.svc = Nil /\ i \in Owned(Managed(store.slug), w.key) /\ objs'[i] = Nil
    OBVIOUS
  <2>1. objs \in [Ids -> IPAddress \cup {Nil}] /\ TypeInv
    BY DEF WorkInv, TypeInv
  <2>2. ASSUME NEW j \in Ids, Drift(j) \/ Untag(j) PROVE FALSE
    BY <2>2 DEF Drift, Untag, May
  <2>3. w.pc # "idle" => w.spec = store
    BY NilAssumption DEF WorkInv, TypeInv, WorkerOK, NilAssumption
  <2>4. w.pc \notin {"update", "create"}
    BY <2>3 DEF WorkInv, WorkRight, Qualifies, Paused
  <2>5. w.pc = "delete" /\ i \in job.ids /\ objs'[i] = Nil
    BY <2>1, <2>2, <2>4, StepsOnObjects
  <2>6. job.svc = Nil /\ Mine(i) /\ w.spec = store /\ w.spec.slug # Nil
    BY <2>1, <2>3, <2>5, SlugOfWork DEF WorkInv, WorkRight
  <2> QED
    BY <2>5, <2>6, OwnedAreMine DEF WorkInv
<1>2. WorkInv /\ [Next]_vars => [Kept]_vars
  BY <1>1
<1>3. Init => WorkInv
  BY InitWork
<1> QED
  BY <1>2, <1>3, NextWork, PTL DEF SafetySpec, PausedUntouched

-----------------------------------------------------------------------------
(***************************************************************************)
(* Nothing is forgotten.  The queue drops a key for good only where        *)
(* Reconcile returns Result{}; so what matters is what the worker knows    *)
(* when no further reconcile is asked for: the Service it found deleted is *)
(* still deleted, or else an event has queued it again, and nothing of it  *)
(* is left in NetBox.                                                      *)
(***************************************************************************)
Remembered ==
    /\ w.pc = "idle" => w.key = Nil
    /\ w.pc \in {"idle", "get"} => job = NoJob
    /\ w.pc \in {"tag", "ensure", "update", "create"} => job.svc # Nil
    /\ w.pc \in {"update", "delete"} => \A i \in job.ids : objs[i] # Nil
    /\ w.pc \in {"status", "write"} => w.timer \/ job.svc = Nil
    /\ w.pc \in {"list", "delete", "status", "write"} /\ job.svc = Nil =>
          (q[w.key] = "absent" => svc[w.key] = Nil)
    /\ w.pc \in {"status", "write"} /\ job.svc = Nil => \A i \in Ids : ~Mine(i)

ForgetInv == TypeInv /\ Identified /\ AllListed /\ Remembered /\ NothingForgotten

\* No call fails (an object that is deleted while it is about to be written included),
\* and the process lives.
NoFailure ==
    /\ "fault" \notin Disturb
    /\ "race" \notin Disturb
    /\ "crash" \notin Disturb
    /\ Unparseable = {}

\* At first every Service that exists is queued.
LEMMA InitForget == Init => ForgetInv
<1> SUFFICES ASSUME Init PROVE ForgetInv
  OBVIOUS
<1>1. \A i \in Ids : objs[i] = Nil \/ objs[i].tag = Nil
  BY DEF Init
<1>2. w.pc = "idle" /\ w.key = Nil /\ job = NoJob
  BY DEF Init, ShellInit, IdleWorker
<1>3. \A k \in Keys : q[k] = "absent" => svc[k] = Nil
  BY DEF Init, ShellInit, FirstEvents, Existing
<1> QED
  BY <1>1, <1>2, <1>3, InitWork DEF WorkInv, ForgetInv, Remembered, NothingForgotten

\* Events only queue; who changes a Service also queues it.
LEMMA EventsQueue ==
    ASSUME "crash" \notin Disturb, TypeInv, Environment \/ UNCHANGED vars
    PROVE  \A k \in Keys : q'[k] = "absent" => q[k] = "absent" /\ svc'[k] = svc[k]
<1>1. q \in [Keys -> QueueState] /\ svc \in [Keys -> Service \cup {Nil}]
  BY DEF TypeInv, ShellTypes
<1>2. ASSUME NEW k \in Keys, NEW shape, ServiceEvent(k, shape)
      PROVE  \A j \in Keys : q'[j] = "absent" => q[j] = "absent" /\ svc'[j] = svc[j]
  BY <1>1, <1>2 DEF ServiceEvent, Add
<1>3. ASSUME NEW k \in Keys, TimerFires(k)
      PROVE  \A j \in Keys : q'[j] = "absent" => q[j] = "absent"
  BY <1>1, <1>3 DEF TimerFires, Elapse
<1>4. ASSUME NEW K, q' = Add(q, K)
      PROVE  \A j \in Keys : q'[j] = "absent" => q[j] = "absent"
  BY <1>1, <1>4 DEF Add
<1> QED
  BY <1>2, <1>3, <1>4
     DEF Environment, vars, StoreStep, shellVars, EditConfig, enqueueAllServices,
         DeliverConfigEvent, LoseConfigEvent, OtherStatusWrite, ResyncService, CacheResync,
         Drift, Untag, ServicesRestart, ShellRestart, StoreRestart, May

\* Users bring no managed object, and take none away that is about to be written.
LEMMA UsersBringNothing ==
    ASSUME "race" \notin Disturb, TypeInv, Environment \/ UNCHANGED vars
    PROVE  /\ \A i \in Ids : objs'[i] # Nil /\ objs'[i].tag # Nil =>
                 objs[i] # Nil /\ objs[i].tag = objs'[i].tag /\ objs[i].xid = objs'[i].xid
           /\ \A i \in job.ids : objs[i] # Nil => objs'[i] # Nil
<1>1. UNCHANGED objs \/ \E i \in Ids : Drift(i) \/ Untag(i)
  BY DEF Environment, vars, enqueueAllServices, ResyncService, ServiceEvent, ServicesRestart
<1>2. objs \in [Ids -> IPAddress \cup {Nil}] /\ job.ids \subseteq Ids
  BY DEF TypeInv, Jobs
<1>3. ASSUME NEW i \in Ids, Drift(i) \/ Untag(i)
      PROVE  \A j \in job.ids : objs[j] # Nil => objs'[j] # Nil
  <2>1. CASE Drift(i)
    BY <1>2, <1>3, <2>1, UserEdits DEF Drift
  <2>2. CASE Untag(i)
    <3>1. objs[i] \in IPAddress /\ Nil \notin IPAddress
      BY <1>2, <2>2, ServicesAssumption DEF Untag, ServicesAssumption
    <3>2. [objs[i] EXCEPT !.tag = Nil] \in IPAddress
      BY <3>1 DEF IPAddress
    <3>3. objs'[i] = [objs[i] EXCEPT !.tag = Nil]
      BY <1>2, <2>2 DEF Untag
    <3> QED
      BY <1>2, <1>3, <3>1, <3>2, <3>3, UserEdits
  <2> QED
    BY <1>3, <2>1, <2>2
<1> QED
  BY <1>1, <1>3, UserEdits

\* Whatever happens around the worker.
LEMMA EnvironmentForget ==
    ASSUME NoFailure, ForgetInv, Environment \/ UNCHANGED vars
    PROVE  Remembered' /\ NothingForgotten'
<1>1. TypeInv /\ w \in Workers
  BY DEF ForgetInv, TypeInv, ShellTypes
<1>2. /\ w'.pc = w.pc /\ w'.key = w.key /\ w'.spec = w.spec /\ w'.timer = w.timer
      /\ job' = job
  BY <1>1, EnvironmentAndWorker DEF NoFailure
<1>3. \A k \in Keys : q'[k] = "absent" => q[k] = "absent" /\ svc'[k] = svc[k]
  BY <1>1, EventsQueue DEF NoFailure
<1>4. /\ \A i \in Ids : objs'[i] # Nil /\ objs'[i].tag # Nil =>
            objs[i] # Nil /\ objs[i].tag = objs'[i].tag /\ objs[i].xid = objs'[i].xid
      /\ \A i \in job.ids : objs[i] # Nil => objs'[i] # Nil
  BY <1>1, UsersBringNothing DEF NoFailure
<1>5. NothingForgotten'
  BY <1>2, <1>3, <1>4 DEF ForgetInv, NothingForgotten
<1>6. w.pc # "idle" => w.key \in Keys /\ \A i \in Ids : Mine(i)' => Mine(i)
  BY <1>1, <1>2, <1>4, SlugOfWork DEF Mine, TypeInv, WorkerOK
<1>7. Remembered'
  BY <1>2, <1>3, <1>4, <1>6 DEF ForgetInv, Remembered
<1> QED
  BY <1>5, <1>7

\* What a step at work has to establish.
LEMMA WorkForgets ==
    ASSUME ForgetInv, w.pc # "idle", w'.key = w.key, UNCHANGED <<q, svc>>,
           \/ UNCHANGED objs
           \/ /\ w.pc \in {"update", "create"}
              /\ \E i \in Ids : objs' = [objs EXCEPT ![i] = Written]
           \/ \E i \in Ids : objs' = [objs EXCEPT ![i] = Nil]
    PROVE  NothingForgotten'
<1>1. objs \in [Ids -> IPAddress \cup {Nil}] /\ TypeInv
  BY DEF ForgetInv, TypeInv
<1>2. w.pc \in {"update", "create"} => Written.xid[1] = w.key
  BY <1>1, WrittenIsMine
<1>3. \A i \in Ids : objs'[i] # Nil /\ objs'[i].tag # Nil /\ objs'[i].xid[1] # w.key =>
         objs[i] = objs'[i]
  BY <1>1, <1>2
<1> QED
  BY <1>3 DEF ForgetInv, NothingForgotten

\* Reconcile begins.
LEMMA TakeForget ==
    ASSUME ForgetInv, NEW k \in Keys, TakeService(k)
    PROVE  Remembered' /\ NothingForgotten'
<1>1. /\ q \in [Keys -> QueueState] /\ w.pc = "idle" /\ w.key = Nil /\ job = NoJob
      /\ UNCHANGED <<svc, objs, job>>
  BY DEF ForgetInv, TypeInv, ShellTypes, Remembered, TakeService, PollStore, StartReconcile
<1>2. \A j \in Keys : j # w.key
  BY <1>1, KeysAssumption DEF KeysAssumption
<1>3. CASE PollStore(k)
  <2>1. \A j \in Keys : q'[j] = "absent" => q[j] = "absent"
    BY <1>1, <1>3 DEF PollStore, Take, AddAfter
  <2> QED
    BY <1>1, <1>2, <1>3, <2>1 DEF PollStore, ForgetInv, Remembered, NothingForgotten
<1>4. CASE StartReconcile(k)
  <2>1. w'.pc = "get" /\ w'.key = k /\ \A j \in Keys \ {k} : q'[j] = q[j]
    BY <1>1, <1>4 DEF StartReconcile, IdleWorker, Take
  <2> QED
    BY <1>1, <1>2, <2>1 DEF ForgetInv, Remembered, NothingForgotten
<1> QED
  BY <1>3, <1>4 DEF TakeService

\* What was read of the Service.
LEMMA SeeForget ==
    ASSUME ForgetInv, SeeDeleted \/ SeeUnsynced \/ SeePaused \/ SeeLoadBalancer
    PROVE  Remembered' /\ NothingForgotten'
<1>1. w \in Workers /\ w.pc = "get" /\ job = NoJob /\ NoJob.svc = Nil /\ NoJob \in Jobs
  BY IdleTypes
     DEF ForgetInv, TypeInv, ShellTypes, Remembered, NoJob, SeeDeleted, SeeUnsynced, SeePaused,
         SeeLoadBalancer
<1>2. w'.key = w.key /\ UNCHANGED <<q, svc, objs>>
  BY <1>1 DEF SeeDeleted, SeeUnsynced, SeePaused, SeeLoadBalancer, Proceed, Succeed, Workers
<1>3. CASE SeeDeleted
  <2>1. w'.pc = "list" /\ job'.svc = Nil /\ svc[w.key] = Nil
    BY <1>1, <1>3 DEF SeeDeleted, Proceed, Workers
  <2> QED
    BY <1>1, <1>2, <2>1, WorkForgets DEF Remembered
<1>4. CASE SeeUnsynced \/ SeePaused \/ SeeLoadBalancer
  <2>1. job'.svc # Nil
    BY <1>1, <1>4 DEF SeeUnsynced, SeePaused, SeeLoadBalancer, NoJob
  <2>2. w'.pc \in {"list", "tag"} \/ (w'.pc = "status" /\ w'.timer)
    BY <1>1, <1>4 DEF SeeUnsynced, SeePaused, SeeLoadBalancer, Proceed, Succeed, Workers
  <2> QED
    BY <1>1, <1>2, <2>1, <2>2, WorkForgets DEF Remembered
<1> QED
  BY <1>3, <1>4

\* The calls on the way, and the writes.
LEMMA StepForget ==
    ASSUME ForgetInv,
           \/ EnsureManagedTag \/ StartPruning \/ ListServiceIPs
           \/ \E a \in Addrs : FindServiceIP(a)
           \/ \E i \in Ids : UpdateServiceIP(i) \/ CreateServiceIP(i) \/ DeleteServiceIP(i)
    PROVE  Remembered' /\ NothingForgotten'
<1>1. w \in Workers /\ job \in Jobs /\ objs \in [Ids -> IPAddress \cup {Nil}]
  BY DEF ForgetInv, TypeInv, ShellTypes
<1>2. w.pc \in {"tag", "ensure", "update", "create", "list", "delete"}
  BY DEF EnsureManagedTag, StartPruning, ListServiceIPs, FindServiceIP, UpdateServiceIP,
         CreateServiceIP, DeleteServiceIP
<1>3. w'.key = w.key /\ job'.svc = job.svc /\ UNCHANGED <<q, svc>>
  BY <1>1
     DEF EnsureManagedTag, StartPruning, ListServiceIPs, FindServiceIP, UpdateServiceIP,
         CreateServiceIP, DeleteServiceIP, Proceed, Ensured, Workers, Jobs
<1>4. NothingForgotten'
  BY <1>2, <1>3, WorkForgets
     DEF EnsureManagedTag, StartPruning, ListServiceIPs, FindServiceIP, UpdateServiceIP,
         CreateServiceIP, DeleteServiceIP
<1>5. \/ w.pc \notin {"list", "delete"} /\ w'.pc \in {"ensure", "update", "create", "list"}
      \/ w.pc \in {"list", "delete"} /\ w'.pc = "delete"
  BY <1>1
     DEF EnsureManagedTag, StartPruning, ListServiceIPs, FindServiceIP, UpdateServiceIP,
         CreateServiceIP, DeleteServiceIP, Proceed, Workers
<1>6. w'.pc \in {"update", "delete"} => \A i \in job'.ids : objs'[i] # Nil
  <2>1. ASSUME NEW a \in Addrs, FindServiceIP(a), w'.pc = "update"
        PROVE  \A i \in job'.ids : objs'[i] # Nil
    <3>1. PICK page \in Pages(Managed(w.spec.slug)) :
             \/ \E i \in Matches(page, a) : job' = [job EXCEPT !.addr = a, !.ids = {i}]
             \/ Proceed("create")
      BY <2>1 DEF FindServiceIP
    <3>2. page \subseteq Managed(w.spec.slug)
      BY PagesOf
    <3>3. PICK i \in Matches(page, a) : job' = [job EXCEPT !.addr = a, !.ids = {i}]
      BY <1>1, <2>1, <3>1 DEF Proceed, Workers
    <3>4. job'.ids = {i} /\ objs[i] # Nil
      BY <1>1, <3>2, <3>3 DEF Matches, Managed, Jobs
    <3> QED
      BY <2>1, <3>4 DEF FindServiceIP
  <2>2. CASE ListServiceIPs
    <3>1. PICK page \in Pages(Managed(w.spec.slug)) :
             job' = [job EXCEPT !.ids = {i \in Owned(page, w.key) : objs[i].xid[2] \notin Desired}]
      BY <2>2 DEF ListServiceIPs
    <3>2. page \subseteq Managed(w.spec.slug)
      BY PagesOf
    <3> QED
      BY <1>1, <2>2, <3>1, <3>2 DEF ListServiceIPs, Owned, Managed, Jobs
  <2>3. ASSUME NEW i \in Ids, DeleteServiceIP(i)
        PROVE  \A j \in job'.ids : objs'[j] # Nil
    <3>1. job'.ids = job.ids \ {i} /\ job.ids \subseteq Ids /\ w.pc = "delete"
      BY <1>1, <2>3 DEF DeleteServiceIP, Jobs
    <3> QED
      BY <1>1, <2>3, <3>1 DEF DeleteServiceIP, ForgetInv, Remembered
  <2>4. CASE \/ EnsureManagedTag \/ StartPruning
             \/ \E i \in Ids : UpdateServiceIP(i) \/ CreateServiceIP(i)
    BY <1>1, <2>4
       DEF EnsureManagedTag, StartPruning, UpdateServiceIP, CreateServiceIP, Proceed, Workers
  <2> QED
    BY <1>1, <2>1, <2>2, <2>3, <2>4 DEF FindServiceIP, Proceed, Workers
<1>7. Remembered'
  BY <1>2, <1>3, <1>5, <1>6 DEF ForgetInv, Remembered
<1> QED
  BY <1>4, <1>7

\* Everything is deleted: a Service that is gone has nothing left.
LEMMA DoneForget ==
    ASSUME ForgetInv, DeletesDone
    PROVE  Remembered' /\ NothingForgotten'
<1>1. w \in Workers /\ w.pc = "delete" /\ job.ids = {} /\ UNCHANGED <<q, svc, objs, job>>
  BY DEF ForgetInv, TypeInv, ShellTypes, DeletesDone, Succeed
<1>2. /\ w'.pc = "status" /\ w'.key = w.key /\ w'.spec = w.spec
      /\ w'.timer = (job.svc # Nil)
  BY <1>1 DEF DeletesDone, Succeed, Workers
<1>3. job.svc = Nil => \A i \in Ids : ~Mine(i)
  BY <1>1 DEF ForgetInv, AllListed, Desired
<1>4. job.svc = Nil => \A i \in Ids : ~Mine(i)'
  BY <1>1, <1>2, <1>3 DEF Mine
<1> QED
  BY <1>1, <1>2, <1>4, WorkForgets DEF ForgetInv, Remembered

\* Reconcile returns.
LEMMA ReturnForget ==
    ASSUME \A s, t \in Slugs : s = t, ForgetInv, syncServicesStatus \/ KubeFails
    PROVE  Remembered' /\ NothingForgotten'
<1>1. TypeInv /\ w \in Workers /\ q \in [Keys -> QueueState]
  BY DEF ForgetInv, TypeInv, ShellTypes
<1>2. CASE /\ w.pc = "status" /\ w'.pc = "write" /\ w'.key = w.key /\ w'.spec = w.spec
           /\ w'.timer = w.timer /\ UNCHANGED <<job, q, svc, objs>>
  BY <1>2, WorkForgets DEF ForgetInv, Remembered, Mine
<1>3. CASE /\ w' = IdleWorker /\ job' = NoJob /\ UNCHANGED <<svc, objs>>
           /\ \/ q' = AddAfter(q, w.key)
              \/ w.pc \in {"status", "write"} /\ ~w.timer /\ q' = q
  <2>1. w.pc # "idle"
    BY DEF syncServicesStatus, KubeFails, ReportStep, ReportFault, GetFails, SkipStatus,
           ReadForStatus, ReadForStatusFails, WriteStatus, StatusConflict, WriteStatusFails
  <2>2. w.key \in Keys /\ w.spec.slug \in Slugs
    BY <1>1, <2>1, SlugOfWork DEF TypeInv, WorkerOK
  <2>3. Remembered'
    BY <1>3 DEF IdleWorker, Remembered
  <2>4. q'[w.key] = "absent" =>
           /\ svc[w.key] = Nil
           /\ \A i \in Ids : ~Mine(i)
    <3>1. CASE q' = AddAfter(q, w.key)
      BY <1>1, <2>2, <3>1 DEF AddAfter
    <3>2. CASE w.pc \in {"status", "write"} /\ ~w.timer /\ q' = q
      BY <3>2 DEF ForgetInv, Remembered
    <3> QED
      BY <1>3, <3>1, <3>2
  <2>5. \A i \in Ids : objs[i] # Nil /\ objs[i].tag # Nil => objs[i].tag = w.spec.slug
    BY <1>1, <2>2 DEF TypeInv, IPAddress
  <2>6. \A k \in Keys \ {w.key} : q'[k] = q[k]
    BY <1>1, <1>3, <2>2 DEF AddAfter
  <2>7. NothingForgotten'
    BY <1>3, <2>4, <2>5, <2>6 DEF ForgetInv, NothingForgotten, Mine
  <2> QED
    BY <2>3, <2>7
<1> QED
  BY <1>1, <1>2, <1>3, ReportAndWorker

(***************************************************************************)
(* As long as no call to NetBox fails, all addresses can be parsed, the    *)
(* process lives, the managed tag is not changed and lists return all      *)
(* objects, no Service is ever forgotten, whatever users edit and however  *)
(* the HeraldConfig changes meanwhile: errors of the Kubernetes API are    *)
(* returned, so that the key comes back (Reconcile: every path that        *)
(* returns Result{}).  Each assumption is needed: a failed call returns    *)
(* Result{} too.                                                           *)
(***************************************************************************)
THEOREM NoServiceIsForgotten ==
    ASSUME NoFailure, Cardinality(Ids) <= PageSize, \A s, t \in Slugs : s = t
    PROVE  SafetySpec => []NothingForgotten
<1>1. ForgetInv /\ [Next]_vars => ForgetInv'
  <2> SUFFICES ASSUME ForgetInv, [Next]_vars PROVE ForgetInv'
    OBVIOUS
  <2>1. TypeInv' /\ Identified' /\ AllListed'
    BY NextTypes, NextIdentified, NextListed DEF ForgetInv
  <2>2. ~CallFails /\ ~BadAddress /\ ~ObjectGone
    BY DEF NoFailure, CallFails, May, BadAddress, ObjectGone, ForgetInv, Remembered
  <2>3. Remembered' /\ NothingForgotten'
    BY <2>2, EnvironmentForget, TakeForget, SeeForget, StepForget, DoneForget, ReturnForget
       DEF Next, WorkerStep
  <2> QED
    BY <2>1, <2>3 DEF ForgetInv
<1>2. ForgetInv => NothingForgotten
  BY DEF ForgetInv
<1> QED
  BY <1>1, <1>2, InitForget, PTL DEF SafetySpec

=============================================================================
