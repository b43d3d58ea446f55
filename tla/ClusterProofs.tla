--------------------------- MODULE ClusterProofs ---------------------------
(***************************************************************************)
(* Theorems about Cluster, for every set of specs, names, tags, references *)
(* and disturbances, and any Clusters of others.                           *)
(***************************************************************************)
EXTENDS Cluster, ShellProofs

\* The steps Reconcile adds to those of the shell.
Steps == {"tag", "find", "lookup", "update", "create", "delete", "report"}

Jobs == [todo : SUBSET References, ids : SUBSET Ids]

\* The inductive form of ClusterTypeOK.
TypeInv ==
    /\ ShellInv(Steps)
    /\ objs \in [Ids -> ClusterObject \cup {Nil}]
    /\ missing \in SUBSET References
    /\ job \in Jobs
-----------------------------------------------------------------------------
(* TypeInv is inductive: one lemma for each part of Next. *)

\* The types hold in a new process (main.go).
LEMMA InitTypes == Init => TypeInv
<1> SUFFICES ASSUME Init PROVE TypeInv
  OBVIOUS
<1>1. ShellInv(Steps)
  BY ShellInitTypes DEF Init
<1>2. objs \in [Ids -> ClusterObject \cup {Nil}]
  BY ClusterAssumption DEF Init, ClusterAssumption
<1>3. missing \in SUBSET References /\ job \in Jobs
  BY ClusterAssumption DEF Init, ClusterAssumption, NoJob, Jobs
<1> QED
  BY <1>1, <1>2, <1>3 DEF TypeInv

\* What EnsureCluster writes is a Cluster of this cluster.
LEMMA WrittenType ==
    ASSUME TypeInv, w.pc # "idle"
    PROVE  Written \in ClusterObject /\ Written.xid = Uid /\ Written.tag = w.spec.slug
<1>1. w.spec \in Specs
  BY DEF TypeInv, ShellInv
<1>2. w.spec.slug \in Slugs /\ w.spec.name \in Names /\ w.spec.named \subseteq {"group", "site"}
  BY <1>1, ClusterAssumption DEF ClusterAssumption, ClusterConfig
<1> QED
  BY <1>2 DEF Written, ClusterObject, Lookups, References

\* The end of the work, good or bad.
LEMMA EndTypes ==
    ASSUME TypeInv, w.pc # "idle", Finish \/ FailWith
    PROVE  ShellInv(Steps)' /\ w'.pc \in {"write", "report"}
<1>1. /\ w' \in ShellWorkers(Steps)
      /\ w'.pc \in {"write", "report"} /\ w'.key = w.key /\ w'.spec = w.spec
  BY DEF Finish, FailWith, ShellWorkers, Steps, TypeInv, ShellInv
<1> QED
  BY <1>1 DEF Finish, FailWith, TypeInv, ShellInv, storeVars, StoreTypeOK

\* Users, other controllers, timers and restarts.
LEMMA EnvironmentTypes ==
    ASSUME TypeInv, Environment
    PROVE  TypeInv'
<1>1. ASSUME UNCHANGED clusterVars, ShellInv(Steps)'
      PROVE  TypeInv'
  BY <1>1 DEF TypeInv, clusterVars
<1>2. CASE /\ StoreStep \/ \E spec \in Specs \cup {Nil} : EditConfig(spec)
           /\ UNCHANGED clusterVars
  BY <1>1, <1>2, ShellConfig DEF TypeInv
<1>3. CASE QueueConfig \/ (OtherStatusWrite /\ UNCHANGED clusterVars)
  BY <1>1, <1>3, ShellEvents DEF TypeInv, QueueConfig
<1>4. CASE TimerFires(Singleton) /\ UNCHANGED clusterVars
  <2>1. Singleton \in Keys
    BY ClusterAssumption DEF ClusterAssumption
  <2> QED
    BY <1>1, <1>4, <2>1, ShellEvents DEF TypeInv
<1>5. ASSUME NEW i \in Ids, Drift(i) PROVE TypeInv'
  <2>1. ShellInv(Steps)'
    BY <1>5, ShellUnchanged DEF Drift, TypeInv
  <2> QED
    BY <1>5, <2>1 DEF Drift, TypeInv
<1>6. ASSUME NEW r \in Fragile, ChangeReference(r) PROVE TypeInv'
  <2>1. ShellInv(Steps)'
    BY <1>6, ShellUnchanged DEF ChangeReference, TypeInv
  <2> QED
    BY <1>6, <2>1, ClusterAssumption DEF ChangeReference, TypeInv, ClusterAssumption
<1>7. CASE ClusterRestart
  <2>1. ShellInv(Steps)'
    BY <1>7, ShellRestartTypes DEF ClusterRestart, TypeInv
  <2> QED
    BY <1>7, <2>1 DEF ClusterRestart, TypeInv, NoJob, Jobs
<1> QED
  BY <1>2, <1>3, <1>4, <1>5, <1>6, <1>7 DEF Environment

\* Reconcile up to the search for the Cluster.
LEMMA SeeTypes ==
    ASSUME TypeInv, TakeConfig \/ SeeDeleted \/ SeeConfig \/ EnsureManagedTag
    PROVE  TypeInv'
<1>1. ShellInv(Steps)'
  <2>1. CASE TakeConfig
    <3>1. Singleton \in Keys
      BY ClusterAssumption DEF ClusterAssumption
    <3> QED
      BY <2>1, <3>1, ShellTake DEF TakeConfig, TypeInv
  <2>2. CASE SeeDeleted
    BY <2>2, ShellReturn DEF SeeDeleted, TypeInv, ShellInv
  <2>3. CASE SeeConfig
    <3>1. w' \in ShellWorkers(Steps) /\ w'.key = w.key /\ w'.spec = w.spec
      BY <2>3 DEF SeeConfig, ShellWorkers, Steps, TypeInv, ShellInv
    <3> QED
      BY <2>3, <3>1 DEF SeeConfig, TypeInv, ShellInv, storeVars, StoreTypeOK
  <2>4. CASE EnsureManagedTag
    BY <2>4, ShellProceed DEF EnsureManagedTag, TypeInv, Steps
  <2> QED
    BY <2>1, <2>2, <2>3, <2>4
<1>2. UNCHANGED clusterVars
  BY DEF TakeConfig, SeeDeleted, SeeConfig, EnsureManagedTag
<1> QED
  BY <1>1, <1>2 DEF TypeInv, clusterVars

\* What the search found.
LEMMA HaveTypes ==
    ASSUME TypeInv, w.pc = "find", NEW ids \in SUBSET Ids, HaveExisting(ids)
    PROVE  /\ ShellInv(Steps)'
           /\ job' \in Jobs
           /\ job'.ids = ids
           /\ \/ w'.pc = "lookup" /\ w'.spec = w.spec
              \/ w'.pc \in {"write", "delete"}
<1>1. w.spec \in Specs
  BY DEF TypeInv, ShellInv
<1>2. Lookups(w.spec) \subseteq References
  BY <1>1, ClusterAssumption DEF ClusterAssumption, ClusterConfig, Lookups, References
<1>3. job' \in Jobs /\ job'.ids = ids
  BY <1>2 DEF HaveExisting, Jobs
<1>4. CASE Proceed("lookup") \/ Proceed("delete")
  BY <1>3, <1>4, ShellProceed DEF TypeInv, Steps
<1>5. CASE Finish
  <2>1. w'.pc = "write"
    BY <1>5 DEF Finish, TypeInv, ShellInv, ShellWorkers
  <2> QED
    BY <1>3, <1>5, <2>1, EndTypes
<1> QED
  BY <1>4, <1>5 DEF HaveExisting

\* findClusterByExternalID.
LEMMA FindTypes ==
    ASSUME TypeInv, FindCluster
    PROVE  TypeInv'
<1>1. PICK page \in Pages(Managed(w.spec.slug)) :
         \/ \E i \in Matches(page) : HaveExisting({i})
         \/ HaveExisting({})
  BY DEF FindCluster
<1>2. Matches(page) \subseteq Ids
  BY DEF Pages, Managed, Matches
<1>3. \E ids \in SUBSET Ids : HaveExisting(ids)
  BY <1>1, <1>2
<1> QED
  BY <1>3, HaveTypes DEF FindCluster, TypeInv

\* The lookups.
LEMMA LookupTypes ==
    ASSUME TypeInv, LookupsDone \/ \E r \in References : Lookup(r) \/ LookupFails(r)
    PROVE  TypeInv'
<1>1. CASE LookupsDone
  <2>1. Proceed("create") \/ Proceed("update")
    BY <1>1 DEF LookupsDone
  <2> QED
    BY <1>1, <2>1, ShellProceed DEF LookupsDone, TypeInv, Steps, clusterVars
<1>2. ASSUME NEW r \in References, Lookup(r) PROVE TypeInv'
  BY <1>2, ShellProceed DEF Lookup, TypeInv, Steps, Jobs
<1>3. ASSUME NEW r \in References, LookupFails(r) PROVE TypeInv'
  BY <1>3, EndTypes DEF LookupFails, FailWith, TypeInv, NoJob, Jobs
<1> QED
  BY <1>1, <1>2, <1>3

\* The writes of EnsureCluster and DeleteCluster.
LEMMA WriteTypes ==
    ASSUME TypeInv, NEW i \in Ids, EnsureCluster(i) \/ DeleteCluster(i)
    PROVE  TypeInv'
<1>1. w.pc # "idle" /\ Finish
  BY DEF EnsureCluster, DeleteCluster
<1>2. ShellInv(Steps)'
  BY <1>1, EndTypes
<1>3. objs' \in [Ids -> ClusterObject \cup {Nil}]
  BY <1>1, WrittenType DEF EnsureCluster, DeleteCluster, TypeInv
<1> QED
  BY <1>2, <1>3 DEF EnsureCluster, DeleteCluster, TypeInv, NoJob, Jobs

\* A call that fails, and may have been carried out.
LEMMA FailureTypes ==
    ASSUME TypeInv, CallFails \/ ObjectGone, w.pc # "idle"
    PROVE  TypeInv'
<1>1. ShellInv(Steps)' /\ FailWith
  BY EndTypes DEF CallFails, ObjectGone
<1>2. objs' \in [Ids -> ClusterObject \cup {Nil}]
  BY WrittenType DEF CallFails, ObjectGone, Outcomes, FreshIds, TypeInv, Jobs
<1> QED
  BY <1>1, <1>2 DEF CallFails, ObjectGone, FailWith, TypeInv, NoJob, Jobs

\* updateStatus, reportSyncError and the errors of the Kubernetes API.
LEMMA ReportTypes ==
    ASSUME TypeInv, updateStatus \/ reportSyncError \/ KubeFails
    PROVE  TypeInv' /\ w' = IdleWorker /\ UNCHANGED clusterVars
<1>1. w.pc # "idle" /\ w.spec \in Specs
  BY DEF TypeInv, ShellInv, updateStatus, reportSyncError, KubeFails, WriteStatus,
         StatusConflict, GetFails, WriteStatusFails
<1>2. Report \in Statuses /\ FailureReport \in Statuses
  BY <1>1, ClusterAssumption
     DEF Report, FailureReport, Statuses, TypeInv, ShellInv, ShellWorkers, ClusterAssumption,
         ClusterConfig
<1>3. status' \in Statuses /\ (ReturnResult \/ ReturnError) /\ UNCHANGED <<storeVars, cfgEvent>>
  BY <1>2
     DEF TypeInv, ShellInv, updateStatus, reportSyncError, KubeFails, WriteStatus,
         StatusConflict, GetFails, WriteStatusFails
<1>4. UNCHANGED clusterVars
  BY DEF updateStatus, reportSyncError, KubeFails
<1> QED
  BY <1>1, <1>3, <1>4, ShellReturn DEF TypeInv, clusterVars

\* The types are inductive.
LEMMA NextTypes == TypeInv /\ [Next]_vars => TypeInv'
<1> SUFFICES ASSUME TypeInv, [Next]_vars PROVE TypeInv'
  OBVIOUS
<1>1. CASE UNCHANGED vars
  BY <1>1, ShellUnchanged DEF vars, clusterVars, TypeInv
<1>2. CASE CallFails \/ ObjectGone
  <2>1. w.pc # "idle"
    BY <1>2 DEF CallFails, ObjectGone
  <2> QED
    BY <1>2, <2>1, FailureTypes
<1>3. CASE WorkerStep
  BY <1>2, <1>3, SeeTypes, FindTypes, LookupTypes, WriteTypes, ReportTypes DEF WorkerStep
<1> QED
  BY <1>1, <1>2, <1>3, SeeTypes, ReportTypes, EnvironmentTypes DEF Next

(***************************************************************************)
(* Type correctness: every variable keeps its type, and so does whatever   *)
(* EnsureCluster writes to NetBox and updateStatus and reportSyncError to  *)
(* the status.                                                             *)
(***************************************************************************)
THEOREM ClusterTypes == Spec => []ClusterTypeOK
<1>1. TypeInv => ClusterTypeOK
  BY DEF TypeInv, ShellInv, ShellWorkers, Statuses, Steps, Jobs, ClusterTypeOK, ShellTypeOK
<1> QED
  BY <1>1, InitTypes, NextTypes, PTL DEF Spec
-----------------------------------------------------------------------------
(***************************************************************************)
(* Other clusters' objects are spared.  A write goes by the ID of an       *)
(* earlier search; what has to be kept in mind is that this ID is still    *)
(* that of an object of this cluster, or of none.                          *)
(***************************************************************************)
OwnOrNone(o) == o = Nil \/ o.xid = Uid

AimInv == \A i \in job.ids : OwnOrNone(objs[i])

\* What a step may do to the objects in NetBox.
OwnWrites ==
    \A i \in Ids : objs'[i] = objs[i] \/ (OwnOrNone(objs[i]) /\ OwnOrNone(objs'[i]))

\* A step writes, if anything, an object of this cluster or a new one.
LEMMA StepsWriteOwn == TypeInv /\ AimInv /\ [Next]_vars => OwnWrites
<1> SUFFICES ASSUME TypeInv, AimInv, [Next]_vars PROVE OwnWrites
  OBVIOUS
<1>1. objs \in [Ids -> ClusterObject \cup {Nil}] /\ job.ids \subseteq Ids
  BY DEF TypeInv, Jobs
<1>2. CASE UNCHANGED objs
  BY <1>2 DEF OwnWrites
<1>3. ASSUME NEW i \in Ids, Drift(i) PROVE OwnWrites
  BY <1>1, <1>3 DEF Drift, OwnWrites, OwnOrNone
<1>4. ASSUME NEW i \in Ids, EnsureCluster(i) PROVE OwnWrites
  <2>1. OwnOrNone(objs[i])
    BY <1>4 DEF EnsureCluster, FreshIds, AimInv, OwnOrNone
  <2>2. OwnOrNone(Written)
    BY <1>4, WrittenType DEF EnsureCluster, OwnOrNone
  <2> QED
    BY <1>1, <1>4, <2>1, <2>2 DEF EnsureCluster, OwnWrites
<1>5. ASSUME NEW i \in Ids, DeleteCluster(i) PROVE OwnWrites
  BY <1>1, <1>5 DEF DeleteCluster, OwnWrites, OwnOrNone, AimInv
<1>6. CASE CallFails
  <2>1. w.pc \in {"update", "create"} => OwnOrNone(Written)
    BY WrittenType DEF OwnOrNone
  <2>2. \A i \in FreshIds : i \in Ids /\ objs[i] = Nil
    BY DEF FreshIds
  <2>3. PICK new \in Outcomes : objs' = new
    BY <1>6 DEF CallFails
  <2>4. CASE w.pc \in {"update", "create"}
    BY <1>1, <2>1, <2>2, <2>3, <2>4 DEF Outcomes, OwnWrites, OwnOrNone, AimInv
  <2>5. CASE w.pc \notin {"update", "create"}
    BY <1>1, <2>3, <2>5 DEF Outcomes, OwnWrites, OwnOrNone, AimInv
  <2> QED
    BY <2>4, <2>5
<1> QED
  BY <1>2, <1>3, <1>4, <1>5, <1>6, ReportTypes
     DEF Next, WorkerStep, Environment, TakeConfig, SeeDeleted, SeeConfig, EnsureManagedTag,
         FindCluster, Lookup, LookupFails, LookupsDone, ObjectGone, clusterVars, vars,
         QueueConfig, ChangeReference, ClusterRestart

\* The search is the only step after which the worker aims at other objects.
LEMMA StepsKeepAim ==
    ASSUME TypeInv, [Next]_vars, ~FindCluster
    PROVE  job'.ids \subseteq job.ids
<1>1. job \in Jobs /\ NoJob.ids = {}
  BY DEF TypeInv, NoJob
<1> QED
  BY <1>1, ReportTypes
     DEF Next, WorkerStep, Environment, TakeConfig, SeeDeleted, SeeConfig, EnsureManagedTag,
         Lookup, LookupFails, LookupsDone, EnsureCluster, DeleteCluster, CallFails, FailWith,
         ObjectGone, clusterVars, vars, QueueConfig, Drift, ChangeReference, ClusterRestart,
         Jobs

\* AimInv is inductive.
LEMMA NextAim == TypeInv /\ AimInv /\ [Next]_vars => AimInv'
<1> SUFFICES ASSUME TypeInv, AimInv, [Next]_vars PROVE AimInv'
  OBVIOUS
<1>1. CASE FindCluster
  <2>1. PICK page \in Pages(Managed(w.spec.slug)) :
           \/ \E i \in Matches(page) : HaveExisting({i})
           \/ HaveExisting({})
    BY <1>1 DEF FindCluster
  <2>2. \A i \in Matches(page) : i \in Ids /\ objs[i].xid = Uid
    BY DEF Pages, Managed, Matches
  <2>3. \A i \in job'.ids : objs[i].xid = Uid
    BY <2>1, <2>2 DEF HaveExisting
  <2> QED
    BY <1>1, <2>3 DEF FindCluster, AimInv, OwnOrNone
<1>2. CASE ~FindCluster
  <2>1. job'.ids \subseteq job.ids /\ job.ids \subseteq Ids
    BY <1>2, StepsKeepAim DEF TypeInv, Jobs
  <2> QED
    BY <2>1, StepsWriteOwn DEF AimInv, OwnWrites
<1> QED
  BY <1>1, <1>2

(***************************************************************************)
(* No step, of whatever kind, changes a Cluster that another cluster has   *)
(* in the same NetBox, however it is tagged and named and whatever page of *)
(* the Clusters findClusterByExternalID is shown.                          *)
(***************************************************************************)
THEOREM ClusterSparesOthers == Spec => OtherClustersUntouched
<1>1. Init => AimInv
  BY DEF Init, NoJob, AimInv
<1>2. TypeInv /\ AimInv /\ [Next]_vars =>
         [\A i \in Ids : objs[i] # Nil /\ objs[i].xid # Uid => objs'[i] = objs[i]]_vars
  BY StepsWriteOwn DEF OwnWrites, OwnOrNone
<1> QED
  BY <1>1, <1>2, InitTypes, NextTypes, NextAim, PTL DEF Spec, OtherClustersUntouched
-----------------------------------------------------------------------------
(***************************************************************************)
(* One Cluster per UID.  From the search to the write the worker has to    *)
(* remember that it saw all there is, across up to three lookups:          *)
(***************************************************************************)

\* Object j is the one EnsureCluster searches for.
Claimed(j) == objs[j] # Nil /\ objs[j].tag = w.spec.slug /\ objs[j].xid = Uid

\* There is still no other object than the one found, which is at most one.
OnlyFound ==
    /\ w.pc \in {"lookup", "update", "create"} => \A j \in Ids : Claimed(j) => j \in job.ids
    /\ w.pc = "create" => job.ids = {}
    /\ \A i, j \in job.ids : i = j

DupInv == TypeInv /\ OneClusterPerUid /\ OnlyFound

\* At first there is no object of this cluster.
LEMMA InitDup == Init => DupInv
<1> SUFFICES ASSUME Init PROVE DupInv
  OBVIOUS
<1>1. \A i \in Ids : objs[i] # Nil => objs[i].xid # Uid
  BY ClusterAssumption DEF Init, ClusterAssumption
<1>2. w.pc = "idle" /\ job.ids = {}
  BY ShellIdle DEF Init, ShellInit, NoJob
<1> QED
  BY <1>1, <1>2, InitTypes DEF DupInv, OneClusterPerUid, OnlyFound

\* A step that brings no object and, if a write lies ahead, keeps what the worker
\* knows.
LEMMA NothingNew ==
    ASSUME DupInv, TypeInv',
           \A i \in Ids : objs'[i] = objs[i] \/ objs'[i] = Nil,
           job'.ids \subseteq job.ids,
           w'.pc \in {"lookup", "update", "create"} =>
               /\ w.pc \in {"lookup", "update", "create"}
               /\ w'.spec = w.spec
               /\ job'.ids = job.ids
               /\ w'.pc = "create" => job.ids = {}
    PROVE  DupInv'
<1>1. OneClusterPerUid'
  BY DEF DupInv, OneClusterPerUid
<1>2. OnlyFound'
  BY DEF DupInv, OnlyFound, Claimed
<1> QED
  BY <1>1, <1>2 DEF DupInv

\* A write of EnsureCluster makes no duplicate, answered or not.
LEMMA WriteIsSafe ==
    ASSUME DupInv, w.pc \in {"update", "create"}, NEW i \in Ids,
           w.pc = "update" => i \in job.ids,
           objs' = [objs EXCEPT ![i] = Written]
    PROVE  OneClusterPerUid'
<1>1. \A j \in Ids : Claimed(j) => j = i
  BY DEF DupInv, OnlyFound
<1>2. objs'[i] = Written /\ \A j \in Ids \ {i} : objs'[j] = objs[j]
  BY DEF DupInv, TypeInv
<1>3. Written.tag = w.spec.slug
  BY WrittenType DEF DupInv
<1> QED
  BY <1>1, <1>2, <1>3 DEF Claimed, DupInv, OneClusterPerUid

\* After the search the worker knows all there is.
LEMMA FindDup ==
    ASSUME Cardinality(Ids) <= PageSize, DupInv, FindCluster
    PROVE  DupInv'
<1> DEFINE page == Managed(w.spec.slug)
<1>1. TypeInv' /\ UNCHANGED objs
  BY FindTypes DEF DupInv, FindCluster
<1>2. Pages(page) = {page} /\ Matches(page) \subseteq Ids
  BY WholePage DEF Managed, Matches
<1>3. PICK ids \in SUBSET Matches(page) :
         /\ HaveExisting(ids)
         /\ \A i, j \in ids : i = j
         /\ Matches(page) # {} => ids # {}
  BY <1>2 DEF FindCluster
<1>4. /\ job'.ids = ids
      /\ \/ w'.pc = "lookup" /\ w'.spec = w.spec
         \/ w'.pc \in {"write", "delete"}
  BY <1>2, <1>3, HaveTypes DEF DupInv, FindCluster
<1>5. \A j \in Ids : Claimed(j) <=> j \in Matches(page)
  BY DEF Claimed, Matches, Managed
<1>6. \A i, j \in Ids : Claimed(i) /\ Claimed(j) => i = j
  BY DEF DupInv, OneClusterPerUid, Claimed
<1>7. \A j \in Ids : Claimed(j) => j \in ids
  BY <1>2, <1>3, <1>5, <1>6
<1>8. OnlyFound'
  BY <1>1, <1>3, <1>4, <1>7 DEF OnlyFound, Claimed
<1> QED
  BY <1>1, <1>8 DEF DupInv, OneClusterPerUid

\* The writes, answered or not.
LEMMA WriteDup ==
    ASSUME DupInv, CallFails \/ \E i \in Ids : EnsureCluster(i) \/ DeleteCluster(i)
    PROVE  DupInv'
<1>1. w.pc # "idle" /\ TypeInv
  BY DEF DupInv, CallFails, EnsureCluster, DeleteCluster
<1>2. TypeInv'
  BY <1>1, FailureTypes, WriteTypes
<1>3. w'.pc \in {"write", "report"} /\ job' = NoJob
  BY <1>1, EndTypes DEF CallFails, EnsureCluster, DeleteCluster, FailWith
<1>4. OnlyFound'
  BY <1>3 DEF OnlyFound, NoJob
<1>5. CASE \A i \in Ids : objs'[i] = objs[i] \/ objs'[i] = Nil
  BY <1>2, <1>4, <1>5 DEF DupInv, OneClusterPerUid
<1>6. CASE /\ w.pc \in {"update", "create"}
           /\ \E i \in Ids : /\ w.pc = "update" => i \in job.ids
                             /\ objs' = [objs EXCEPT ![i] = Written]
  BY <1>2, <1>4, <1>6, WriteIsSafe DEF DupInv
<1>7. objs \in [Ids -> ClusterObject \cup {Nil}] /\ job.ids \subseteq Ids
  BY <1>1 DEF TypeInv, Jobs
<1> QED
  BY <1>5, <1>6, <1>7 DEF CallFails, Outcomes, FreshIds, EnsureCluster, DeleteCluster

\* The lookups keep what the search found.
LEMMA LookupDup ==
    ASSUME DupInv, LookupsDone \/ \E r \in References : Lookup(r) \/ LookupFails(r)
    PROVE  DupInv'
<1>1. TypeInv /\ TypeInv' /\ w \in ShellWorkers(Steps) /\ job \in Jobs /\ UNCHANGED objs
  BY LookupTypes DEF DupInv, TypeInv, ShellInv, LookupsDone, Lookup, LookupFails, clusterVars
<1>2. CASE LookupsDone \/ \E r \in References : Lookup(r)
  <2>1. /\ w.pc = "lookup" /\ w'.spec = w.spec /\ job'.ids = job.ids
        /\ w'.pc = "create" => job.ids = {}
    BY <1>1, <1>2 DEF LookupsDone, Lookup, Proceed, ShellWorkers, Jobs, clusterVars
  <2> QED
    BY <1>1, <2>1, NothingNew
<1>3. CASE \E r \in References : LookupFails(r)
  <2>1. w'.pc \in {"write", "report"} /\ job' = NoJob
    BY <1>1, <1>3, EndTypes DEF LookupFails, FailWith
  <2> QED
    BY <1>1, <2>1, NothingNew DEF NoJob
<1> QED
  BY <1>2, <1>3

\* All other steps write nothing, or take an object away.
LEMMA OtherDup ==
    ASSUME DupInv,
           \/ TakeConfig \/ SeeDeleted \/ SeeConfig \/ EnsureManagedTag \/ ObjectGone
           \/ updateStatus \/ reportSyncError \/ KubeFails
           \/ Environment
    PROVE  DupInv'
<1>1. TypeInv /\ w \in ShellWorkers(Steps) /\ objs \in [Ids -> ClusterObject \cup {Nil}]
  BY DEF DupInv, TypeInv, ShellInv
<1>2. IdleWorker.pc = "idle" /\ NoJob.ids = {}
  BY ShellIdle DEF NoJob
<1>3. CASE TakeConfig \/ SeeDeleted \/ SeeConfig \/ EnsureManagedTag
  <2>1. \/ w'.pc \notin {"lookup", "update", "create"}
        \/ w' = w
    BY <1>1, <1>2, <1>3
       DEF TakeConfig, PollStore, StartReconcile, SeeDeleted, ReturnResult, SeeConfig,
           EnsureManagedTag, Proceed, IdleWorker, ShellWorkers
  <2>2. UNCHANGED <<objs, job>>
    BY <1>3 DEF TakeConfig, SeeDeleted, SeeConfig, EnsureManagedTag, clusterVars
  <2> QED
    BY <1>1, <1>3, <2>1, <2>2, SeeTypes, NothingNew DEF DupInv, OnlyFound
<1>4. CASE ObjectGone
  <2>1. w.pc # "idle"
    BY <1>4 DEF ObjectGone
  <2>2. w'.pc \in {"write", "report"} /\ job' = NoJob /\ UNCHANGED objs
    BY <1>1, <1>4, <2>1, EndTypes DEF ObjectGone, FailWith
  <2> QED
    BY <1>1, <1>2, <1>4, <2>1, <2>2, FailureTypes, NothingNew
<1>5. CASE updateStatus \/ reportSyncError \/ KubeFails
  BY <1>1, <1>2, <1>5, ReportTypes, NothingNew DEF clusterVars
<1>6. CASE Environment
  <2>1. \A i \in Ids : objs'[i] = objs[i] \/ objs'[i] = Nil
    BY <1>1, <1>6
       DEF Environment, QueueConfig, Drift, ChangeReference, ClusterRestart, clusterVars
  <2>2. \/ w'.pc = "idle" /\ job' = NoJob
        \/ w'.pc = w.pc /\ w'.spec = w.spec /\ job' = job
    BY <1>1, <1>2, <1>6
       DEF Environment, StoreStep, shellVars, EditConfig, QueueConfig, DeliverConfigEvent,
           OtherStatusWrite, TimerFires, Drift, ChangeReference, ClusterRestart, ShellRestart,
           clusterVars, ShellWorkers
  <2> QED
    BY <1>1, <1>2, <1>6, <2>1, <2>2, EnvironmentTypes, NothingNew DEF DupInv, OnlyFound
<1> QED
  BY <1>3, <1>4, <1>5, <1>6

\* With whole pages, DupInv is inductive.
LEMMA NextDup ==
    ASSUME Cardinality(Ids) <= PageSize
    PROVE  DupInv /\ [Next]_vars => DupInv'
<1> SUFFICES ASSUME DupInv, [Next]_vars PROVE DupInv'
  OBVIOUS
<1>1. CASE UNCHANGED vars
  <2>1. TypeInv'
    BY NextTypes DEF DupInv
  <2> QED
    BY <1>1, <2>1 DEF vars, shellVars, clusterVars, DupInv, OneClusterPerUid, OnlyFound, Claimed
<1>2. CASE Next
  BY <1>2, FindDup, WriteDup, LookupDup, OtherDup DEF Next, WorkerStep
<1> QED
  BY <1>1, <1>2

(***************************************************************************)
(* Provided a list returns all objects (as the code takes for granted),    *)
(* NetBox never holds two Clusters of one tag with this cluster's UID: a   *)
(* rename, a create whose answer is lost and a restart all end in an       *)
(* update of the one that is there (EnsureCluster).                        *)
(***************************************************************************)
THEOREM ClusterIsUnique ==
    Cardinality(Ids) <= PageSize => (Spec => []OneClusterPerUid)
<1> SUFFICES ASSUME Cardinality(Ids) <= PageSize PROVE Spec => []OneClusterPerUid
  OBVIOUS
<1>1. DupInv => OneClusterPerUid
  BY DEF DupInv
<1> QED
  BY <1>1, InitDup, NextDup, PTL DEF Spec
-----------------------------------------------------------------------------
(***************************************************************************)
(* Reports.  What a success says about NetBox was established by the write *)
(* before it, and that by the search before the lookups: from one to the   *)
(* next the worker has to know that nothing is left but what it found.     *)
(***************************************************************************)
Settled ==
    /\ w.pc \in {"lookup", "update", "create"} => w.spec.enabled
    /\ w.pc = "delete" => ~w.spec.enabled /\ \A j \in Ids : Claimed(j) => j \in job.ids
    /\ w.pc = "write" => \A j \in Ids : Claimed(j) => objs[j] \in Wanted(w.spec)

\* The search: what is found is all there is.
LEMMA FindSettles ==
    ASSUME Cardinality(Ids) <= PageSize, DupInv, FindCluster
    PROVE  Settled'
<1> DEFINE page == Managed(w.spec.slug)
<1>1. /\ w \in ShellWorkers(Steps) /\ w.spec \in Specs /\ w.pc = "find"
      /\ UNCHANGED objs
  BY DEF DupInv, TypeInv, ShellInv, FindCluster
<1>2. w.spec.enabled \in BOOLEAN
  BY <1>1, ClusterAssumption DEF ClusterAssumption, ClusterConfig
<1>3. Pages(page) = {page}
  BY WholePage DEF Managed
<1>4. PICK ids \in SUBSET Matches(page) :
         HaveExisting(ids) /\ (Matches(page) # {} => ids # {})
  BY <1>3 DEF FindCluster
<1>5. /\ w'.spec = w.spec
      /\ job'.ids = ids
      /\ IF w.spec.enabled THEN w'.pc = "lookup"
         ELSE w'.pc = IF ids = {} THEN "write" ELSE "delete"
  BY <1>1, <1>4 DEF HaveExisting, Proceed, Finish, ShellWorkers
<1>6. \A j \in Ids : Claimed(j) <=> j \in Matches(page)
  BY DEF Claimed, Matches, Managed
<1>7. \A i, j \in Ids : Claimed(i) /\ Claimed(j) => i = j
  BY DEF DupInv, OneClusterPerUid, Claimed
<1>8. \A j \in Ids : Claimed(j) => j \in ids
  BY <1>4, <1>6, <1>7 DEF Matches, Managed
<1>9. \A j \in Ids : Claimed(j)' => j \in ids
  BY <1>1, <1>5, <1>8 DEF Claimed
<1> QED
  BY <1>2, <1>5, <1>9 DEF Settled

\* The writes that are answered.
LEMMA WriteSettles ==
    ASSUME DupInv, Settled, NEW i \in Ids, EnsureCluster(i) \/ DeleteCluster(i)
    PROVE  Settled'
<1>1. /\ w \in ShellWorkers(Steps)
      /\ objs \in [Ids -> ClusterObject \cup {Nil}]
      /\ w.pc \in {"update", "create", "delete"}
  BY DEF DupInv, TypeInv, ShellInv, EnsureCluster, DeleteCluster
<1>2. w'.pc = "write" /\ w'.spec = w.spec
  BY <1>1 DEF EnsureCluster, DeleteCluster, Finish, ShellWorkers
<1>3. \A j \in Ids : Claimed(j) => j = i
  BY <1>1 DEF DupInv, OnlyFound, Settled, EnsureCluster, DeleteCluster
<1>4. /\ \A j \in Ids \ {i} : objs'[j] = objs[j]
      /\ objs'[i] = Nil \/ (objs'[i] = Written /\ w.pc # "delete")
  BY <1>1 DEF EnsureCluster, DeleteCluster
<1>5. w.pc # "delete" => Written \in Wanted(w.spec)
  BY <1>1 DEF Settled, Written, Wanted
<1>6. \A j \in Ids : Claimed(j)' => objs'[j] \in Wanted(w.spec)
  BY <1>2, <1>3, <1>4, <1>5 DEF Claimed
<1> QED
  BY <1>2, <1>6 DEF Settled, Wanted

\* The lookups keep what is known.
LEMMA LookupSettles ==
    ASSUME DupInv, Settled, LookupsDone \/ \E r \in References : Lookup(r)
    PROVE  Settled'
<1>1. w \in ShellWorkers(Steps) /\ w.pc = "lookup"
  BY DEF DupInv, TypeInv, ShellInv, LookupsDone, Lookup
<1>2. w'.spec = w.spec /\ w'.pc \in {"lookup", "update", "create"}
  BY <1>1 DEF LookupsDone, Lookup, Proceed, ShellWorkers
<1> QED
  BY <1>1, <1>2 DEF Settled

\* Where other steps take the worker.
LEMMA OtherSettles ==
    ASSUME DupInv, Settled,
           \/ TakeConfig \/ SeeDeleted \/ SeeConfig \/ EnsureManagedTag
           \/ ObjectGone \/ CallFails \/ \E r \in References : LookupFails(r)
           \/ updateStatus \/ reportSyncError \/ KubeFails
    PROVE  Settled'
<1>1. TypeInv /\ w \in ShellWorkers(Steps)
  BY DEF DupInv, TypeInv, ShellInv
<1>2. CASE TakeConfig
  BY <1>1, <1>2 DEF TakeConfig, PollStore, StartReconcile, IdleWorker, Settled
<1>3. CASE SeeDeleted \/ updateStatus \/ reportSyncError \/ KubeFails
  <2>1. w' = IdleWorker
    BY <1>1, <1>3, ReportTypes DEF SeeDeleted, ReturnResult
  <2> QED
    BY <2>1 DEF IdleWorker, Settled
<1>4. CASE SeeConfig \/ EnsureManagedTag \/ ObjectGone \/ CallFails
           \/ \E r \in References : LookupFails(r)
  <2>1. w'.pc \in {"tag", "find", "report"}
    BY <1>1, <1>4
       DEF SeeConfig, EnsureManagedTag, Proceed, ObjectGone, CallFails, LookupFails, FailWith,
           ShellWorkers
  <2> QED
    BY <2>1 DEF Settled
<1> QED
  BY <1>2, <1>3, <1>4

\* Users and restarts take objects away at most.
LEMMA EnvironmentSettles ==
    ASSUME DupInv, Settled, Environment \/ UNCHANGED vars
    PROVE  Settled'
<1>1. w \in ShellWorkers(Steps) /\ objs \in [Ids -> ClusterObject \cup {Nil}]
  BY DEF DupInv, TypeInv, ShellInv
<1>2. \A i \in Ids : objs'[i] = objs[i] \/ objs'[i] = Nil
  BY <1>1
     DEF Environment, QueueConfig, Drift, ChangeReference, ClusterRestart, clusterVars, vars
<1>3. \/ w'.pc = "idle"
      \/ w'.pc = w.pc /\ w'.spec = w.spec /\ job' = job
  BY <1>1, ShellIdle
     DEF Environment, StoreStep, shellVars, EditConfig, QueueConfig, DeliverConfigEvent,
         OtherStatusWrite, TimerFires, Drift, ChangeReference, ClusterRestart, ShellRestart,
         clusterVars, vars, ShellWorkers
<1> QED
  BY <1>2, <1>3 DEF Settled, Claimed

(***************************************************************************)
(* If the managed tag is never changed and a list returns all objects, a   *)
(* reconcile that is about to report success has left the Cluster as its   *)
(* spec wants it, or none if somebody deleted it: whatever earlier         *)
(* attempts left half done, whoever edits the HeraldConfig or the          *)
(* references meanwhile (Reconcile, updateStatus).  With another tag the   *)
(* object under the old one would stay behind, outdated.                   *)
(***************************************************************************)
THEOREM ClusterReportsAreReal ==
    ASSUME Cardinality(Ids) <= PageSize, \A s, t \in Slugs : s = t
    PROVE  Spec => []ClusterReportIsReal
<1> DEFINE Inv == DupInv /\ Settled
<1>1. Init => Inv
  <2>1. Init => w.pc = "idle"
    BY ShellIdle DEF Init, ShellInit
  <2> QED
    BY <2>1, InitDup DEF Settled
<1>2. Inv /\ [Next]_vars => Inv'
  <2> SUFFICES ASSUME Inv, [Next]_vars PROVE Inv'
    OBVIOUS
  <2>1. Settled'
    BY FindSettles, WriteSettles, LookupSettles, OtherSettles, EnvironmentSettles
       DEF Next, WorkerStep
  <2> QED
    BY <2>1, NextDup
<1>3. Inv => ClusterReportIsReal
  <2> SUFFICES ASSUME Inv, w.pc = "write" PROVE Own \subseteq Wanted(w.spec)
    BY DEF ClusterReportIsReal
  <2>1. w.spec.slug \in Slugs
    BY ClusterAssumption DEF DupInv, TypeInv, ShellInv, ClusterAssumption, ClusterConfig
  <2>2. \A j \in Ids : objs[j] # Nil => objs[j].tag \in Slugs
    BY DEF DupInv, TypeInv, ClusterObject
  <2> QED
    BY <2>1, <2>2 DEF Settled, Own, Claimed
<1> QED
  BY <1>1, <1>2, <1>3, PTL DEF Spec

=============================================================================
