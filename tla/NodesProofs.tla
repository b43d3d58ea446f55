---------------------------- MODULE NodesProofs ----------------------------
(***************************************************************************)
(* Theorems about Nodes, for every set of Nodes, UIDs, specs, tags,        *)
(* references and disturbances.                                            *)
(***************************************************************************)
EXTENDS Nodes, ShellProofs

\* The steps Reconcile adds to those of the shell.
Steps == {"name", "tag", "find", "lookup", "update", "create", "delete"}

Jobs ==
    [uid : Uids \cup {Nil}, kind : Kinds \cup {Nil}, todo : SUBSET References, ids : SUBSET Ids]

(***************************************************************************)
(* What the program counter says of the worker's job: a Node that is to be *)
(* synced has been read with its UID; by name only Nodes without one are   *)
(* deleted; and with sync on nothing is deleted by UID.                    *)
(***************************************************************************)
JobOK ==
    /\ w.pc \in {"idle", "get"} => job = NoJob
    /\ w.pc \in {"tag", "find", "lookup", "update", "create"} =>
          job.uid \in Uids /\ job.kind \in Kinds
    /\ w.pc \in {"tag", "lookup", "update", "create"} => w.spec.enabled
    /\ w.pc = "name" => job.uid = Nil
    /\ w.pc = "delete" => job.uid = Nil \/ ~w.spec.enabled

\* The inductive form of NodesTypeOK.
TypeInv ==
    /\ ShellInv(Steps)
    /\ node \in [Keys -> Uids \cup {Nil}]
    /\ objs \in [Ids -> NodeObject \cup {Nil}]
    /\ missing \in SUBSET References
    /\ job \in Jobs
    /\ JobOK
-----------------------------------------------------------------------------
(* TypeInv is inductive: one lemma for each part of Next. *)

\* No job is a job.
LEMMA NoJobType ==
    NoJob \in Jobs /\ NoJob.uid = Nil /\ NoJob.ids = {} /\ NoJob.todo = {}
BY DEF NoJob, Jobs

\* The types hold in a new process (main.go).
LEMMA InitTypes == Init => TypeInv
<1> SUFFICES ASSUME Init PROVE TypeInv
  OBVIOUS
<1>1. ShellInv(Steps)
  BY ShellInitTypes DEF Init
<1>2. missing \in SUBSET References /\ job = NoJob /\ w.pc = "idle"
  BY NodesAssumption, ShellIdle DEF Init, NodesAssumption, ShellInit
<1> QED
  BY <1>1, <1>2, NoJobType DEF Init, TypeInv, JobOK

\* What is to be known of the specs.
LEMMA SpecTypes ==
    ASSUME NEW spec \in Specs
    PROVE  /\ spec.enabled \in BOOLEAN /\ spec.slug \in Slugs /\ spec.place \in Places
           /\ Lookups(spec) \subseteq References
           /\ KindOf(spec) \in Kinds
BY NodesAssumption DEF NodesAssumption, NodesConfig, Lookups, References, KindOf, Kinds

\* What EnsureDevice and EnsureVirtualMachine write is an object of the Node.
LEMMA WrittenType ==
    ASSUME TypeInv, w.pc \in {"update", "create"}
    PROVE  /\ Written \in NodeObject
           /\ Written.kind = job.kind /\ Written.tag = w.spec.slug
           /\ Written.xid = job.uid /\ Written.name = w.key
<1>1. w.key \in Keys /\ w.spec.slug \in Slugs /\ w.spec.place \in Places /\ job.uid \in Uids /\ job.kind \in Kinds
  BY SpecTypes DEF TypeInv, ShellInv, JobOK
<1> QED
  BY <1>1 DEF Written, NodeObject

\* Users, Nodes, timers and restarts.
LEMMA EnvironmentTypes ==
    ASSUME TypeInv, Environment
    PROVE  /\ TypeInv'
           /\ \/ w' = IdleWorker /\ job' = NoJob /\ UNCHANGED <<node, objs>>
              \/ /\ w'.pc = w.pc /\ w'.key = w.key /\ w'.spec = w.spec /\ w'.err = w.err
                 /\ job' = job
<1>1. CASE NodesRestart
  <2>1. ShellInv(Steps)' /\ w' = IdleWorker
    BY <1>1, ShellRestartTypes DEF NodesRestart, TypeInv
  <2> QED
    BY <1>1, <2>1, NoJobType, ShellIdle DEF NodesRestart, TypeInv, JobOK
<1>2. CASE ~NodesRestart
  <2>1. ShellInv(Steps)'
    BY <1>2, ShellConfig, ShellEvents, ShellUnchanged, ShellQueued
       DEF Environment, enqueueAllNodes, Heartbeat, NodeLeaves, NodeJoins, Drift, ChangeReference,
           TypeInv
  <2>2. w'.pc = w.pc /\ w'.key = w.key /\ w'.spec = w.spec /\ w'.err = w.err
    BY <1>2, ShellKeepsWorker
       DEF Environment, enqueueAllNodes, Heartbeat, NodeLeaves, NodeJoins, Drift, ChangeReference,
           TypeInv, shellVars
  <2>3. job' = job
    BY <1>2
       DEF Environment, enqueueAllNodes, Heartbeat, NodeLeaves, NodeJoins, Drift, ChangeReference,
           nodeVars
  <2>4. missing' \in SUBSET References
    BY <1>2, NodesAssumption
       DEF Environment, enqueueAllNodes, Heartbeat, NodeLeaves, NodeJoins, Drift, ChangeReference,
           nodeVars, NodesAssumption, TypeInv
  <2>5. node' \in [Keys -> Uids \cup {Nil}] /\ objs' \in [Ids -> NodeObject \cup {Nil}]
    BY <1>2
       DEF Environment, enqueueAllNodes, Heartbeat, NodeLeaves, NodeJoins, Drift, ChangeReference,
           nodeVars, TypeInv
  <2> QED
    BY <2>1, <2>2, <2>3, <2>4, <2>5 DEF TypeInv, JobOK
<1> QED
  BY <1>1, <1>2

\* Taking a Node.
LEMMA TakeTypes ==
    ASSUME TypeInv, NEW k \in Keys, TakeNode(k)
    PROVE  TypeInv' /\ w.pc = "idle" /\ w'.pc \in {"idle", "get"} /\ UNCHANGED nodeVars
<1>1. ShellInv(Steps)' /\ UNCHANGED nodeVars
  BY ShellTake DEF TakeNode, TypeInv
<1>2. w.pc = "idle" /\ w'.pc \in {"idle", "get"}
  BY DEF TakeNode, PollStore, StartReconcile, IdleWorker
<1> QED
  BY <1>1, <1>2 DEF TypeInv, JobOK, nodeVars

\* Reconcile decides what to do with the Node.
LEMMA SeeTypes ==
    ASSUME TypeInv, SeeDeleted \/ SeeDisabled \/ SeePaused \/ SeeEnabled
    PROVE  /\ TypeInv'
           /\ w.pc = "get" /\ w'.key = w.key /\ w'.spec = w.spec
           /\ job'.uid = node[w.key] /\ job'.ids = {}
           /\ UNCHANGED <<node, objs, missing>>
           /\ \/ w'.pc = "name" /\ node[w.key] = Nil
              \/ w'.pc \in {"find", "tag"} /\ node[w.key] # Nil
              \/ w'.pc = "status" /\ ~w.spec.enabled /\ w.spec.retain
<1>1. w.pc = "get" /\ w.key \in Keys /\ w.spec \in Specs /\ UNCHANGED <<node, objs, missing>>
  BY DEF SeeDeleted, SeeDisabled, SeePaused, SeeEnabled, TypeInv, ShellInv
<1>2. job' \in Jobs /\ job'.uid = node[w.key] /\ job'.ids = {} /\ job'.kind \in Kinds
  BY <1>1, SpecTypes
     DEF SeeDeleted, SeeDisabled, SeePaused, SeeEnabled, NoJob, Jobs, TypeInv, Kinds
<1>3. CASE SeePaused
  <2>1. /\ ShellInv(Steps)' /\ w'.pc = "status"
        /\ w'.key = w.key /\ w'.spec = w.spec
    BY <1>1, <1>3, ShellEnd DEF SeePaused, TypeInv
  <2> QED
    BY <1>1, <1>2, <1>3, <2>1 DEF SeePaused, TypeInv, JobOK
<1>4. CASE SeeDeleted \/ SeeDisabled \/ SeeEnabled
  <2>1. PICK pc \in {"name", "find", "tag"} :
           /\ Proceed(pc)
           /\ pc = "name" => node[w.key] = Nil
           /\ pc # "name" => node[w.key] # Nil
           /\ pc = "tag" => w.spec.enabled
    BY <1>4 DEF SeeDeleted, SeeDisabled, SeeEnabled
  <2>2. ShellInv(Steps)' /\ w'.pc = pc /\ w'.key = w.key /\ w'.spec = w.spec
    BY <1>1, <2>1, ShellProceed DEF TypeInv, Steps
  <2> QED
    BY <1>1, <1>2, <2>1, <2>2 DEF TypeInv, JobOK
<1> QED
  BY <1>3, <1>4

\* What the search by external ID found.
LEMMA HaveTypes ==
    ASSUME TypeInv, w.pc = "find", NEW ids \in SUBSET Ids, HaveExisting(ids)
    PROVE  /\ ShellInv(Steps)' /\ job' \in Jobs /\ JobOK'
           /\ job'.ids = ids /\ job'.uid = job.uid /\ job'.kind = job.kind
           /\ w'.key = w.key /\ w'.spec = w.spec
           /\ \/ w'.pc = "lookup"
              \/ w'.pc = "delete" /\ ~w.spec.enabled
              \/ w'.pc = "status" /\ ~w.spec.enabled /\ ids = {}
<1>1. w.spec \in Specs /\ job.uid \in Uids /\ job.kind \in Kinds /\ Nil \notin Uids
  BY NodesAssumption DEF TypeInv, ShellInv, JobOK, NodesAssumption
<1>2. /\ job' \in Jobs
      /\ job'.ids = ids /\ job'.uid = job.uid /\ job'.kind = job.kind
  BY <1>1, SpecTypes DEF HaveExisting, Jobs, TypeInv
<1>3. CASE w.spec.enabled \/ ids # {}
  <2>1. PICK pc \in {"lookup", "delete"} :
           Proceed(pc) /\ (pc = "lookup" => w.spec.enabled) /\ (pc = "delete" => ~w.spec.enabled)
    BY <1>3 DEF HaveExisting
  <2>2. ShellInv(Steps)' /\ w'.pc = pc /\ w'.key = w.key /\ w'.spec = w.spec
    BY <2>1, ShellProceed DEF TypeInv, Steps
  <2> QED
    BY <1>1, <1>2, <2>1, <2>2 DEF JobOK
<1>5. CASE ~w.spec.enabled /\ ids = {}
  BY <1>1, <1>2, <1>5, ShellEnd DEF HaveExisting, TypeInv, JobOK
<1> QED
  BY <1>3, <1>5

\* findDeviceByExternalID, findVirtualMachineByExternalID.
LEMMA FindTypes ==
    ASSUME TypeInv, FindByExternalID
    PROVE  TypeInv'
<1>1. PICK page \in Pages(Managed(job.kind, w.spec.slug)) :
         (\E i \in Matches(page) : HaveExisting({i})) \/ HaveExisting({})
  BY DEF FindByExternalID
<1>2. Matches(page) \subseteq Ids
  BY DEF Pages, Managed, Matches
<1>3. \E ids \in SUBSET Ids : HaveExisting(ids)
  BY <1>1, <1>2
<1> QED
  BY <1>3, HaveTypes DEF FindByExternalID, TypeInv

\* The mapping and the lookups.
LEMMA LookupTypes ==
    ASSUME TypeInv,
           EnsureManagedTag \/ LookupsDone \/ \E r \in References : Lookup(r) \/ LookupFails(r)
    PROVE  /\ TypeInv'
           /\ w'.key = w.key /\ w'.spec = w.spec /\ UNCHANGED <<node, objs, missing>>
           /\ job'.uid = job.uid /\ job'.kind = job.kind
           /\ \/ w'.pc = "status" /\ w'.err /\ job'.ids \subseteq job.ids
              \/ w'.pc = "find" /\ job' = job
              \/ /\ w.pc = "lookup" /\ w'.pc \in {"lookup", "update", "create"}
                 /\ job'.ids = job.ids
                 /\ w'.pc = "create" => job.ids = {}
                 /\ w'.pc = "update" => job.ids # {}
<1>1. /\ w.pc \in {"tag", "lookup"} /\ w.spec.enabled
      /\ job.uid \in Uids /\ job.kind \in Kinds /\ job \in Jobs
      /\ UNCHANGED <<node, objs, missing>>
  BY DEF EnsureManagedTag, LookupsDone, Lookup, LookupFails, TypeInv, JobOK, nodeVars
<1>2. CASE EnsureManagedTag
  <2>1. UNCHANGED job /\ (Fail \/ Proceed("find"))
    BY <1>2 DEF EnsureManagedTag, nodeVars
  <2>2. CASE Fail
    BY <1>1, <2>1, <2>2, ShellEnd DEF TypeInv, JobOK
  <2>3. CASE Proceed("find")
    BY <1>1, <2>1, <2>3, ShellProceed DEF TypeInv, Steps, JobOK
  <2> QED
    BY <2>1, <2>2, <2>3
<1>3. CASE LookupsDone
  <2>1. PICK pc \in {"create", "update"} :
           Proceed(pc) /\ (pc = "create" => job.ids = {}) /\ (pc = "update" => job.ids # {})
    BY <1>3 DEF LookupsDone
  <2>2. /\ ShellInv(Steps)' /\ w'.pc = pc /\ w'.key = w.key /\ w'.spec = w.spec
        /\ w.pc = "lookup" /\ job' = job
    BY <1>1, <1>3, <2>1, ShellProceed DEF LookupsDone, TypeInv, Steps, nodeVars
  <2> QED
    BY <1>1, <2>1, <2>2 DEF TypeInv, JobOK
<1>4. ASSUME NEW r \in References, Lookup(r)
      PROVE  /\ TypeInv' /\ w'.pc = "lookup" /\ w'.key = w.key /\ w'.spec = w.spec
             /\ job'.uid = job.uid /\ job'.kind = job.kind
             /\ w.pc = "lookup" /\ job'.ids = job.ids
  <2>1. ShellInv(Steps)' /\ w'.pc = "lookup" /\ w'.key = w.key /\ w'.spec = w.spec
    BY <1>1, <1>4, ShellProceed DEF Lookup, TypeInv, Steps
  <2>2. /\ job' \in Jobs /\ job'.uid = job.uid /\ job'.kind = job.kind
        /\ w.pc = "lookup" /\ job'.ids = job.ids
    BY <1>1, <1>4 DEF Lookup, Jobs
  <2> QED
    BY <1>1, <2>1, <2>2 DEF TypeInv, JobOK
<1>5. ASSUME NEW r \in References, LookupFails(r)
      PROVE  /\ TypeInv' /\ w'.pc = "status" /\ w'.key = w.key /\ w'.spec = w.spec /\ w'.err
             /\ job'.uid = job.uid /\ job'.kind = job.kind /\ job'.ids = {}
  <2>1. ShellInv(Steps)' /\ w'.pc = "status" /\ w'.key = w.key /\ w'.spec = w.spec /\ w'.err
    BY <1>1, <1>5, ShellEnd DEF LookupFails, TypeInv
  <2>2. job' \in Jobs /\ job'.uid = job.uid /\ job'.kind = job.kind /\ job'.ids = {}
    BY <1>1, <1>5 DEF LookupFails, Jobs
  <2> QED
    BY <1>1, <2>1, <2>2 DEF TypeInv, JobOK
<1> QED
  BY <1>1, <1>2, <1>3, <1>4, <1>5

\* deleteNodeByName goes on to the next kind, or is done.
LEMMA NextKindTypes ==
    ASSUME TypeInv, w.pc \in {"name", "delete"}, job.uid = Nil, NextKind
    PROVE  /\ ShellInv(Steps)' /\ job' \in Jobs /\ JobOK'
           /\ job'.ids = {} /\ job'.uid = Nil
           /\ w'.pc \in {"name", "status"} /\ w'.key = w.key /\ w'.spec = w.spec
<1>1. job' \in Jobs /\ job'.ids = {} /\ job'.uid = Nil
  BY DEF NextKind, TypeInv, Jobs, Kinds
<1>2. CASE Proceed("name")
  BY <1>1, <1>2, ShellProceed DEF TypeInv, Steps, JobOK
<1>3. CASE Succeed(FALSE)
  BY <1>1, <1>3, ShellEnd DEF TypeInv, JobOK
<1> QED
  BY <1>2, <1>3 DEF NextKind

\* DeleteDeviceByName, DeleteVirtualMachineByName.
LEMMA NameTypes ==
    ASSUME TypeInv, FindByName
    PROVE  /\ TypeInv'
           /\ w.pc = "name" /\ job'.uid = Nil
           /\ w'.key = w.key /\ w'.spec = w.spec /\ UNCHANGED <<node, objs, missing>>
           /\ \/ w'.pc = "delete" /\ job'.ids \subseteq Named(w.spec.slug)
              \/ w'.pc \in {"name", "status"} /\ job'.ids = {}
<1>1. w.pc = "name" /\ job.uid = Nil /\ UNCHANGED <<node, objs, missing>>
  BY DEF FindByName, TypeInv, JobOK
<1>2. ASSUME NEW i \in Named(w.spec.slug), job' = [job EXCEPT !.ids = {i}], Proceed("delete")
      PROVE  /\ TypeInv' /\ job'.uid = Nil
             /\ w'.key = w.key /\ w'.spec = w.spec
             /\ w'.pc = "delete" /\ job'.ids \subseteq Named(w.spec.slug)
  <2>1. job' \in Jobs /\ job'.uid = Nil /\ job'.ids = {i}
    BY <1>1, <1>2 DEF TypeInv, Jobs, Named, Managed
  <2> QED
    BY <1>1, <1>2, <2>1, ShellProceed DEF TypeInv, Steps, JobOK
<1>3. CASE NextKind
  BY <1>1, <1>3, NextKindTypes DEF TypeInv
<1> QED
  BY <1>1, <1>2, <1>3 DEF FindByName

\* The writes of EnsureDevice, EnsureVirtualMachine and the deletes.
LEMMA WriteTypes ==
    ASSUME TypeInv, NEW i \in Ids, WriteNode(i) \/ DeleteNode(i)
    PROVE  /\ TypeInv'
           /\ w'.key = w.key /\ w'.spec = w.spec /\ UNCHANGED <<node, missing>>
           /\ job'.ids = {} /\ job'.uid = job.uid
           /\ \/ w'.pc = "status" /\ job'.kind = job.kind
              \/ w'.pc \in {"name", "status"} /\ job.uid = Nil
<1>1. w.pc \in {"update", "create", "delete"} /\ UNCHANGED <<node, missing>>
  BY DEF WriteNode, DeleteNode
<1>2. objs' \in [Ids -> NodeObject \cup {Nil}]
  BY WrittenType DEF WriteNode, DeleteNode, TypeInv
<1>3. CASE w.pc = "delete" /\ job.uid = Nil /\ NextKind
  BY <1>1, <1>2, <1>3, NextKindTypes DEF TypeInv
<1>4. CASE job' = [job EXCEPT !.ids = {}] /\ Succeed(TRUE)
  <2>1. job' \in Jobs /\ job'.ids = {} /\ job'.uid = job.uid /\ job'.kind = job.kind
    BY <1>4 DEF TypeInv, Jobs
  <2> QED
    BY <1>1, <1>2, <1>4, <2>1, ShellEnd DEF TypeInv, JobOK
<1> QED
  BY <1>3, <1>4 DEF WriteNode, DeleteNode

\* A call that fails, and may have been carried out.
LEMMA FailureTypes ==
    ASSUME TypeInv, CallFails \/ ObjectGone \/ NameRefused
    PROVE  /\ TypeInv'
           /\ w.pc \in Steps /\ w'.pc = "status" /\ w'.err
           /\ w'.key = w.key /\ w'.spec = w.spec /\ UNCHANGED <<node, missing>>
           /\ job'.ids = {} /\ job'.uid = job.uid /\ job'.kind = job.kind
<1>1. w.pc \in Steps /\ UNCHANGED <<node, missing>> /\ Fail
  BY DEF CallFails, ObjectGone, NameRefused, Steps
<1>2. ShellInv(Steps)' /\ w'.pc = "status" /\ w'.key = w.key /\ w'.spec = w.spec /\ w'.err
  BY <1>1, ShellEnd DEF TypeInv, Steps
<1>3. objs' \in [Ids -> NodeObject \cup {Nil}]
  BY WrittenType DEF CallFails, ObjectGone, NameRefused, Outcomes, FreshIds, TypeInv, Jobs
<1>4. job' \in Jobs /\ job'.ids = {} /\ job'.uid = job.uid /\ job'.kind = job.kind
  BY DEF CallFails, ObjectGone, NameRefused, TypeInv, Jobs
<1> QED
  BY <1>1, <1>2, <1>3, <1>4 DEF TypeInv, JobOK

\* syncNodesStatus and the errors of the Kubernetes API.
LEMMA ReportTypes ==
    ASSUME TypeInv, syncNodesStatus \/ KubeFails
    PROVE  /\ TypeInv' /\ UNCHANGED <<node, objs, missing>>
           /\ \/ w' = IdleWorker /\ job' = NoJob
              \/ /\ w.pc = "status" /\ w'.pc = "write" /\ job' = job
                 /\ w'.key = w.key /\ w'.spec = w.spec /\ w'.err = w.err
<1>1. ShellInv(Steps)' /\ UNCHANGED <<node, objs, missing>>
  BY ShellReport, SpecTypes DEF syncNodesStatus, KubeFails, TypeInv
<1>2. \/ w' = IdleWorker /\ job' = NoJob
      \/ /\ w.pc = "status" /\ w'.pc = "write" /\ job' = job
         /\ w'.key = w.key /\ w'.spec = w.spec /\ w'.err = w.err
  <2>1. CASE syncNodesStatus
    BY <2>1, ShellReport, ShellIdle, SpecTypes DEF syncNodesStatus, TypeInv
  <2>2. CASE KubeFails
    <3>1. w' = IdleWorker
      BY <2>2
         DEF KubeFails, GetFails, ReportFault, ReadForStatusFails, WriteStatusFails, ReturnError
    <3> QED
      BY <2>2, <3>1 DEF KubeFails
  <2> QED
    BY <2>1, <2>2
<1> QED
  BY <1>1, <1>2, NoJobType, ShellIdle DEF TypeInv, JobOK

\* The types are inductive.
LEMMA NextTypes == TypeInv /\ [Next]_vars => TypeInv'
<1> SUFFICES ASSUME TypeInv, [Next]_vars PROVE TypeInv'
  OBVIOUS
<1>1. CASE UNCHANGED vars
  <2>1. ShellInv(Steps)'
    BY <1>1, ShellUnchanged DEF vars, TypeInv
  <2> QED
    BY <1>1, <2>1 DEF vars, shellVars, nodeVars, TypeInv, JobOK
<1>2. CASE WorkerStep
  BY <1>2, SeeTypes, FindTypes, LookupTypes, NameTypes, WriteTypes, FailureTypes, ReportTypes
     DEF WorkerStep
<1> QED
  BY <1>1, <1>2, TakeTypes, FailureTypes, ReportTypes, EnvironmentTypes DEF Next

(***************************************************************************)
(* Type correctness: every variable keeps its type, and so does whatever   *)
(* EnsureDevice and EnsureVirtualMachine write to NetBox.                  *)
(***************************************************************************)
THEOREM NodesTypes == SafetySpec => []NodesTypeOK
<1>1. TypeInv => NodesTypeOK
  BY DEF TypeInv, ShellInv, ShellWorkers, Statuses, Steps, Jobs, NodesTypeOK, ShellTypeOK
<1> QED
  BY <1>1, InitTypes, NextTypes, PTL DEF SafetySpec
-----------------------------------------------------------------------------
(***************************************************************************)
(* One object per Node.  OneObjectPerNode is not inductive, because the    *)
(* search and the write are separate calls with lookups in between: the    *)
(* worker has to remember that it saw all there is.                        *)
(***************************************************************************)

\* Object j is the one of this kind, tag and UID that the worker searches for.
Claimed(j) ==
    /\ objs[j] # Nil
    /\ objs[j].kind = job.kind /\ objs[j].tag = w.spec.slug /\ objs[j].xid = job.uid

\* The worker is past the search by external ID, and yet to write.
Aiming == w.pc \in {"lookup", "update", "create"} \/ (w.pc = "delete" /\ job.uid # Nil)

\* There is still no other object than the one found, which is at most one.
OnlyFound ==
    /\ Aiming => \A j \in Ids : Claimed(j) => j \in job.ids
    /\ w.pc = "create" => job.ids = {}
    /\ \A i, j \in job.ids : i = j

DupInv == TypeInv /\ OneObjectPerNode /\ OnlyFound

\* A step that brings no object and, if a write lies ahead, keeps what the worker
\* knows.
LEMMA NothingNew ==
    ASSUME DupInv, TypeInv',
           \A i \in Ids : objs'[i] = objs[i] \/ objs'[i] = Nil,
           \A i, j \in job'.ids : i = j,
           Aiming' =>
               /\ Aiming /\ w'.spec = w.spec
               /\ job'.ids = job.ids /\ job'.uid = job.uid /\ job'.kind = job.kind
               /\ w'.pc = "create" => job.ids = {}
    PROVE  DupInv'
<1>1. OneObjectPerNode'
  BY DEF DupInv, OneObjectPerNode
<1>2. OnlyFound'
  BY DEF DupInv, OnlyFound, Claimed, Aiming
<1> QED
  BY <1>1, <1>2 DEF DupInv

\* A write of EnsureDevice or EnsureVirtualMachine makes no duplicate, and leaves
\* no object of the Node but the one written, answered or not.
LEMMA WriteIsSafe ==
    ASSUME DupInv, w.pc \in {"update", "create"}, NEW i \in Ids,
           w.pc = "update" => i \in job.ids,
           objs' = [objs EXCEPT ![i] = Written]
    PROVE  /\ OneObjectPerNode'
           /\ objs'[i] = Written
           /\ \A j \in Ids \ {i} : objs'[j] = objs[j] /\ ~Claimed(j)
<1>1. \A j \in Ids : Claimed(j) => j = i
  BY DEF DupInv, OnlyFound, Aiming
<1>2. objs'[i] = Written /\ \A j \in Ids \ {i} : objs'[j] = objs[j]
  BY DEF DupInv, TypeInv
<1>3. Written.kind = job.kind /\ Written.tag = w.spec.slug /\ Written.xid = job.uid
  BY WrittenType DEF DupInv
<1>4. OneObjectPerNode'
  BY <1>1, <1>2, <1>3 DEF Claimed, DupInv, OneObjectPerNode
<1> QED
  BY <1>1, <1>2, <1>4

\* After the search by external ID the worker knows all there is.
LEMMA FindDup ==
    ASSUME Cardinality(Ids) <= PageSize, DupInv, FindByExternalID
    PROVE  DupInv' /\ (w'.pc = "status" => ~w.spec.enabled /\ \A j \in Ids : ~Claimed(j))
<1> DEFINE page == Managed(job.kind, w.spec.slug)
<1>1. TypeInv' /\ UNCHANGED objs
  BY FindTypes DEF DupInv, FindByExternalID
<1>2. Pages(page) = {page} /\ Matches(page) \subseteq Ids
  BY WholePage DEF Managed, Matches
<1>3. PICK ids \in SUBSET Matches(page) :
         /\ HaveExisting(ids)
         /\ \A i, j \in ids : i = j
         /\ Matches(page) # {} => ids # {}
  BY <1>2 DEF FindByExternalID
<1>4. /\ job'.ids = ids /\ job'.uid = job.uid /\ job'.kind = job.kind /\ w'.spec = w.spec
      /\ \/ w'.pc = "lookup"
         \/ w'.pc = "delete"
         \/ w'.pc = "status" /\ ~w.spec.enabled /\ ids = {}
  BY <1>2, <1>3, HaveTypes DEF DupInv, FindByExternalID
<1>5. \A j \in Ids : Claimed(j) <=> j \in Matches(page)
  BY DEF Claimed, Matches, Managed
<1>6. \A i, j \in Ids : Claimed(i) /\ Claimed(j) => i = j
  BY DEF DupInv, OneObjectPerNode, Claimed
<1>7. \A j \in Ids : Claimed(j) => j \in ids
  BY <1>2, <1>3, <1>5, <1>6
<1>8. OnlyFound'
  BY <1>1, <1>3, <1>4, <1>7 DEF OnlyFound, Claimed, Aiming
<1> QED
  BY <1>1, <1>4, <1>7, <1>8 DEF DupInv, OneObjectPerNode

\* A call to NetBox that fails.
LEMMA FailureDup ==
    ASSUME DupInv, CallFails \/ ObjectGone \/ NameRefused
    PROVE  DupInv'
<1>1. TypeInv /\ TypeInv' /\ w'.pc = "status" /\ job'.ids = {}
  BY FailureTypes DEF DupInv
<1>2. OnlyFound'
  BY <1>1 DEF OnlyFound, Aiming
<1>3. CASE \A i \in Ids : objs'[i] = objs[i] \/ objs'[i] = Nil
  BY <1>1, <1>2, <1>3 DEF DupInv, OneObjectPerNode
<1>4. CASE /\ w.pc \in {"update", "create"}
           /\ \E i \in Ids : /\ w.pc = "update" => i \in job.ids
                             /\ objs' = [objs EXCEPT ![i] = Written]
  BY <1>1, <1>2, <1>4, WriteIsSafe DEF DupInv
<1>5. objs \in [Ids -> NodeObject \cup {Nil}] /\ job.ids \subseteq Ids
  BY <1>1 DEF TypeInv, Jobs
<1> QED
  BY <1>3, <1>4, <1>5 DEF CallFails, ObjectGone, NameRefused, Outcomes, FreshIds

\* The writes and deletes that are answered.
LEMMA WriteDup ==
    ASSUME DupInv, NEW i \in Ids, WriteNode(i) \/ DeleteNode(i)
    PROVE  DupInv'
<1>1. TypeInv /\ TypeInv' /\ w'.pc \in {"name", "status"} /\ job'.ids = {}
  BY WriteTypes DEF DupInv
<1>2. OnlyFound'
  BY <1>1 DEF OnlyFound, Aiming
<1>3. CASE WriteNode(i)
  BY <1>1, <1>2, <1>3, WriteIsSafe DEF WriteNode, DupInv
<1>4. CASE DeleteNode(i)
  <2>1. \A j \in Ids : objs'[j] = objs[j] \/ objs'[j] = Nil
    BY <1>1, <1>4 DEF DeleteNode, TypeInv
  <2> QED
    BY <1>1, <1>2, <2>1 DEF DupInv, OneObjectPerNode
<1> QED
  BY <1>3, <1>4

\* All other steps write nothing, or take an object away.
LEMMA OtherDup ==
    ASSUME DupInv,
           \/ \E k \in Keys : TakeNode(k)
           \/ SeeDeleted \/ SeeDisabled \/ SeePaused \/ SeeEnabled
           \/ EnsureManagedTag \/ LookupsDone \/ (\E r \in References : Lookup(r) \/ LookupFails(r))
           \/ FindByName \/ syncNodesStatus \/ KubeFails
           \/ Environment
    PROVE  DupInv'
<1>1. TypeInv /\ \A i, j \in job.ids : i = j
  BY DEF DupInv, OnlyFound
<1>2. CASE \E k \in Keys : TakeNode(k)
  BY <1>1, <1>2, TakeTypes, NothingNew DEF Aiming, nodeVars
<1>3. CASE SeeDeleted \/ SeeDisabled \/ SeePaused \/ SeeEnabled
  BY <1>1, <1>3, SeeTypes, NothingNew DEF Aiming
<1>4. CASE EnsureManagedTag \/ LookupsDone \/ \E r \in References : Lookup(r) \/ LookupFails(r)
  BY <1>1, <1>4, LookupTypes, NothingNew DEF Aiming
<1>5. CASE FindByName
  <2>1. /\ TypeInv' /\ UNCHANGED objs /\ job'.uid = Nil
        /\ w'.pc \in {"delete", "name", "status"}
    BY <1>1, <1>5, NameTypes
  <2>2. \A i, j \in job'.ids : i = j
    <3>1. ASSUME NEW i, job' = [job EXCEPT !.ids = {i}] PROVE job'.ids = {i}
      BY <1>1, <3>1 DEF TypeInv, Jobs
    <3>2. ASSUME NextKind PROVE job'.ids = {}
      BY <1>1, <3>2 DEF NextKind, TypeInv, Jobs
    <3> QED
      BY <1>5, <3>1, <3>2 DEF FindByName
  <2> QED
    BY <2>1, <2>2, NothingNew DEF Aiming
<1>6. CASE syncNodesStatus \/ KubeFails
  BY <1>1, <1>6, ReportTypes, ShellIdle, NoJobType, NothingNew DEF Aiming
<1>7. CASE Environment
  <2>1. \A i \in Ids : objs'[i] = objs[i] \/ objs'[i] = Nil
    BY <1>1, <1>7
       DEF Environment, enqueueAllNodes, Heartbeat, NodeLeaves, NodeJoins, Drift, ChangeReference,
           NodesRestart, nodeVars, TypeInv
  <2>2. TypeInv'
    BY <1>1, <1>7, EnvironmentTypes
  <2>3. CASE w' = IdleWorker /\ job' = NoJob
    BY <2>1, <2>2, <2>3, ShellIdle, NoJobType, NothingNew DEF Aiming
  <2>4. CASE w'.pc = w.pc /\ w'.spec = w.spec /\ job' = job
    BY <1>1, <2>1, <2>2, <2>4, NothingNew DEF Aiming, DupInv, OnlyFound
  <2> QED
    BY <1>1, <1>7, <2>3, <2>4, EnvironmentTypes
<1> QED
  BY <1>2, <1>3, <1>4, <1>5, <1>6, <1>7

\* DupInv holds at first and is inductive.
LEMMA InitDup == Init => DupInv
<1> SUFFICES ASSUME Init PROVE DupInv
  OBVIOUS
<1>1. w.pc = "idle" /\ job.ids = {} /\ \A i \in Ids : objs[i] = Nil
  BY ShellIdle, NoJobType DEF Init, ShellInit
<1> QED
  BY <1>1, InitTypes DEF DupInv, OneObjectPerNode, OnlyFound, Aiming

LEMMA NextDup ==
    ASSUME Cardinality(Ids) <= PageSize
    PROVE  DupInv /\ [Next]_vars => DupInv'
<1> SUFFICES ASSUME DupInv, [Next]_vars PROVE DupInv'
  OBVIOUS
<1>1. CASE UNCHANGED vars
  <2>1. TypeInv'
    BY NextTypes DEF DupInv
  <2> QED
    BY <1>1, <2>1, NothingNew
       DEF vars, shellVars, nodeVars, DupInv, OnlyFound, Aiming
<1>2. CASE WorkerStep
  BY <1>2, FindDup, FailureDup, WriteDup, OtherDup DEF WorkerStep
<1> QED
  BY <1>1, <1>2, FailureDup, OtherDup DEF Next

(***************************************************************************)
(* Provided a list returns all objects (as the code takes for granted),    *)
(* NetBox never holds two objects of one kind and tag for one Node: not    *)
(* when the answer to a create is lost, not after a restart between the    *)
(* search and the create, and not when the mapping is switched in between  *)
(* (EnsureDevice, EnsureVirtualMachine).                                   *)
(***************************************************************************)
THEOREM NodesAreUnique ==
    Cardinality(Ids) <= PageSize => (SafetySpec => []OneObjectPerNode)
<1> SUFFICES ASSUME Cardinality(Ids) <= PageSize PROVE SafetySpec => []OneObjectPerNode
  OBVIOUS
<1>1. DupInv => OneObjectPerNode
  BY DEF DupInv
<1> QED
  BY <1>1, InitDup, NextDup, PTL DEF SafetySpec
-----------------------------------------------------------------------------
(***************************************************************************)
(* What is reported is real.  DupInv says what is in NetBox right before   *)
(* the last write; after it, nobody else writes or deletes (single worker, *)
(* no drift), so it is still there when the status is written.             *)
(***************************************************************************)
RealInv == DupInv /\ NodeReportIsReal

\* A step that makes no new claim to have succeeded.
LEMMA NothingReported ==
    ASSUME w'.pc \in {"status", "write"} => w'.err \/ job'.uid = Nil \/ (~w'.spec.enabled /\ w'.spec.retain)
    PROVE  NodeReportIsReal'
BY DEF NodeReportIsReal

\* A step that leaves NetBox and the report alone.
LEMMA ReportKept ==
    ASSUME NodeReportIsReal, UNCHANGED <<objs, job>>,
           w'.pc \in {"status", "write"} => w.pc \in {"status", "write"},
           w'.key = w.key, w'.spec = w.spec, w'.err = w.err
    PROVE  NodeReportIsReal'
BY DEF NodeReportIsReal, Recorded, Absent, Managed

\* The write that succeeds leaves exactly the object reported.
LEMMA WriteReal ==
    ASSUME DupInv, NEW i \in Ids, WriteNode(i)
    PROVE  NodeReportIsReal'
<1>1. TypeInv /\ w.pc \in {"update", "create"} /\ (w.pc = "update" => i \in job.ids)
  BY DEF DupInv, WriteNode
<1>2. /\ w'.spec = w.spec /\ w'.key = w.key /\ w.spec.enabled
      /\ job'.uid = job.uid /\ job.uid # Nil
  BY <1>1, WriteTypes, NodesAssumption DEF TypeInv, JobOK, NodesAssumption
<1>3. job'.kind = job.kind
  BY <1>1 DEF WriteNode, TypeInv, Jobs
<1>4. objs'[i] = Written /\ \A j \in Ids \ {i} : objs'[j] = objs[j] /\ ~Claimed(j)
  BY <1>1, WriteIsSafe DEF WriteNode
<1>5. /\ Written.kind = job.kind /\ Written.tag = w.spec.slug /\ Written.xid = job.uid
      /\ Written.name = w.key /\ Written # Nil
  BY <1>1, WrittenType, NodesAssumption DEF NodesAssumption
<1>6. {j \in Managed(job.kind, w.spec.slug)' : objs'[j].xid = job.uid} = {i}
  BY <1>2, <1>3, <1>4, <1>5 DEF Managed, Claimed
<1>7. Recorded(job.kind, w.spec.slug, job.uid, w.key)'
  BY <1>2, <1>3, <1>4, <1>5, <1>6 DEF Recorded
<1> QED
  BY <1>2, <1>7 DEF NodeReportIsReal

\* The delete that succeeds leaves none.
LEMMA DeleteReal ==
    ASSUME DupInv, NEW i \in Ids, DeleteNode(i)
    PROVE  NodeReportIsReal'
<1>1. CASE job.uid = Nil
  BY <1>1, WriteTypes, NothingReported DEF DupInv
<1>2. CASE job.uid # Nil
  <2>1. TypeInv /\ w.pc = "delete" /\ i \in job.ids /\ ~w.spec.enabled
    BY <1>2 DEF DupInv, DeleteNode, TypeInv, JobOK
  <2>2. \A j \in Ids : Claimed(j) => j = i
    BY <1>2, <2>1 DEF DupInv, OnlyFound, Aiming
  <2>3. objs'[i] = Nil /\ \A j \in Ids \ {i} : objs'[j] = objs[j]
    BY <2>1 DEF DeleteNode, TypeInv
  <2>4. w'.spec = w.spec /\ job'.uid = job.uid /\ job'.kind = job.kind
    BY <1>2, <2>1, WriteTypes
  <2>5. Absent(job.kind, w.spec.slug, job.uid)'
    BY <2>2, <2>3, <2>4 DEF Absent, Managed, Claimed
  <2> QED
    BY <2>1, <2>4, <2>5 DEF NodeReportIsReal
<1> QED
  BY <1>1, <1>2

\* All other steps report nothing new, or that there was nothing to do.
LEMMA OtherReal ==
    ASSUME RealInv, "drift" \notin Disturb,
           \/ \E k \in Keys : TakeNode(k)
           \/ SeeDeleted \/ SeeDisabled \/ SeePaused \/ SeeEnabled
           \/ EnsureManagedTag \/ LookupsDone \/ (\E r \in References : Lookup(r) \/ LookupFails(r))
           \/ FindByName \/ ObjectGone \/ NameRefused \/ CallFails \/ syncNodesStatus \/ KubeFails
           \/ Environment
    PROVE  NodeReportIsReal'
<1>1. TypeInv /\ NodeReportIsReal
  BY DEF RealInv, DupInv
<1>2. CASE \E k \in Keys : TakeNode(k)
  BY <1>1, <1>2, TakeTypes, NothingReported
<1>3. CASE SeeDeleted \/ SeeDisabled \/ SeePaused \/ SeeEnabled
  BY <1>1, <1>3, SeeTypes, NothingReported
<1>4. CASE EnsureManagedTag \/ LookupsDone \/ \E r \in References : Lookup(r) \/ LookupFails(r)
  BY <1>1, <1>4, LookupTypes, NothingReported
<1>5. CASE FindByName \/ ObjectGone \/ NameRefused \/ CallFails
  BY <1>1, <1>5, NameTypes, FailureTypes, NothingReported
<1>6. CASE syncNodesStatus \/ KubeFails
  BY <1>1, <1>6, ReportTypes, ShellIdle, NothingReported, ReportKept
<1>7. CASE Environment
  <2>1. UNCHANGED objs
    BY <1>7
       DEF Environment, enqueueAllNodes, Heartbeat, NodeLeaves, NodeJoins, Drift, May,
           ChangeReference, NodesRestart, nodeVars
  <2> QED
    BY <1>1, <1>7, <2>1, EnvironmentTypes, ShellIdle, NothingReported, ReportKept
<1> QED
  BY <1>2, <1>3, <1>4, <1>5, <1>6, <1>7

(***************************************************************************)
(* Provided a list returns all objects and nobody else deletes managed     *)
(* ones: a success is reported only when NetBox holds exactly the Node's   *)
(* object of the mapping in force, under its UID and name, or, with sync   *)
(* off, none (Reconcile, syncNodesStatus).                                 *)
(***************************************************************************)
THEOREM NodeReportsAreReal ==
    Cardinality(Ids) <= PageSize /\ "drift" \notin Disturb => (SafetySpec => []NodeReportIsReal)
<1> SUFFICES ASSUME Cardinality(Ids) <= PageSize, "drift" \notin Disturb
             PROVE  SafetySpec => []NodeReportIsReal
  OBVIOUS
<1>1. Init => RealInv
  <2> SUFFICES ASSUME Init PROVE RealInv
    OBVIOUS
  <2>1. w.pc = "idle"
    BY ShellIdle DEF Init, ShellInit
  <2> QED
    BY <2>1, InitDup DEF RealInv, NodeReportIsReal
<1>2. RealInv /\ [Next]_vars => RealInv'
  <2> SUFFICES ASSUME RealInv, [Next]_vars PROVE NodeReportIsReal'
    BY NextDup DEF RealInv
  <2>1. DupInv /\ NodeReportIsReal
    BY DEF RealInv
  <2>2. CASE UNCHANGED vars
    BY <2>1, <2>2, ReportKept DEF vars, shellVars, nodeVars
  <2>3. CASE FindByExternalID
    <3>1. /\ w'.pc = "status" => ~w.spec.enabled /\ \A j \in Ids : ~Claimed(j)
          /\ UNCHANGED objs
      BY <2>1, <2>3, FindDup DEF FindByExternalID
    <3>2. \E ids \in SUBSET Ids : HaveExisting(ids)
      BY <2>3 DEF FindByExternalID, Pages, Managed, Matches
    <3>3. /\ w'.spec = w.spec /\ job'.uid = job.uid /\ job'.kind = job.kind
          /\ w'.pc \in {"lookup", "delete", "status"}
      BY <2>1, <2>3, <3>2, HaveTypes DEF FindByExternalID, DupInv
    <3>4. w'.pc = "status" => Absent(job.kind, w.spec.slug, job.uid)'
      BY <3>1, <3>3 DEF Absent, Managed, Claimed
    <3> QED
      BY <3>1, <3>3, <3>4 DEF NodeReportIsReal
  <2>4. CASE WorkerStep
    BY <2>1, <2>3, <2>4, WriteReal, DeleteReal, OtherReal DEF WorkerStep
  <2> QED
    BY <2>2, <2>4, OtherReal DEF Next
<1>3. RealInv => NodeReportIsReal
  BY DEF RealInv
<1> QED
  BY <1>1, <1>2, <1>3, PTL DEF SafetySpec
-----------------------------------------------------------------------------
(***************************************************************************)
(* No Node loses its object.  The worker deletes by name, and the name may *)
(* by then be the one of a new Node: it is the UID that tells them apart.  *)
(* The invariant relates UIDs, names and the reconcile in progress.        *)
(***************************************************************************)
\* No two Nodes have the same UID, and an object with the UID of a Node has its
\* name.
UidsNameNodes ==
    /\ \A k, l \in Keys : node[k] # Nil /\ node[k] = node[l] => k = l
    /\ \A i \in Ids, k \in Keys :
          objs[i] # Nil /\ objs[i].xid = node[k] => objs[i].name = k

\* The worker knows the UID of the Node it works for, if it has read one; if it
\* has not, there is no object yet of a Node that has this name now, and what it
\* deletes has this name.
ByNameOnlyOld ==
    /\ job.uid # Nil => \A k \in Keys : node[k] = job.uid => k = w.key
    /\ w.pc \in {"name", "delete"} /\ job.uid = Nil =>
          /\ \A i \in Ids : objs[i] # Nil => objs[i].xid # node[w.key]
          /\ w.pc = "delete" =>
                \A i \in job.ids : objs[i] # Nil => objs[i].name = w.key

KeptInv == TypeInv /\ UidsNameNodes /\ ByNameOnlyOld

\* A step that brings no object and no Node.
LEMMA KeptByWorker ==
    ASSUME KeptInv, TypeInv', UNCHANGED node,
           \A i \in Ids : objs'[i] = objs[i] \/ objs'[i] = Nil,
           job'.uid # Nil => job'.uid = job.uid /\ w'.key = w.key,
           w'.pc \in {"name", "delete"} /\ job'.uid = Nil =>
               /\ w.pc \in {"name", "delete"} /\ job.uid = Nil /\ w'.key = w.key
               /\ w'.pc = "delete" => job'.ids = job.ids /\ w.pc = "delete"
    PROVE  KeptInv'
<1>1. UidsNameNodes'
  BY DEF KeptInv, UidsNameNodes
<1>2. job'.ids \subseteq Ids
  BY DEF TypeInv, Jobs
<1>3. ByNameOnlyOld'
  BY <1>2 DEF KeptInv, ByNameOnlyOld
<1> QED
  BY <1>1, <1>3 DEF KeptInv

\* A write, answered or not, gives the object the name of the Node with its UID.
LEMMA KeptByWrite ==
    ASSUME KeptInv, TypeInv', w.pc \in {"update", "create"}, UNCHANGED node,
           w'.pc = "status", w'.key = w.key, job'.uid = job.uid,
           NEW i \in Ids, objs' = [objs EXCEPT ![i] = Written]
    PROVE  KeptInv'
<1>1. /\ objs'[i] = Written /\ \A j \in Ids \ {i} : objs'[j] = objs[j]
      /\ Written.xid = job.uid /\ Written.name = w.key /\ job.uid # Nil
  BY WrittenType, NodesAssumption DEF KeptInv, TypeInv, JobOK, NodesAssumption
<1>2. UidsNameNodes'
  BY <1>1 DEF KeptInv, UidsNameNodes, ByNameOnlyOld
<1>3. ByNameOnlyOld'
  BY DEF KeptInv, ByNameOnlyOld
<1> QED
  BY <1>2, <1>3 DEF KeptInv

\* Reconcile reads the Node, or finds that it is gone.
LEMMA KeptBySee ==
    ASSUME KeptInv, SeeDeleted \/ SeeDisabled \/ SeePaused \/ SeeEnabled
    PROVE  KeptInv'
<1>1. /\ TypeInv' /\ UNCHANGED <<node, objs>> /\ w.key \in Keys
      /\ w'.key = w.key /\ job'.uid = node[w.key]
      /\ w'.pc \in {"name", "find", "tag", "status"}
  BY SeeTypes DEF KeptInv, TypeInv, ShellInv
<1>2. \A i \in Ids : objs[i] # Nil => objs[i].xid # Nil
  BY NodesAssumption DEF KeptInv, TypeInv, NodeObject, NodesAssumption
<1>3. UidsNameNodes'
  BY <1>1 DEF KeptInv, UidsNameNodes
<1>4. ByNameOnlyOld'
  BY <1>1, <1>2 DEF KeptInv, UidsNameNodes, ByNameOnlyOld
<1> QED
  BY <1>1, <1>3, <1>4 DEF KeptInv

\* The object found by name has the name.
LEMMA KeptByFind ==
    ASSUME KeptInv, FindByName
    PROVE  KeptInv'
<1>1. /\ TypeInv' /\ UNCHANGED <<node, objs>>
      /\ w.pc = "name" /\ job.uid = Nil /\ job'.uid = Nil /\ w'.key = w.key
      /\ w'.pc = "delete" => job'.ids \subseteq Named(w.spec.slug)
  BY NameTypes DEF KeptInv, TypeInv, JobOK
<1>2. UidsNameNodes'
  BY <1>1 DEF KeptInv, UidsNameNodes
<1>3. ByNameOnlyOld'
  BY <1>1 DEF KeptInv, ByNameOnlyOld, Named
<1> QED
  BY <1>1, <1>2, <1>3 DEF KeptInv

\* A Node joins, with a UID nobody knows, whoever had its name before.
LEMMA KeptByJoin ==
    ASSUME KeptInv, NEW k \in Keys, NEW u \in Uids, NodeJoins(k, u)
    PROVE  KeptInv'
<1>1. TypeInv /\ Environment
  BY DEF Environment, KeptInv
<1>2. TypeInv'
  BY <1>1, EnvironmentTypes
<1>3. /\ UNCHANGED <<objs, w, job>> /\ u \in FreshUids
      /\ node'[k] = u /\ \A l \in Keys \ {k} : node'[l] = node[l]
  BY <1>1 DEF NodeJoins, TypeInv
<1>4. UidsNameNodes'
  BY <1>3 DEF KeptInv, UidsNameNodes, FreshUids
<1>5. w.pc # "idle" => w.key \in Keys
  BY <1>1 DEF TypeInv, ShellInv
<1>6. ByNameOnlyOld'
  BY <1>3, <1>5 DEF KeptInv, ByNameOnlyOld, FreshUids
<1> QED
  BY <1>2, <1>4, <1>6 DEF KeptInv

\* A Node leaves.
LEMMA KeptByLeave ==
    ASSUME KeptInv, NEW k \in Keys, NodeLeaves(k)
    PROVE  KeptInv'
<1>1. TypeInv /\ Environment
  BY DEF Environment, KeptInv
<1>2. TypeInv'
  BY <1>1, EnvironmentTypes
<1>3. /\ UNCHANGED <<objs, w, job>>
      /\ node'[k] = Nil /\ \A l \in Keys \ {k} : node'[l] = node[l]
  BY <1>1 DEF NodeLeaves, TypeInv
<1>4. \A i \in Ids : objs[i] # Nil => objs[i].xid # Nil
  BY <1>1, NodesAssumption DEF TypeInv, NodeObject, NodesAssumption
<1>5. UidsNameNodes'
  BY <1>3, <1>4 DEF KeptInv, UidsNameNodes
<1>6. w.pc # "idle" => w.key \in Keys
  BY <1>1 DEF TypeInv, ShellInv
<1>7. ByNameOnlyOld'
  BY <1>3, <1>4, <1>6 DEF KeptInv, ByNameOnlyOld
<1> QED
  BY <1>2, <1>5, <1>7 DEF KeptInv

\* The other steps of the environment.
LEMMA KeptByEnvironment ==
    ASSUME KeptInv, Environment
    PROVE  KeptInv'
<1>1. CASE \E k \in Keys : NodeLeaves(k) \/ \E u \in Uids : NodeJoins(k, u)
  BY <1>1, KeptByLeave, KeptByJoin
<1>2. CASE ~ \E k \in Keys : NodeLeaves(k) \/ \E u \in Uids : NodeJoins(k, u)
  <2>1. UNCHANGED node /\ \A i \in Ids : objs'[i] = objs[i] \/ objs'[i] = Nil
    BY <1>2
       DEF Environment, enqueueAllNodes, Heartbeat, Drift, ChangeReference, NodesRestart, nodeVars,
           KeptInv, TypeInv
  <2>2. TypeInv'
    BY EnvironmentTypes DEF KeptInv
  <2>3. CASE w' = IdleWorker /\ job' = NoJob
    BY <2>1, <2>2, <2>3, KeptByWorker, ShellIdle, NoJobType
  <2>4. CASE w'.pc = w.pc /\ w'.key = w.key /\ job' = job
    BY <2>1, <2>2, <2>4, KeptByWorker
  <2> QED
    BY <2>3, <2>4, EnvironmentTypes DEF KeptInv
<1> QED
  BY <1>1, <1>2

\* KeptInv holds at first and is inductive.
LEMMA InitKept == Init => KeptInv
<1> SUFFICES ASSUME Init PROVE KeptInv
  OBVIOUS
<1>1. w.pc = "idle" /\ job.uid = Nil /\ \A i \in Ids : objs[i] = Nil
  BY ShellIdle, NoJobType DEF Init, ShellInit
<1> QED
  BY <1>1, InitTypes DEF KeptInv, UidsNameNodes, ByNameOnlyOld, Init, Existing

LEMMA NextKept == KeptInv /\ [Next]_vars => KeptInv'
<1> SUFFICES ASSUME KeptInv, [Next]_vars PROVE KeptInv'
  OBVIOUS
<1>1. TypeInv /\ TypeInv'
  BY NextTypes DEF KeptInv
<1>2. CASE UNCHANGED vars
  BY <1>1, <1>2, KeptByWorker DEF vars, shellVars, nodeVars
<1>3. CASE \E k \in Keys : TakeNode(k)
  <2>1. job' = NoJob /\ UNCHANGED nodeVars /\ w'.pc \in {"idle", "get"}
    BY <1>1, <1>3, TakeTypes DEF TypeInv, JobOK, nodeVars
  <2> QED
    BY <1>1, <2>1, NoJobType, KeptByWorker DEF nodeVars
<1>4. CASE FindByExternalID
  <2>1. \E ids \in SUBSET Ids : HaveExisting(ids)
    BY <1>4 DEF FindByExternalID, Pages, Managed, Matches
  <2>2. /\ w'.key = w.key /\ job'.uid = job.uid /\ job.uid # Nil
        /\ w.pc = "find" /\ UNCHANGED <<node, objs>>
    BY <1>1, <1>4, <2>1, HaveTypes, NodesAssumption
       DEF FindByExternalID, TypeInv, JobOK, NodesAssumption
  <2> QED
    BY <1>1, <2>2, KeptByWorker
<1>5. CASE EnsureManagedTag \/ LookupsDone \/ \E r \in References : Lookup(r) \/ LookupFails(r)
  <2>1. job.uid # Nil
    BY <1>1, <1>5, NodesAssumption
       DEF EnsureManagedTag, LookupsDone, Lookup, LookupFails, TypeInv, JobOK, NodesAssumption
  <2> QED
    BY <1>1, <1>5, <2>1, LookupTypes, KeptByWorker
<1>6. ASSUME NEW i \in Ids, WriteNode(i) PROVE KeptInv'
  <2>1. /\ w.pc \in {"update", "create"} /\ objs' = [objs EXCEPT ![i] = Written]
        /\ job.uid # Nil
    BY <1>1, <1>6, NodesAssumption DEF WriteNode, TypeInv, JobOK, NodesAssumption
  <2> QED
    BY <1>1, <1>6, <2>1, WriteTypes, KeptByWrite
<1>7. ASSUME NEW i \in Ids, DeleteNode(i) PROVE KeptInv'
  <2>1. w.pc = "delete" /\ \A j \in Ids : objs'[j] = objs[j] \/ objs'[j] = Nil
    BY <1>1, <1>7 DEF DeleteNode, TypeInv
  <2> QED
    BY <1>1, <1>7, <2>1, WriteTypes, KeptByWorker
<1>8. CASE CallFails \/ ObjectGone \/ NameRefused
  <2>1. /\ w'.pc = "status" /\ w'.key = w.key /\ job'.uid = job.uid /\ UNCHANGED node
    BY <1>1, <1>8, FailureTypes DEF CallFails, ObjectGone, NameRefused, TypeInv, Jobs
  <2>2. CASE \A i \in Ids : objs'[i] = objs[i] \/ objs'[i] = Nil
    BY <1>1, <2>1, <2>2, KeptByWorker
  <2>3. CASE /\ w.pc \in {"update", "create"}
             /\ \E i \in Ids : objs' = [objs EXCEPT ![i] = Written]
    BY <1>1, <2>1, <2>3, KeptByWrite
  <2>4. objs \in [Ids -> NodeObject \cup {Nil}] /\ job.ids \subseteq Ids
    BY <1>1 DEF TypeInv, Jobs
  <2> QED
    BY <1>8, <2>2, <2>3, <2>4 DEF CallFails, ObjectGone, NameRefused, Outcomes, FreshIds
<1>9. CASE syncNodesStatus \/ KubeFails
  BY <1>1, <1>9, ReportTypes, ShellIdle, NoJobType, KeptByWorker
<1> QED
  BY <1>2, <1>3, <1>4, <1>5, <1>6, <1>7, <1>8, <1>9, KeptBySee, KeptByFind, KeptByEnvironment
     DEF Next, WorkerStep

(***************************************************************************)
(* Provided nobody else deletes managed objects: while node sync is on, no *)
(* step deletes the object of a Node that exists, not even one by which    *)
(* deleteNodeByName looks for a Node that left and whose name was taken    *)
(* over meanwhile.                                                         *)
(***************************************************************************)
THEOREM LiveNodesAreKept ==
    "drift" \notin Disturb => (SafetySpec => LiveNodeKept)
<1> SUFFICES ASSUME "drift" \notin Disturb PROVE SafetySpec => LiveNodeKept
  OBVIOUS
<1> DEFINE Keeps ==
        (w.spec # Nil /\ w.spec.enabled) =>
            \A i \in Ids, k \in Existing :
                objs[i] # Nil /\ objs[i].xid = node[k] => objs'[i] # Nil
<1>1. KeptInv /\ [Next]_vars => [Keeps]_vars
  <2> SUFFICES ASSUME KeptInv, Next, w.spec.enabled,
                      NEW i \in Ids, NEW k \in Keys, node[k] # Nil,
                      objs[i] # Nil, objs[i].xid = node[k]
               PROVE  objs'[i] # Nil
    BY DEF Existing
  <2>1. TypeInv
    BY DEF KeptInv
  <2>2. objs[i].name = k
    BY DEF KeptInv, UidsNameNodes
  <2>3. w.pc = "delete" => i \notin job.ids
    BY <2>1, <2>2 DEF KeptInv, ByNameOnlyOld, TypeInv, JobOK
  <2>4. CASE UNCHANGED objs
    BY <2>4
  <2>5. ASSUME NEW j \in Ids, WriteNode(j) \/ DeleteNode(j) PROVE objs'[i] # Nil
    BY <2>1, <2>3, <2>5, WrittenType, NodesAssumption
       DEF WriteNode, DeleteNode, TypeInv, NodesAssumption
  <2>6. CASE CallFails
    <3>1. w.pc \in {"update", "create"} => Written # Nil
      BY <2>1, WrittenType, NodesAssumption DEF NodesAssumption
    <3> QED
      BY <2>1, <2>3, <2>6, <3>1 DEF CallFails, Outcomes, TypeInv
  <2>7. CASE Environment
    BY <2>7
       DEF Environment, enqueueAllNodes, Heartbeat, NodeLeaves, NodeJoins, Drift, May,
           ChangeReference, NodesRestart, nodeVars
  <2> QED
    BY <2>4, <2>5, <2>6, <2>7
       DEF Next, WorkerStep, TakeNode, SeeDeleted, SeeDisabled, SeePaused, SeeEnabled,
           EnsureManagedTag, FindByExternalID, FindByName, Lookup, LookupFails, LookupsDone,
           ObjectGone, NameRefused, syncNodesStatus, KubeFails, nodeVars
<1> QED
  BY <1>1, InitKept, NextKept, PTL DEF SafetySpec, LiveNodeKept
=============================================================================
