------------------------------- MODULE Nodes -------------------------------
(***************************************************************************)
(* NodeReconciler (internal/controller/node_controller.go) and the NetBox  *)
(* calls it makes (internal/netbox/node.go, refs.go): every Node is kept   *)
(* as a Device or as a VirtualMachine in NetBox.                           *)
(*                                                                         *)
(* The external ID is the Node's UID.  A Node that is gone has no UID any  *)
(* more, so what NetBox holds of it is found by its name, which is the     *)
(* reconcile key.                                                          *)
(***************************************************************************)
EXTENDS ResourceController, NetBoxApi

CONSTANTS
    Uids,          \* UIDs of Nodes
    Slugs,         \* slugs of managed tags
    Places,        \* names of Sites and Clusters
    Fragile        \* the references that may be missing in NetBox

Kinds == {"Device", "VirtualMachine"}

\* The objects of NetBox a Node's object refers to; Herald never creates them.
References == {"type", "role", "site", "cluster", "platform"}

\* spec.resources.nodes: mapping "" is not set, place is the Site of the Devices
\* or the Cluster of the VirtualMachines, and named says whether the optional
\* reference of the mapping (siteName, platformName) is given.
NodesConfig ==
    [enabled : BOOLEAN, retain : BOOLEAN, mapping : Kinds \cup {""},
     place : Places, named : BOOLEAN, slug : Slugs]

\* A Device or VirtualMachine that carries a managed tag.
NodeObject == [kind : Kinds, tag : Slugs, xid : Uids, name : Keys, place : Places]

ASSUME NodesAssumption ==
    /\ Specs \subseteq NodesConfig
    /\ Fragile \subseteq References
    /\ Nil \notin Uids \cup Slugs \cup Kinds \cup NodeObject

VARIABLES
    node,     \* the UIDs of the Nodes in the informer cache; Nil: no such Node
    objs,     \* NetBox: the managed object with each ID; Nil: there is none
    missing,  \* NetBox: the references that cannot be found
    job       \* what the worker keeps of its work, see NoJob

nodeVars == <<node, objs, missing, job>>
vars == <<storeVars, shellVars, nodeVars>>

\* uid is the UID of the Node as read, kind the kind of object at work, todo the
\* references still to be looked up, ids the object to be written.
NoJob == [uid |-> Nil, kind |-> Nil, todo |-> {}, ids |-> {}]

\* Every variable has its type, whatever Reconcile does.
NodesTypeOK ==
    /\ StoreTypeOK
    /\ ShellTypeOK({"name", "tag", "find", "lookup", "update", "create", "delete"})
    /\ node \in [Keys -> Uids \cup {Nil}]
    /\ objs \in [Ids -> NodeObject \cup {Nil}]
    /\ missing \in SUBSET References
    /\ job \in [uid : Uids \cup {Nil}, kind : Kinds \cup {Nil},
                todo : SUBSET References, ids : SUBSET Ids]

Existing == {k \in Keys : node[k] # Nil}

\* UIDs never used before; here one may come back once nobody holds it.
FreshUids ==
    {u \in Uids : /\ \A k \in Keys : node[k] # u
                  /\ \A i \in Ids : objs[i] # Nil => objs[i].xid # u
                  /\ job.uid # u}

Init ==
    /\ StoreInit
    /\ node \in [Keys -> Uids \cup {Nil}]
    /\ \A k, l \in Existing : node[k] = node[l] => k = l
    /\ ShellInit(Existing)
    /\ objs = [i \in Ids |-> Nil]
    /\ missing \in SUBSET Fragile
    /\ job = NoJob
-----------------------------------------------------------------------------
(* NetBox (external) *)

\* The objects of a kind that a list with this tag selects.
Managed(kind, slug) ==
    {i \in Ids : objs[i] # Nil /\ objs[i].kind = kind /\ objs[i].tag = slug}

\* IDs NetBox may give to a new object, see Services.
FreshIds == {i \in Ids : objs[i] = Nil} \ job.ids

\* Somebody deletes a managed object.
Drift(i) ==
    /\ May("drift")
    /\ objs[i] # Nil
    /\ objs' = [objs EXCEPT ![i] = Nil]
    /\ UNCHANGED <<storeVars, shellVars, node, missing, job>>

\* Somebody creates, renames or deletes a Site, a Device Role, ...
ChangeReference(r) ==
    /\ ~quiet
    /\ missing' \in {missing \cup {r}, missing \ {r}}
    /\ UNCHANGED <<storeVars, shellVars, node, objs, job>>
-----------------------------------------------------------------------------
(* Events *)

\* A Node joins the cluster.  One of the same name that left just before may
\* not have been reconciled yet only if "recreate" is given.
NodeJoins(k, u) ==
    /\ May("node")
    /\ node[k] = Nil
    /\ u \in FreshUids
    /\ \/ q[k] = "absent" /\ w.key # k
       \/ "recreate" \in Disturb
    /\ node' = [node EXCEPT ![k] = u]
    /\ q' = Add(q, {k})
    /\ UNCHANGED <<storeVars, cfgEvent, w, status, objs, missing, job>>

NodeLeaves(k) ==
    /\ May("node")
    /\ node[k] # Nil
    /\ node' = [node EXCEPT ![k] = Nil]
    /\ q' = Add(q, {k})
    /\ UNCHANGED <<storeVars, cfgEvent, w, status, objs, missing, job>>

\* Mutant: a predicate lets only changes of the Node's spec pass.
IgnoreHeartbeat(k) == k \in Existing /\ UNCHANGED vars

\* The kubelet's heartbeat updates the Node.
Heartbeat(k) ==
    /\ CacheResync(k, Existing)
    /\ UNCHANGED nodeVars

NodesRestart ==
    /\ ShellRestart(Existing)
    /\ job' = NoJob
    /\ UNCHANGED <<node, objs, missing>>

enqueueAllNodes ==
    /\ DeliverConfigEvent(Existing)
    /\ UNCHANGED nodeVars
-----------------------------------------------------------------------------
(* Reconcile *)

\* Reconcile up to the read of the Node.
TakeNode(k) ==
    /\ PollStore(k) \/ StartReconcile(k)
    /\ UNCHANGED nodeVars

\* The Node is gone: deleteNodeByName, whatever the spec says.
SeeDeleted ==
    /\ w.pc = "get"
    /\ node[w.key] = Nil
    /\ Proceed("name")
    /\ job' = [NoJob EXCEPT !.kind = "Device"]
    /\ UNCHANGED <<node, objs, missing>>

\* deleteNodeByExternalID looks at one kind only.
KindOf(spec) ==
    IF spec.mapping = "VirtualMachine" THEN "VirtualMachine" ELSE "Device"

\* Mutant: the mapping is not looked at, as if all Nodes were Devices.
SeeDisabledDevice ==
    /\ w.pc = "get"
    /\ node[w.key] # Nil
    /\ ~w.spec.enabled
    /\ ~w.spec.retain
    /\ Proceed("find")
    /\ job' = [NoJob EXCEPT !.uid = node[w.key], !.kind = "Device"]
    /\ UNCHANGED <<node, objs, missing>>

SeeDisabled ==
    /\ w.pc = "get"
    /\ node[w.key] # Nil
    /\ ~w.spec.enabled
    /\ ~w.spec.retain
    /\ Proceed("find")
    /\ job' = [NoJob EXCEPT !.uid = node[w.key], !.kind = KindOf(w.spec)]
    /\ UNCHANGED <<node, objs, missing>>

SeePaused ==
    /\ w.pc = "get"
    /\ node[w.key] # Nil
    /\ ~w.spec.enabled
    /\ w.spec.retain
    /\ Succeed(TRUE)
    /\ job' = [NoJob EXCEPT !.uid = node[w.key], !.kind = KindOf(w.spec)]
    /\ UNCHANGED <<node, objs, missing>>

SeeEnabled ==
    /\ w.pc = "get"
    /\ node[w.key] # Nil
    /\ w.spec.enabled
    /\ Proceed("tag")
    /\ job' = [NoJob EXCEPT !.uid = node[w.key], !.kind = KindOf(w.spec)]
    /\ UNCHANGED <<node, objs, missing>>

\* EnsureManagedTag finds the tag; then the mapping is looked at.
EnsureManagedTag ==
    /\ w.pc = "tag"
    /\ IF w.spec.mapping = "" THEN Fail ELSE Proceed("find")
    /\ UNCHANGED nodeVars

\* What EnsureDevice and EnsureVirtualMachine look up: the Site always, the
\* Platform only when it is named.
Lookups(spec) ==
    IF spec.mapping = "Device" THEN {"type", "role", "site"}
    ELSE {"cluster"} \cup (IF spec.named THEN {"platform"} ELSE {})

\* A Site without a name is never found.
Found(spec, r) == r \notin missing /\ (r = "site" => spec.named)

\* Mutant: with sync off the object found is not deleted.
LeaveExisting(ids) ==
    /\ job' = [job EXCEPT !.ids = ids,
                          !.todo = IF w.spec.enabled THEN Lookups(w.spec) ELSE {}]
    /\ IF w.spec.enabled THEN Proceed("lookup") ELSE Succeed(TRUE)

\* What the worker does once it knows the object of the Node, if there is one.
HaveExisting(ids) ==
    /\ job' = [job EXCEPT !.ids = ids,
                          !.todo = IF w.spec.enabled THEN Lookups(w.spec) ELSE {}]
    /\ IF w.spec.enabled THEN Proceed("lookup")
       ELSE IF ids = {} THEN Succeed(TRUE) ELSE Proceed("delete")

\* Mutant: the external ID is compared with the name.
MatchesName(page) == {i \in page : objs[i].xid = w.key}

\* findDeviceByExternalID, findVirtualMachineByExternalID.
Matches(page) == {i \in page : objs[i].xid = job.uid}

FindByExternalID ==
    /\ w.pc = "find"
    /\ \E page \in Pages(Managed(job.kind, w.spec.slug)) :
          \/ \E i \in Matches(page) : HaveExisting({i})
          \/ Matches(page) = {} /\ HaveExisting({})
    /\ UNCHANGED <<node, objs, missing>>

\* LookupSiteID and the like: the next reference is there ...
Lookup(r) ==
    /\ w.pc = "lookup"
    /\ r \in job.todo
    /\ Found(w.spec, r)
    /\ job' = [job EXCEPT !.todo = @ \ {r}]
    /\ Proceed("lookup")
    /\ UNCHANGED <<node, objs, missing>>

\* ... or it is not.
LookupFails(r) ==
    /\ w.pc = "lookup"
    /\ r \in job.todo
    /\ ~Found(w.spec, r)
    /\ job' = [job EXCEPT !.todo = {}, !.ids = {}]
    /\ Fail
    /\ UNCHANGED <<node, objs, missing>>

LookupsDone ==
    /\ w.pc = "lookup"
    /\ job.todo = {}
    /\ Proceed(IF job.ids = {} THEN "create" ELSE "update")
    /\ UNCHANGED nodeVars

\* Mutant: the name is recorded as the external ID.
WrittenByName ==
    [kind |-> job.kind, tag |-> w.spec.slug, xid |-> w.key, name |-> w.key,
     place |-> w.spec.place]

\* EnsureDevice's and EnsureVirtualMachine's data.
Written ==
    [kind |-> job.kind, tag |-> w.spec.slug, xid |-> job.uid, name |-> w.key,
     place |-> w.spec.place]

\* The objects with a name, whatever their UID and tag; NetBox lets there be one
\* in each Site, or in each Cluster.
Bearing(kind, place, name) ==
    {i \in Ids : objs[i] # Nil /\ objs[i].kind = kind /\ objs[i].place = place /\ objs[i].name = name}

\* An object other than the one to be written has the Node's name.
NameTaken == Bearing(job.kind, w.spec.place, w.key) \ job.ids # {}

WriteNode(i) ==
    /\ \/ w.pc = "update" /\ i \in job.ids /\ objs[i] # Nil
       \/ w.pc = "create" /\ i \in FreshIds
    /\ ~NameTaken
    /\ objs' = [objs EXCEPT ![i] = Written]
    /\ job' = [job EXCEPT !.ids = {}]
    /\ Succeed(TRUE)
    /\ UNCHANGED <<node, missing>>

\* Mutant: only the Devices are looked at.
NoNextKind ==
    /\ job' = [job EXCEPT !.ids = {}]
    /\ Succeed(FALSE)

\* deleteNodeByName has dealt with Devices, or with VirtualMachines too.
NextKind ==
    IF job.kind = "Device"
    THEN /\ job' = [job EXCEPT !.kind = "VirtualMachine", !.ids = {}]
         /\ Proceed("name")
    ELSE /\ job' = [job EXCEPT !.ids = {}]
         /\ Succeed(FALSE)

\* Mutant: the filter on the name is forgotten.
AnyName(slug) == Managed(job.kind, slug)

\* DeleteDeviceByName, DeleteVirtualMachineByName: the first object listed.
Named(slug) == {i \in Managed(job.kind, slug) : objs[i].name = w.key}

FindByName ==
    /\ w.pc = "name"
    /\ \/ \E i \in Named(w.spec.slug) :
             /\ job' = [job EXCEPT !.ids = {i}]
             /\ Proceed("delete")
       \/ Named(w.spec.slug) = {} /\ NextKind
    /\ UNCHANGED <<node, objs, missing>>

\* deleteDevice, deleteVirtualMachine.
DeleteNode(i) ==
    /\ w.pc = "delete"
    /\ i \in job.ids
    /\ objs[i] # Nil
    /\ objs' = [objs EXCEPT ![i] = Nil]
    /\ IF job.uid = Nil THEN NextKind
       ELSE job' = [job EXCEPT !.ids = {}] /\ Succeed(TRUE)
    /\ UNCHANGED <<node, missing>>

\* The object to be written has been deleted meanwhile: NetBox answers 404.
ObjectGone ==
    /\ w.pc \in {"update", "delete"}
    /\ \E i \in job.ids : objs[i] = Nil
    /\ job' = [job EXCEPT !.ids = {}]
    /\ Fail
    /\ UNCHANGED <<node, objs, missing>>

\* NetBox refuses the write, on this attempt and on every later one while the
\* other object has the name.
NameRefused ==
    /\ w.pc \in {"update", "create"}
    /\ NameTaken
    /\ job' = [job EXCEPT !.ids = {}]
    /\ Fail
    /\ UNCHANGED <<node, objs, missing>>

\* A call fails; a write may have been carried out all the same.
Outcomes ==
    {objs} \cup
    CASE w.pc \in {"update", "create"} /\ NameTaken -> {}
      [] w.pc = "update" -> {[objs EXCEPT ![i] = Written] : i \in {j \in job.ids : objs[j] # Nil}}
      [] w.pc = "create" -> {[objs EXCEPT ![i] = Written] : i \in FreshIds}
      [] w.pc = "delete" -> {[objs EXCEPT ![i] = Nil] : i \in job.ids}
      [] OTHER -> {}

\* Mutant: the error of a call is dropped.
CallFailsUnnoticed ==
    /\ May("fault")
    /\ \/ w.pc \in {"name", "tag", "find", "update", "create", "delete"}
       \/ w.pc = "lookup" /\ job.todo # {}
    /\ objs' \in Outcomes
    /\ job' = [job EXCEPT !.todo = {}, !.ids = {}]
    /\ Succeed(TRUE)
    /\ UNCHANGED <<node, missing>>

CallFails ==
    /\ May("fault")
    /\ \/ w.pc \in {"name", "tag", "find", "update", "create", "delete"}
       \/ w.pc = "lookup" /\ job.todo # {}
    /\ objs' \in Outcomes
    /\ job' = [job EXCEPT !.todo = {}, !.ids = {}]
    /\ Fail
    /\ UNCHANGED <<node, missing>>

\* syncNodesStatus and the return of Reconcile.
syncNodesStatus ==
    /\ ReportStep
    /\ job' = IF w'.pc = "idle" THEN NoJob ELSE job
    /\ UNCHANGED <<node, objs, missing>>

KubeFails ==
    /\ GetFails \/ ReportFault
    /\ job' = NoJob
    /\ UNCHANGED <<node, objs, missing>>
-----------------------------------------------------------------------------
WorkerStep ==
    \/ SeeDeleted \/ SeeDisabled \/ SeePaused \/ SeeEnabled
    \/ EnsureManagedTag \/ FindByExternalID \/ FindByName
    \/ \E r \in References : Lookup(r) \/ LookupFails(r)
    \/ LookupsDone
    \/ \E i \in Ids : WriteNode(i) \/ DeleteNode(i)
    \/ ObjectGone \/ NameRefused
    \/ syncNodesStatus

Environment ==
    \/ StoreStep /\ UNCHANGED nodeVars
    \/ \E spec \in Specs \cup {Nil} : EditConfig(spec) /\ UNCHANGED nodeVars
    \/ enqueueAllNodes
    \/ LoseConfigEvent /\ UNCHANGED nodeVars
    \/ OtherStatusWrite /\ UNCHANGED nodeVars
    \/ \E k \in Keys : TimerFires(k) /\ UNCHANGED nodeVars
    \/ \E k \in Keys : Heartbeat(k) \/ NodeLeaves(k)
    \/ \E k \in Keys, u \in Uids : NodeJoins(k, u)
    \/ \E i \in Ids : Drift(i)
    \/ \E r \in Fragile : ChangeReference(r)
    \/ NodesRestart

Next ==
    \/ \E k \in Keys : TakeNode(k)
    \/ WorkerStep
    \/ CallFails \/ KubeFails
    \/ Environment

\* As for Services; heartbeats keep coming.
Fairness ==
    /\ WF_vars(WorkerStep)
    /\ \A k \in Keys : SF_vars(TakeNode(k))
    /\ \A k \in Keys : WF_vars(TimerFires(k) /\ UNCHANGED nodeVars)
    /\ \A k \in Keys : WF_vars(Heartbeat(k))
    /\ WF_vars(enqueueAllNodes)
    /\ WF_vars(ReadConfig /\ (cr # Nil \/ store # Nil) /\ UNCHANGED <<shellVars, nodeVars>>)
    /\ WF_vars((Publish \/ Clear) /\ UNCHANGED <<shellVars, nodeVars>>)

SafetySpec == Init /\ [][Next]_vars

Spec == SafetySpec /\ Fairness

-----------------------------------------------------------------------------
(* Safety *)

(***************************************************************************)
(* NetBox never holds two objects of one kind for the same UID, although   *)
(* EnsureDevice looks and creates in separate calls, with lookups of other *)
(* objects in between, and answers may be lost.                            *)
(***************************************************************************)
OneObjectPerNode ==
    \A i, j \in Ids :
        /\ objs[i] # Nil
        /\ objs[j] # Nil
        /\ objs[i].kind = objs[j].kind
        /\ objs[i].tag = objs[j].tag
        /\ objs[i].xid = objs[j].xid
        => i = j

(***************************************************************************)
(* While node sync is on, the object of a Node that exists is never        *)
(* deleted, although the objects of Nodes that left are found by a name    *)
(* that may have been given to a new Node since (deleteNodeByName).  For   *)
(* environments in which nobody else deletes managed objects.              *)
(***************************************************************************)
LiveNodeKept ==
    [][(w.spec # Nil /\ w.spec.enabled) =>
        \A i \in Ids, k \in Existing :
            objs[i] # Nil /\ objs[i].xid = node[k] => objs'[i] # Nil]_vars

\* NetBox holds exactly one object of this kind for the UID, under this name.
Recorded(kind, slug, uid, name) ==
    {[xid |-> objs[i].xid, name |-> objs[i].name] :
        i \in {j \in Managed(kind, slug) : objs[j].xid = uid}} = {[xid |-> uid, name |-> name]}

Absent(kind, slug, uid) == \A i \in Managed(kind, slug) : objs[i].xid # uid

(***************************************************************************)
(* When a reconcile of a Node it found is about to report success, NetBox  *)
(* holds the Node's object of the mapping the reconcile worked with, or,   *)
(* with sync off, holds none of that kind, whatever failed attempts before *)
(* it left behind (Reconcile, syncNodesStatus).  For environments in which *)
(* nobody else deletes managed objects.                                    *)
(***************************************************************************)
NodeReportIsReal ==
    (w.pc \in {"status", "write"} /\ ~w.err /\ job.uid # Nil) =>
        CASE w.spec.enabled -> Recorded(job.kind, w.spec.slug, job.uid, w.key)
          [] ~w.spec.enabled /\ ~w.spec.retain -> Absent(job.kind, w.spec.slug, job.uid)
          [] OTHER -> TRUE
-----------------------------------------------------------------------------
(* Liveness *)

\* An object of a Node that is gone still has the name k there.
LeftBehind(kind, place, k) ==
    \E i \in Bearing(kind, place, k) : \A l \in Existing : objs[i].xid # node[l]

\* NetBox is as the spec wants it for the Node k that exists.
InSync(spec, k) ==
    CASE spec.enabled /\ spec.mapping # "" /\ (\A r \in Lookups(spec) : Found(spec, r))
              -> \/ Recorded(KindOf(spec), spec.slug, node[k], k)
                 \/ LeftBehind(KindOf(spec), spec.place, k)
      [] ~spec.enabled /\ ~spec.retain -> Absent(KindOf(spec), spec.slug, node[k])
      [] OTHER -> TRUE

(***************************************************************************)
(* Once no disturbance happens any more, every Node that exists comes to   *)
(* be recorded as the spec says if its references can be found, although   *)
(* calls failed, answers were lost, references came and went and the       *)
(* process was replaced: the heartbeat gets the Node another reconcile     *)
(* when a failed one asked for none (Reconcile, SetupWithManager).  The    *)
(* one thing that keeps a Node out for good is an object that an earlier   *)
(* Node of its name left behind: NetBox then refuses the create.           *)
(***************************************************************************)
ExistingNodesConverge == <>quiet => <>[](cr # Nil => \A k \in Existing : InSync(cr, k))

(***************************************************************************)
(* Once no disturbance happens any more, every managed object is one of a  *)
(* Node that exists: what the Nodes that left had is gone (Reconcile,      *)
(* "this always happens, independent of retainOnDisable").                 *)
(***************************************************************************)
DepartedNodesGone ==
    <>quiet => <>[](cr # Nil => \A i \in Ids :
                        objs[i] # Nil => \E k \in Keys : node[k] = objs[i].xid)

(***************************************************************************)
(* Once no disturbance happens any more and sync is off without            *)
(* retainOnDisable, NetBox holds no managed object of the Nodes, although  *)
(* the edit met reconciles that still wrote with the older spec and its    *)
(* event may have been lost (deleteNodeByExternalID; architecture.md,      *)
(* "Disable behavior").  For configurations that keep to one mapping: the  *)
(* objects of the other kind are not looked at.                            *)
(***************************************************************************)
DisabledMeansGone ==
    <>quiet => <>[]((cr # Nil /\ ~cr.enabled /\ ~cr.retain) => \A i \in Ids : objs[i] = Nil)

=============================================================================
