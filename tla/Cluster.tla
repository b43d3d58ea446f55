------------------------------ MODULE Cluster ------------------------------
(***************************************************************************)
(* ClusterReconciler (internal/controller/cluster_controller.go) and the   *)
(* NetBox calls it makes (internal/netbox/cluster.go, refs.go): the        *)
(* Kubernetes cluster itself is kept as one Cluster in NetBox.             *)
(*                                                                         *)
(* It differs from the other resource controllers: its key is the name of  *)
(* the HeraldConfig, the HeraldConfig whose status it updates is read      *)
(* before the work and not after it, and the cause of a failure is         *)
(* returned, so that the key is tried again.  A request for a HeraldConfig *)
(* of another name returns before it reads anything; there are none here.  *)
(*                                                                         *)
(* Two clusters may share a NetBox, and a tag; each knows its object by    *)
(* the UID of its kube-system Namespace.                                   *)
(***************************************************************************)
EXTENDS ResourceController, NetBoxApi

CONSTANTS
    Singleton,  \* the name of the HeraldConfig that counts
    Uid,        \* the UID of this cluster's kube-system Namespace
    OtherUid,   \* that of another cluster, which shares the NetBox
    Foreign,    \* the Clusters it has in NetBox, by ID
    Names,      \* names of Clusters
    Slugs,      \* slugs of managed tags
    Fragile     \* the references that may be missing in NetBox

\* The objects of NetBox a Cluster refers to; Herald never creates them.
References == {"type", "group", "site"}

\* spec.resources.cluster: named are the optional references it names.
ClusterConfig ==
    [enabled : BOOLEAN, name : Names, named : SUBSET {"group", "site"}, slug : Slugs]

\* A Cluster that carries a managed tag.  refs are the references its last write
\* gave; what becomes of one that an update leaves out is up to NetBox.
ClusterObject ==
    [tag : Slugs, xid : {Uid, OtherUid}, name : Names, refs : SUBSET References]

ASSUME ClusterAssumption ==
    /\ Keys = {Singleton}
    /\ Uid # OtherUid
    /\ DOMAIN Foreign \subseteq Ids
    /\ \A i \in DOMAIN Foreign : Foreign[i] \in ClusterObject /\ Foreign[i].xid = OtherUid
    /\ Specs \subseteq ClusterConfig
    /\ Fragile \subseteq References
    /\ Nil \notin ClusterObject

VARIABLES
    objs,     \* NetBox: the managed Cluster with each ID; Nil: there is none
    missing,  \* NetBox: the references that cannot be found
    job       \* what the worker keeps of its work, see NoJob

clusterVars == <<objs, missing, job>>
vars == <<storeVars, shellVars, clusterVars>>

\* todo: the references still to be looked up; ids: the Cluster to be written.
NoJob == [todo |-> {}, ids |-> {}]

\* Every variable has its type, whatever Reconcile does.
ClusterTypeOK ==
    /\ StoreTypeOK
    /\ ShellTypeOK({"tag", "find", "lookup", "update", "create", "delete", "report"})
    /\ objs \in [Ids -> ClusterObject \cup {Nil}]
    /\ missing \in SUBSET References
    /\ job \in [todo : SUBSET References, ids : SUBSET Ids]

Existing == IF cr = Nil THEN {} ELSE {Singleton}

\* At first NetBox holds only what the other cluster has.
Init ==
    /\ StoreInit
    /\ ShellInit(Existing)
    /\ objs = [i \in Ids |-> IF i \in DOMAIN Foreign THEN Foreign[i] ELSE Nil]
    /\ missing \in SUBSET Fragile
    /\ job = NoJob
-----------------------------------------------------------------------------
(* NetBox (external) *)

\* The Clusters that a list with this tag selects.
Managed(slug) == {i \in Ids : objs[i] # Nil /\ objs[i].tag = slug}

\* The ID NetBox gives to a new object, if there is one left.  Nothing depends on
\* which it is; see Services.
FreshIds ==
    LET free == {i \in Ids : objs[i] = Nil} \ job.ids
    IN  {i \in free : i = CHOOSE j \in free : TRUE}

\* Somebody deletes this cluster's object.
Drift(i) ==
    /\ May("drift")
    /\ objs[i] # Nil
    /\ objs[i].xid = Uid
    /\ objs' = [objs EXCEPT ![i] = Nil]
    /\ UNCHANGED <<storeVars, shellVars, missing, job>>

\* Somebody creates, renames or deletes a Cluster Type, a Cluster Group or a Site.
ChangeReference(r) ==
    /\ ~quiet
    /\ missing' \in {missing \cup {r}, missing \ {r}}
    /\ UNCHANGED <<storeVars, shellVars, objs, job>>
-----------------------------------------------------------------------------
(* Events *)

\* The watch on HeraldConfigs: created, edited or deleted, it is queued.
QueueConfig ==
    /\ DeliverConfigEvent({Singleton})
    /\ UNCHANGED clusterVars

ClusterRestart ==
    /\ ShellRestart(Existing)
    /\ job' = NoJob
    /\ UNCHANGED <<objs, missing>>
-----------------------------------------------------------------------------
(* Reconcile *)

\* Reconcile up to the read of the HeraldConfig.
TakeConfig ==
    /\ PollStore(Singleton) \/ StartReconcile(Singleton)
    /\ UNCHANGED clusterVars

\* The HeraldConfig is gone: nothing is done, and nothing is scheduled.
SeeDeleted ==
    /\ w.pc = "get"
    /\ cr = Nil
    /\ ReturnResult
    /\ UNCHANGED <<storeVars, cfgEvent, status, clusterVars>>

\* The HeraldConfig and the kube-system Namespace are read: it is this version
\* of the HeraldConfig whose status is updated at the end.
SeeConfig ==
    /\ w.pc = "get"
    /\ cr # Nil
    /\ w' = [w EXCEPT !.pc = IF w.spec.enabled THEN "tag" ELSE "find", !.fresh = TRUE]
    /\ UNCHANGED <<storeVars, q, cfgEvent, status, clusterVars>>

\* EnsureManagedTag finds the tag.
EnsureManagedTag ==
    /\ w.pc = "tag"
    /\ Proceed("find")
    /\ UNCHANGED clusterVars

\* The work is done; updateStatus and RequeueAfter are to follow.
Finish ==
    /\ w' = [w EXCEPT !.pc = "write", !.timer = TRUE]
    /\ UNCHANGED <<storeVars, q, cfgEvent, status>>

\* The work failed; reportSyncError is to follow.
FailWith ==
    /\ w' = [w EXCEPT !.pc = "report", !.err = TRUE]
    /\ job' = NoJob
    /\ UNCHANGED <<storeVars, q, cfgEvent, status>>

\* The Cluster Type always, the Cluster Group and the Site if they are named.
Lookups(spec) == {"type"} \cup spec.named

\* Mutant: a Cluster that exists is not written again.
HaveExistingUnchanged(ids) ==
    /\ job' = [todo |-> IF w.spec.enabled THEN Lookups(w.spec) ELSE {}, ids |-> ids]
    /\ IF ids # {} /\ w.spec.enabled THEN Finish
       ELSE IF w.spec.enabled THEN Proceed("lookup")
       ELSE IF ids = {} THEN Finish ELSE Proceed("delete")

\* What the worker does once it knows the Cluster, if there is one:
\* EnsureCluster looks up references first, DeleteCluster may have nothing to do.
HaveExisting(ids) ==
    /\ job' = [todo |-> IF w.spec.enabled THEN Lookups(w.spec) ELSE {}, ids |-> ids]
    /\ IF w.spec.enabled THEN Proceed("lookup")
       ELSE IF ids = {} THEN Finish ELSE Proceed("delete")

\* Mutant: the Cluster is found by its name.
MatchesName(page) == {i \in page : objs[i].name = w.spec.name}

\* findClusterByExternalID, readExternalID.
Matches(page) == {i \in page : objs[i].xid = Uid}

FindCluster ==
    /\ w.pc = "find"
    /\ \E page \in Pages(Managed(w.spec.slug)) :
          \/ \E i \in Matches(page) : HaveExisting({i})
          \/ Matches(page) = {} /\ HaveExisting({})
    /\ UNCHANGED <<objs, missing>>

\* LookupClusterTypeID, LookupClusterGroupID, LookupSiteID: it is there ...
Lookup(r) ==
    /\ w.pc = "lookup"
    /\ r \in job.todo \ missing
    /\ job' = [job EXCEPT !.todo = @ \ {r}]
    /\ Proceed("lookup")
    /\ UNCHANGED <<objs, missing>>

\* ... or it is not.
LookupFails(r) ==
    /\ w.pc = "lookup"
    /\ r \in job.todo \cap missing
    /\ FailWith
    /\ UNCHANGED <<objs, missing>>

\* Mutant: what was found before the lookups is forgotten.
LookupsDoneForgetful ==
    /\ w.pc = "lookup"
    /\ job.todo = {}
    /\ Proceed("create")
    /\ UNCHANGED clusterVars

LookupsDone ==
    /\ w.pc = "lookup"
    /\ job.todo = {}
    /\ Proceed(IF job.ids = {} THEN "create" ELSE "update")
    /\ UNCHANGED clusterVars

\* Mutant: the tag is left out.
WrittenUntagged == [tag |-> Nil, xid |-> Uid, name |-> w.spec.name, refs |-> Lookups(w.spec)]

\* EnsureCluster's data.
Written ==
    [tag |-> w.spec.slug, xid |-> Uid, name |-> w.spec.name, refs |-> Lookups(w.spec)]

EnsureCluster(i) ==
    /\ \/ w.pc = "update" /\ i \in job.ids /\ objs[i] # Nil
       \/ w.pc = "create" /\ i \in FreshIds
    /\ objs' = [objs EXCEPT ![i] = Written]
    /\ job' = NoJob
    /\ Finish
    /\ UNCHANGED missing

DeleteCluster(i) ==
    /\ w.pc = "delete"
    /\ i \in job.ids
    /\ objs[i] # Nil
    /\ objs' = [objs EXCEPT ![i] = Nil]
    /\ job' = NoJob
    /\ Finish
    /\ UNCHANGED missing
-----------------------------------------------------------------------------
(* Failures and the end of a reconcile *)

\* The Cluster to be written has been deleted meanwhile.
ObjectGone ==
    /\ w.pc \in {"update", "delete"}
    /\ \E i \in job.ids : objs[i] = Nil
    /\ FailWith
    /\ UNCHANGED <<objs, missing>>

\* A call fails; a write may have been carried out all the same.
Outcomes ==
    {objs} \cup
    CASE w.pc = "update" -> {[objs EXCEPT ![i] = Written] : i \in {j \in job.ids : objs[j] # Nil}}
      [] w.pc = "create" -> {[objs EXCEPT ![i] = Written] : i \in FreshIds}
      [] w.pc = "delete" -> {[objs EXCEPT ![i] = Nil] : i \in job.ids}
      [] OTHER -> {}

CallFails ==
    /\ May("fault")
    /\ \/ w.pc \in {"tag", "find", "update", "create", "delete"}
       \/ w.pc = "lookup" /\ job.todo # {}
    /\ objs' \in Outcomes
    /\ FailWith
    /\ UNCHANGED missing

\* updateStatus of the version read before the work: it succeeds, or conflicts
\* with a newer one.
updateStatus ==
    /\ WriteStatus \/ StatusConflict
    /\ UNCHANGED clusterVars

\* The status as read, with the failure and the generation; if it is no longer
\* the latest version, the update conflicts.
FailureReport ==
    IF w.fresh THEN [status EXCEPT !.err = TRUE, !.current = TRUE] ELSE status

\* Mutant: the cause is reported and then forgotten.
SwallowSyncError ==
    /\ w.pc = "report"
    /\ status' = FailureReport
    /\ ReturnResult
    /\ UNCHANGED <<storeVars, cfgEvent, clusterVars>>

\* The cause is returned whether or not the status update succeeds.
reportSyncError ==
    /\ w.pc = "report"
    /\ status' = FailureReport
    /\ ReturnError
    /\ UNCHANGED <<storeVars, cfgEvent, clusterVars>>

\* A call to the Kubernetes API fails; a status update may have been carried out.
KubeFails ==
    /\ \/ GetFails
       \/ WriteStatusFails
       \/ /\ May("kube")
          /\ w.pc = "report"
          /\ status' \in {status, FailureReport}
          /\ ReturnError
          /\ UNCHANGED <<storeVars, cfgEvent>>
    /\ UNCHANGED clusterVars
-----------------------------------------------------------------------------
WorkerStep ==
    \/ SeeDeleted \/ SeeConfig
    \/ EnsureManagedTag \/ FindCluster
    \/ \E r \in References : Lookup(r) \/ LookupFails(r)
    \/ LookupsDone
    \/ \E i \in Ids : EnsureCluster(i) \/ DeleteCluster(i)
    \/ ObjectGone
    \/ updateStatus \/ reportSyncError

Environment ==
    \/ StoreStep /\ UNCHANGED clusterVars
    \/ \E spec \in Specs \cup {Nil} : EditConfig(spec) /\ UNCHANGED clusterVars
    \/ QueueConfig
    \/ ~quiet /\ OtherStatusWrite /\ UNCHANGED clusterVars
    \/ TimerFires(Singleton) /\ UNCHANGED clusterVars
    \/ \E i \in Ids : Drift(i)
    \/ \E r \in Fragile : ChangeReference(r)
    \/ ClusterRestart

Next ==
    \/ TakeConfig
    \/ WorkerStep
    \/ CallFails \/ KubeFails
    \/ Environment

\* As for Services, without the informers' resync: no failure needs it here.
Fairness ==
    /\ WF_vars(WorkerStep)
    /\ SF_vars(TakeConfig)
    /\ WF_vars(TimerFires(Singleton) /\ UNCHANGED clusterVars)
    /\ WF_vars(QueueConfig)
    /\ WF_vars(ReadConfig /\ (cr # Nil \/ store # Nil) /\ UNCHANGED <<shellVars, clusterVars>>)
    /\ WF_vars((Publish \/ Clear) /\ UNCHANGED <<shellVars, clusterVars>>)

Spec == Init /\ [][Next]_vars /\ Fairness
-----------------------------------------------------------------------------
(* Safety *)

(***************************************************************************)
(* NetBox never holds two Clusters with this cluster's external ID and one *)
(* tag, although the Cluster is renamed, the search and the create are     *)
(* separate calls with up to three lookups in between, and answers are     *)
(* lost (EnsureCluster: "updates the existing object instead of creating a *)
(* duplicate").                                                            *)
(***************************************************************************)
OneClusterPerUid ==
    \A i, j \in Ids :
        /\ objs[i] # Nil /\ objs[i].xid = Uid
        /\ objs[j] # Nil /\ objs[j].xid = Uid
        /\ objs[i].tag = objs[j].tag
        => i = j

(***************************************************************************)
(* What other clusters that share the NetBox and the tag have there stays  *)
(* as it is, even if it has the name this cluster is to have               *)
(* (findClusterByExternalID).                                              *)
(***************************************************************************)
OtherClustersUntouched ==
    [][\A i \in Ids : objs[i] # Nil /\ objs[i].xid # Uid => objs'[i] = objs[i]]_vars

Own == {objs[i] : i \in {j \in Ids : objs[j] # Nil /\ objs[j].xid = Uid}}

\* The Cluster as a write for this spec leaves it.
Wanted(spec) ==
    IF spec.enabled
    THEN {[tag |-> spec.slug, xid |-> Uid, name |-> spec.name, refs |-> Lookups(spec)]}
    ELSE {}

(***************************************************************************)
(* When success is about to be reported, NetBox holds the Cluster as the   *)
(* spec the reconcile worked with wants it or, if somebody has just        *)
(* deleted it, none: never an outdated one, whatever attempts before it    *)
(* left (Reconcile, updateStatus).                                         *)
(***************************************************************************)
ClusterReportIsReal == (w.pc = "write" /\ ~w.err) => Own \subseteq Wanted(w.spec)
-----------------------------------------------------------------------------
(* Liveness *)

(***************************************************************************)
(* Once no disturbance happens any more, NetBox comes to hold the Cluster  *)
(* as the HeraldConfig says and nothing else of this cluster, provided its *)
(* references can be found, and the status comes to say so, or else to     *)
(* report the failure: although calls failed, status updates conflicted,   *)
(* the Store was empty when the event came and the process was replaced.   *)
(* No resync of the informers is needed, since the cause of a failure is   *)
(* returned (Reconcile, reportSyncError).                                  *)
(***************************************************************************)
ClusterConverges ==
    <>quiet => <>[](cr # Nil =>
        IF cr.enabled /\ Lookups(cr) \cap missing # {}
        THEN status.current /\ status.err
        ELSE /\ Own = Wanted(cr)
             /\ status = [enabled |-> cr.enabled, current |-> TRUE, err |-> FALSE])

=============================================================================
