------------------------------ MODULE PodCIDRs ------------------------------
(***************************************************************************)
(* PodCIDRReconciler (internal/controller/podcidr_controller.go) and the   *)
(* NetBox calls it makes (internal/netbox/podcidr.go): the pod CIDRs of    *)
(* the Nodes are kept either as one Prefix each or as one Aggregate per    *)
(* address family that encloses them all.  The keys are Nodes in both      *)
(* representations; with Aggregates, a reconcile of any Node does the      *)
(* whole work.                                                             *)
(*                                                                         *)
(* The external ID of a Prefix, <node>/<cidr>, is a pair; that of an       *)
(* Aggregate is its family.                                                *)
(***************************************************************************)
EXTENDS ResourceController, NetBoxApi, Supernets

CONSTANTS
    Cidrs,     \* the pod CIDRs that may be assigned to Nodes
    Slugs      \* slugs of managed tags

PodCIDRsConfig ==
    [enabled : BOOLEAN, retain : BOOLEAN,
     representation : {"Prefix", "Aggregate"}, slug : Slugs]

\* Prefixes and Aggregates that carry a managed tag.
PodCIDRObject ==
    [kind : {"Prefix"}, tag : Slugs, xid : Keys \X Cidrs, cidr : Cidrs]
        \cup [kind : {"Aggregate"}, tag : Slugs, xid : Families, cidr : AllBlocks]

ASSUME PodCIDRsAssumption ==
    /\ Specs \subseteq PodCIDRsConfig
    /\ Cidrs \subseteq AllBlocks
    /\ Nil \notin Cidrs \cup Families \cup PodCIDRObject
    /\ \A S \in SUBSET Cidrs : Nil # S
    /\ Families \cap (Keys \X Cidrs) = {}    \* external IDs tell the kind

VARIABLES
    node,   \* the pod CIDRs of the Nodes in the informer cache; Nil: no such Node
    objs,   \* NetBox: the managed object with each ID; Nil: there is none
    rir,    \* NetBox: the RIR the spec names exists
    job     \* what the worker keeps of its work, see NoJob

podVars == <<node, objs, rir, job>>
vars == <<storeVars, shellVars, podVars>>

\* found: the pod CIDRs of the Node, or of all Nodes, as read; names: the Nodes
\* whose Prefixes are still to be looked at; todo: the CIDRs or families still
\* to be dealt with; at: the one at work; ids: the objects to be written.
NoJob == [found |-> Nil, names |-> {}, todo |-> {}, at |-> Nil, ids |-> {}]

\* Every variable has its type, whatever Reconcile does.
PodCIDRsTypeOK ==
    /\ StoreTypeOK
    /\ ShellTypeOK({"stale", "drop", "node", "nodes", "list", "prune", "tag",
                    "ensure", "rir", "update", "create"})
    /\ node \in [Keys -> {Nil} \cup SUBSET Cidrs]
    /\ objs \in [Ids -> PodCIDRObject \cup {Nil}]
    /\ rir \in BOOLEAN
    /\ job \in [found : {Nil} \cup SUBSET Cidrs, names : SUBSET Keys,
                todo : SUBSET (Cidrs \cup Families),
                at : Cidrs \cup Families \cup {Nil}, ids : SUBSET Ids]

Existing == {k \in Keys : node[k] # Nil}

\* The pod CIDRs of all Nodes.
Assigned == UNION {node[k] : k \in Existing}

Overlap(c, d) == c.family = d.family /\ (Encloses(c, d) \/ Encloses(d, c))

Apart(S, T) == \A c \in S, d \in T : ~Overlap(c, d)

\* What the cluster may assign to a Node: at most one CIDR of each family.
Assignable == {S \in SUBSET Cidrs : \A f \in Families : Cardinality(Of(f, S)) <= 1}

Init ==
    /\ StoreInit
    /\ node \in [Keys -> Assignable \cup {Nil}]
    /\ \A k, l \in Existing : k # l => Apart(node[k], node[l])
    /\ ShellInit(Existing)
    /\ objs = [i \in Ids |-> Nil]
    /\ rir = TRUE
    /\ job = NoJob
-----------------------------------------------------------------------------
(* NetBox (external) *)

\* The objects of a kind that a list with this tag selects.
Managed(kind, slug) ==
    {i \in Ids : objs[i] # Nil /\ objs[i].kind = kind /\ objs[i].tag = slug}

\* IDs NetBox may give to a new object, see Services.
FreshIds == {i \in Ids : objs[i] = Nil} \ job.ids

\* Somebody deletes a managed object, one the worker is about to write only if
\* "race" is given.
Drift(i) ==
    /\ May("drift")
    /\ objs[i] # Nil
    /\ i \notin job.ids \/ "race" \in Disturb
    /\ objs' = [objs EXCEPT ![i] = Nil]
    /\ UNCHANGED <<storeVars, shellVars, node, rir, job>>

\* Somebody creates, renames or deletes the RIR.
ChangeRIR ==
    /\ May("rir")
    /\ rir' = ~rir
    /\ UNCHANGED <<storeVars, shellVars, node, objs, job>>
-----------------------------------------------------------------------------
(* Events *)

\* A Node joins the cluster, with its pod CIDRs or before it has any; pod
\* CIDRs are assigned once.
NodeJoins(k, cidrs) ==
    /\ May("node")
    /\ node[k] \in {Nil, {}}
    /\ cidrs # node[k]
    /\ Apart(cidrs, Assigned)
    /\ node' = [node EXCEPT ![k] = cidrs]
    /\ q' = Add(q, {k})
    /\ UNCHANGED <<storeVars, cfgEvent, w, status, objs, rir, job>>

NodeLeaves(k) ==
    /\ May("node")
    /\ node[k] # Nil
    /\ node' = [node EXCEPT ![k] = Nil]
    /\ q' = Add(q, {k})
    /\ UNCHANGED <<storeVars, cfgEvent, w, status, objs, rir, job>>

\* The kubelet's heartbeat updates the Node.
Heartbeat(k) ==
    /\ CacheResync(k, Existing)
    /\ UNCHANGED podVars

PodCIDRsRestart ==
    /\ ShellRestart(Existing)
    /\ job' = NoJob
    /\ UNCHANGED <<node, objs, rir>>

enqueueAllNodes ==
    /\ DeliverConfigEvent(Existing)
    /\ UNCHANGED podVars
-----------------------------------------------------------------------------
(* Reconcile *)

\* Reconcile up to the choice of the representation.
TakeNode(k) ==
    /\ PollStore(k) \/ StartReconcile(k)
    /\ UNCHANGED podVars

Prefixes(spec) == spec.representation = "Prefix"
Paused(spec) == ~spec.enabled /\ spec.retain

\* Mutant: what the other representation left is not looked at.
KeepStaleAggregates ==
    /\ w.pc = "get"
    /\ Prefixes(w.spec)
    /\ Proceed("stale")
    /\ job' = NoJob
    /\ UNCHANGED <<node, objs, rir>>

\* reconcilePrefixForNode: Aggregates of the other representation go first,
\* whatever else the spec says.
reconcilePrefixForNode ==
    /\ w.pc = "get"
    /\ Prefixes(w.spec)
    /\ Proceed("stale")
    /\ job' = [NoJob EXCEPT !.todo = Families]
    /\ UNCHANGED <<node, objs, rir>>

\* reconcileAggregates: sync is on, off, or off and what there is is kept.
reconcileAggregates ==
    /\ w.pc = "get"
    /\ ~Prefixes(w.spec)
    /\ IF Paused(w.spec) THEN Succeed(TRUE)
       ELSE Proceed(IF w.spec.enabled THEN "nodes" ELSE "stale")
    /\ job' = [NoJob EXCEPT !.todo = IF Paused(w.spec) THEN {} ELSE Families]
    /\ UNCHANGED <<node, objs, rir>>

\* podCIDRAddressFamilies fixes the order.
NextFamily == CHOOSE f \in job.todo : TRUE

\* Mutant: the block is compared with the external ID.
AggregateByBlock(page) == {i \in page : objs[i].cidr = NextFamily}

\* findAggregateByExternalID.
Aggregate(page) == {i \in page : objs[i].xid = NextFamily}

\* The reconcile works on the Aggregates themselves.
Aggregating == ~Prefixes(w.spec) /\ w.spec.enabled

\* The family has no pod CIDR, or no Aggregates are wanted: if there is one it
\* is to be deleted (DeletePodCIDRAggregate).
FindStaleAggregate ==
    /\ job.todo # {}
    /\ \/ w.pc = "stale"
       \/ /\ w.pc = "ensure"
          /\ Aggregating
          /\ Of(NextFamily, job.found) = {}
    /\ \E page \in Pages(Managed("Aggregate", w.spec.slug)) :
          \/ \E i \in Aggregate(page) :
                /\ job' = [job EXCEPT !.at = NextFamily, !.ids = {i}]
                /\ Proceed("drop")
          \/ /\ Aggregate(page) = {}
             /\ job' = [job EXCEPT !.todo = @ \ {NextFamily}]
             /\ Proceed(w.pc)
    /\ UNCHANGED <<node, objs, rir>>

\* What is at work is dealt with.
Done == job' = [job EXCEPT !.todo = @ \ {job.at}, !.at = Nil, !.ids = {}]

DropAggregate(i) ==
    /\ w.pc = "drop"
    /\ i \in job.ids
    /\ objs[i] # Nil
    /\ objs' = [objs EXCEPT ![i] = Nil]
    /\ Done
    /\ Proceed(IF Aggregating THEN "ensure" ELSE "stale")
    /\ UNCHANGED <<node, rir>>

\* Mutant: the reconcile returns once the Aggregates are gone.
StaleThenReturn ==
    /\ w.pc = "stale"
    /\ job.todo = {}
    /\ Succeed(TRUE)
    /\ UNCHANGED podVars

StaleDone ==
    /\ w.pc = "stale"
    /\ job.todo = {}
    /\ IF Prefixes(w.spec) THEN Proceed("node") ELSE Succeed(TRUE)
    /\ UNCHANGED podVars
-----------------------------------------------------------------------------
(* One Prefix per Node and CIDR *)

Qualifies(spec, cidrs) == spec.enabled /\ cidrs # {}

\* Mutant: retainOnDisable is not looked at.
SeeUnsyncedAlways ==
    /\ w.pc = "node"
    /\ node[w.key] # Nil => ~Qualifies(w.spec, node[w.key])
    /\ Proceed("list")
    /\ job' = [NoJob EXCEPT !.found = node[w.key], !.names = {w.key}]
    /\ UNCHANGED <<node, objs, rir>>

\* The Node is gone, or not to be synced: DeleteNodePodCIDRPrefixes.
SeeUnsynced ==
    /\ w.pc = "node"
    /\ node[w.key] # Nil =>
          /\ ~Qualifies(w.spec, node[w.key])
          /\ w.spec.enabled \/ ~w.spec.retain
    /\ Proceed("list")
    /\ job' = [NoJob EXCEPT !.found = node[w.key], !.names = {w.key}]
    /\ UNCHANGED <<node, objs, rir>>

SeePaused ==
    /\ w.pc = "node"
    /\ node[w.key] # Nil
    /\ Paused(w.spec)
    /\ Succeed(TRUE)
    /\ job' = [NoJob EXCEPT !.found = node[w.key]]
    /\ UNCHANGED <<node, objs, rir>>

\* syncNodePrefixes begins.
SeeAssigned ==
    /\ w.pc = "node"
    /\ node[w.key] # Nil
    /\ Qualifies(w.spec, node[w.key])
    /\ Proceed("tag")
    /\ job' = [NoJob EXCEPT !.found = node[w.key], !.todo = node[w.key], !.names = {w.key}]
    /\ UNCHANGED <<node, objs, rir>>

\* EnsureManagedTag finds the tag.
EnsureManagedTag ==
    /\ w.pc = "tag"
    /\ Proceed("ensure")
    /\ UNCHANGED podVars

\* findPrefixByExternalID for the next CIDR.
FindPrefix(c) ==
    /\ w.pc = "ensure"
    /\ Prefixes(w.spec)
    /\ c \in job.todo
    /\ \E page \in Pages(Managed("Prefix", w.spec.slug)) :
          LET match == {i \in page : objs[i].xid = <<w.key, c>>}
          IN  \/ \E i \in match :
                    /\ job' = [job EXCEPT !.at = c, !.ids = {i}]
                    /\ Proceed("update")
              \/ /\ match = {}
                 /\ job' = [job EXCEPT !.at = c]
                 /\ Proceed("create")
    /\ UNCHANGED <<node, objs, rir>>

\* All CIDRs or families are dealt with.
EnsureDone ==
    /\ w.pc = "ensure"
    /\ job.todo = {}
    /\ IF Prefixes(w.spec) THEN Proceed("list") ELSE Succeed(TRUE)
    /\ UNCHANGED podVars

\* The CIDRs of the Node that are to have a Prefix when the reconcile is over.
Desired ==
    IF Prefixes(w.spec) /\ job.found # Nil /\ Qualifies(w.spec, job.found)
    THEN job.found ELSE {}

\* ListNodePodCIDRPrefixes goes by the name of the Node alone.
Owned(page, k) == {i \in page : objs[i].xid[1] = k}

\* The Prefixes of the next Node that are to be deleted: all of them in
\* DeleteNodePodCIDRPrefixes, what is not desired in syncNodePrefixes.
ListPrefixes(k) ==
    /\ w.pc = "list"
    /\ k \in job.names
    /\ \E page \in Pages(Managed("Prefix", w.spec.slug)) :
          job' = [job EXCEPT !.names = @ \ {k},
                             !.ids = {i \in Owned(page, k) : objs[i].xid[2] \notin Desired}]
    /\ Proceed("prune")
    /\ UNCHANGED <<node, objs, rir>>

DeletePrefix(i) ==
    /\ w.pc = "prune"
    /\ i \in job.ids
    /\ objs[i] # Nil
    /\ objs' = [objs EXCEPT ![i] = Nil]
    /\ job' = [job EXCEPT !.ids = @ \ {i}]
    /\ Proceed("prune")
    /\ UNCHANGED <<node, rir>>

\* On to the next Node, to the Aggregates, or to the end; a Node that is gone
\* is not looked at again.
PruneDone ==
    /\ w.pc = "prune"
    /\ job.ids = {}
    /\ CASE job.names # {} -> Proceed("list")
         [] job.names = {} /\ ~Prefixes(w.spec) -> Proceed("tag")
         [] OTHER -> Succeed(job.found # Nil)
    /\ UNCHANGED podVars
-----------------------------------------------------------------------------
(* One Aggregate per address family *)

\* List: the Nodes, whose Prefixes go first, and their pod CIDRs.
ListNodes ==
    /\ w.pc = "nodes"
    /\ job' = [job EXCEPT !.found = Assigned, !.names = Existing]
    /\ Proceed("prune")
    /\ UNCHANGED <<node, objs, rir>>

\* EnsurePodCIDRAggregate for the next family: the Aggregate, if there is one ...
FindAggregate ==
    /\ w.pc = "ensure"
    /\ Aggregating
    /\ job.todo # {}
    /\ Of(NextFamily, job.found) # {}
    /\ \E page \in Pages(Managed("Aggregate", w.spec.slug)) :
          \/ \E i \in Aggregate(page) : job' = [job EXCEPT !.at = NextFamily, !.ids = {i}]
          \/ Aggregate(page) = {} /\ job' = [job EXCEPT !.at = NextFamily]
    /\ Proceed("rir")
    /\ UNCHANGED <<node, objs, rir>>

Abandon == job' = [job EXCEPT !.todo = {}, !.names = {}, !.at = Nil, !.ids = {}]

\* ... and LookupRIRID.
LookupRIR ==
    /\ w.pc = "rir"
    /\ rir
    /\ Proceed(IF job.ids = {} THEN "create" ELSE "update")
    /\ UNCHANGED podVars

LookupRIRFails ==
    /\ w.pc = "rir"
    /\ ~rir
    /\ Fail
    /\ Abandon
    /\ UNCHANGED <<node, objs, rir>>

\* Mutant: an Aggregate is written without its tag.
WrittenUntagged ==
    IF Prefixes(w.spec)
    THEN [kind |-> "Prefix", tag |-> w.spec.slug, xid |-> <<w.key, job.at>>, cidr |-> job.at]
    ELSE [kind |-> "Aggregate", tag |-> Nil, xid |-> job.at,
          cidr |-> computeSupernets(job.found)[job.at]]

\* The data of EnsurePodCIDRPrefix and of EnsurePodCIDRAggregate.
Written ==
    IF Prefixes(w.spec)
    THEN [kind |-> "Prefix", tag |-> w.spec.slug, xid |-> <<w.key, job.at>>, cidr |-> job.at]
    ELSE [kind |-> "Aggregate", tag |-> w.spec.slug, xid |-> job.at,
          cidr |-> computeSupernets(job.found)[job.at]]

WriteObject(i) ==
    /\ \/ w.pc = "update" /\ i \in job.ids /\ objs[i] # Nil
       \/ w.pc = "create" /\ i \in FreshIds
    /\ objs' = [objs EXCEPT ![i] = Written]
    /\ Done
    /\ Proceed("ensure")
    /\ UNCHANGED <<node, rir>>
-----------------------------------------------------------------------------
(* Failures and the end of a reconcile *)

\* The object to be written has been deleted meanwhile.
ObjectGone ==
    /\ w.pc \in {"update", "drop", "prune"}
    /\ \E i \in job.ids : objs[i] = Nil
    /\ Fail
    /\ Abandon
    /\ UNCHANGED <<node, objs, rir>>

\* A call fails; a write may have been carried out all the same.
Outcomes ==
    {objs} \cup
    CASE w.pc = "update" -> {[objs EXCEPT ![i] = Written] : i \in {j \in job.ids : objs[j] # Nil}}
      [] w.pc = "create" -> {[objs EXCEPT ![i] = Written] : i \in FreshIds}
      [] w.pc \in {"drop", "prune"} -> {[objs EXCEPT ![i] = Nil] : i \in job.ids}
      [] OTHER -> {}

CallFails ==
    /\ May("fault")
    /\ \/ w.pc \in {"list", "tag", "rir", "update", "create", "drop"}
       \/ w.pc \in {"stale", "ensure"} /\ job.todo # {}
       \/ w.pc = "prune" /\ job.ids # {}
    /\ objs' \in Outcomes
    /\ Fail
    /\ Abandon
    /\ UNCHANGED <<node, rir>>

\* syncStatus and the return of Reconcile.
syncStatus ==
    /\ ReportStep
    /\ job' = IF w'.pc = "idle" THEN NoJob ELSE job
    /\ UNCHANGED <<node, objs, rir>>

\* A call to the Kubernetes API fails: the error of Get and of the status
\* update is returned, that of List is reported.
KubeFails ==
    /\ \/ /\ May("kube")
          /\ w.pc = "node"
          /\ ReturnError
          /\ job' = NoJob
          /\ UNCHANGED <<storeVars, cfgEvent, status>>
       \/ May("kube") /\ w.pc = "nodes" /\ Fail /\ Abandon
       \/ ReportFault /\ job' = NoJob
    /\ UNCHANGED <<node, objs, rir>>
-----------------------------------------------------------------------------
WorkerStep ==
    \/ reconcilePrefixForNode \/ reconcileAggregates
    \/ FindStaleAggregate \/ StaleDone
    \/ SeeUnsynced \/ SeePaused \/ SeeAssigned
    \/ EnsureManagedTag \/ EnsureDone \/ PruneDone
    \/ \E c \in Cidrs : FindPrefix(c)
    \/ \E k \in Keys : ListPrefixes(k)
    \/ ListNodes \/ FindAggregate \/ LookupRIR \/ LookupRIRFails
    \/ \E i \in Ids : DropAggregate(i) \/ DeletePrefix(i) \/ WriteObject(i)
    \/ ObjectGone
    \/ syncStatus

Environment ==
    \/ StoreStep /\ UNCHANGED podVars
    \/ \E spec \in Specs \cup {Nil} : EditConfig(spec) /\ UNCHANGED podVars
    \/ enqueueAllNodes
    \/ LoseConfigEvent /\ UNCHANGED podVars
    \/ OtherStatusWrite /\ UNCHANGED podVars
    \/ \E k \in Keys : TimerFires(k) /\ UNCHANGED podVars
    \/ \E k \in Keys : Heartbeat(k) \/ NodeLeaves(k)
    \/ \E k \in Keys, cidrs \in Assignable : NodeJoins(k, cidrs)
    \/ \E i \in Ids : Drift(i)
    \/ ChangeRIR
    \/ PodCIDRsRestart

Next ==
    \/ \E k \in Keys : TakeNode(k)
    \/ WorkerStep
    \/ CallFails \/ KubeFails
    \/ Environment

\* As for Nodes.
Fairness ==
    /\ WF_vars(WorkerStep)
    /\ \A k \in Keys : SF_vars(TakeNode(k))
    /\ \A k \in Keys : WF_vars(TimerFires(k) /\ UNCHANGED podVars)
    /\ \A k \in Keys : WF_vars(Heartbeat(k))
    /\ WF_vars(enqueueAllNodes)
    /\ WF_vars(ReadConfig /\ (cr # Nil \/ store # Nil) /\ UNCHANGED <<shellVars, podVars>>)
    /\ WF_vars((Publish \/ Clear) /\ UNCHANGED <<shellVars, podVars>>)

SafetySpec == Init /\ [][Next]_vars

Spec == SafetySpec /\ Fairness
-----------------------------------------------------------------------------
(* Safety *)

(***************************************************************************)
(* NetBox never holds two Prefixes of one Node and CIDR, or two Aggregates *)
(* of one address family, although looking and creating are separate       *)
(* calls, answers are lost, and the block of an Aggregate keeps changing   *)
(* (pod-cidrs.md: "there's always at most one managed Aggregate per        *)
(* family").                                                               *)
(***************************************************************************)
OneObjectPerExternalID ==
    \A i, j \in Ids :
        /\ objs[i] # Nil
        /\ objs[j] # Nil
        /\ objs[i].tag = objs[j].tag
        /\ objs[i].xid = objs[j].xid
        => i = j

\* The CIDRs of the Prefixes the Node has in NetBox.
PrefixesOf(slug, k) == {objs[i].cidr : i \in Owned(Managed("Prefix", slug), k)}

\* Every Aggregate in NetBox is the smallest block that encloses the CIDRs of its
\* family; a family without one has no Aggregate.
AggregatesFit(slug, cidrs) ==
    \A i \in Managed("Aggregate", slug) :
        /\ Of(objs[i].xid, cidrs) # {}
        /\ SmallestEnclosing(objs[i].cidr, objs[i].xid, Of(objs[i].xid, cidrs))

(***************************************************************************)
(* When a reconcile is about to report success, nothing wrong is left in   *)
(* NetBox, whatever the representation was before, however the Nodes came  *)
(* and went, and whatever attempts that failed half-way left behind.  With *)
(* Prefixes: no Aggregate and, unless the sync is paused, no Prefix of the *)
(* Node but for the CIDRs it was found to have.  With Aggregates: none but *)
(* the smallest blocks that enclose all CIDRs found, up to the whole       *)
(* address space (reconcilePrefixForNode, syncAggregates;                  *)
(* computeSupernets: "the smallest CIDR block containing every one of that *)
(* family's input CIDRs in full").  Others may delete objects at any time, *)
(* so nothing is said of what should be there.                             *)
(***************************************************************************)
NothingWrongReported ==
    (w.pc \in {"status", "write"} /\ ~w.err) =>
        CASE Prefixes(w.spec) ->
               /\ Managed("Aggregate", w.spec.slug) = {}
               /\ job.found = Nil \/ ~Paused(w.spec) =>
                     PrefixesOf(w.spec.slug, w.key) \subseteq Desired
          [] Aggregating -> AggregatesFit(w.spec.slug, job.found)
          [] OTHER -> Paused(w.spec) \/ Managed("Aggregate", w.spec.slug) = {}

(***************************************************************************)
(* A reconcile that found the sync off and retainOnDisable set takes away  *)
(* only the Prefixes of its Node if that is gone, and, in Prefix           *)
(* representation, Aggregates: those of a representation that is no longer *)
(* in use go first (reconcilePrefixForNode, syncAggregates).               *)
(***************************************************************************)
PausedKeepsObjects ==
    [][(w.spec # Nil /\ Paused(w.spec)) =>
        \A i \in Ids : objs'[i] # objs[i] =>
            /\ Prefixes(w.spec)
            /\ objs[i].kind = "Prefix" => job.found = Nil /\ objs[i].xid[1] = w.key]_<<w, job>>
-----------------------------------------------------------------------------
(* Liveness *)

\* The Prefixes are as the spec wants them for the Nodes that exist ...
PrefixesInSync(spec) ==
    \A k \in Existing :
        CASE Prefixes(spec) /\ spec.enabled -> PrefixesOf(spec.slug, k) = node[k]
          [] ~spec.enabled /\ (spec.retain \/ ~Prefixes(spec)) -> TRUE
          [] OTHER -> PrefixesOf(spec.slug, k) = {}

\* ... and the Aggregates if there is a Node, whose events do the work.
AggregatesInSync(spec) ==
    CASE Prefixes(spec) \/ (~spec.enabled /\ ~spec.retain) -> Managed("Aggregate", spec.slug) = {}
      [] ~Prefixes(spec) /\ spec.enabled /\ rir ->
            /\ AggregatesFit(spec.slug, Assigned)
            /\ \A c \in Assigned : \E i \in Managed("Aggregate", spec.slug) : objs[i].xid = c.family
      [] OTHER -> TRUE

(***************************************************************************)
(* Once no disturbance happens any more, and as long as there is a Node,   *)
(* NetBox comes to hold the Prefixes of the Nodes that exist or the        *)
(* Aggregates over them, as the spec says, and nothing of the other        *)
(* representation, although the representation was switched back and       *)
(* forth, calls failed half-way, people deleted objects, the RIR was       *)
(* missing and the process was replaced (Reconcile, SetupWithManager).     *)
(* Prefixes of Nodes that left are not covered, and neither are those of   *)
(* a sync that was switched to Aggregates and disabled.                    *)
(***************************************************************************)
PodCIDRsConverge ==
    <>quiet => <>[](cr # Nil /\ Existing # {} => PrefixesInSync(cr) /\ AggregatesInSync(cr))

=============================================================================
