# Netbox Herald in TLA+

Netbox Herald is a Kubernetes operator that mirrors a cluster (its Nodes, its
LoadBalancer addresses, its pod CIDRs and the cluster itself) into NetBox. This
directory models the operator in TLA+, checks the models with TLC and proves
theorems about them with TLAPS.

## The system

| Part | State | Operations | Talks to |
|---|---|---|---|
| `cmd/main.go` | one process at a time (leader election) | start, restart with empty memory | starts everything |
| `config.Store` | spec and NetBox client, or nothing | `Set`, `Get` under a mutex | written by HeraldConfigReconciler, read by the other controllers |
| `HeraldConfigReconciler` | work queue, status of the HeraldConfig | `Reconcile`, `reportUnreachable` | Secrets, NetBox (version, tag, custom field), Store |
| `ClusterReconciler` | work queue, `status.resources.cluster` | `Reconcile`, `reportSyncError` | Store, NetBox Clusters |
| `NodeReconciler` | work queue, `status.resources.nodes` | `Reconcile`, `enqueueAllNodes`, `syncNodesStatus` | Store, NetBox Devices and VirtualMachines, references |
| `ServiceReconciler` | work queue, `status.resources.services` | `Reconcile`, `enqueueAllServices`, `syncServicesStatus` | Store, NetBox IP Addresses |
| `PodCIDRReconciler` | work queue, `status.resources.podCIDRs` | `Reconcile` in Prefix or Aggregate mode, `computeSupernets` | Store, NetBox Prefixes and Aggregates |
| `internal/netbox` | none: the state is NetBox's | find by tag and external ID, create, update, delete, look up references | NetBox REST API |

The controllers share the Store and the HeraldConfig object, whose status each
of them rewrites. None holds a lock over a call to NetBox. What is hard:

- a reconcile is a sequence of remote calls; users, other controllers, failures
  and restarts come between any two of them;
- a call that fails may have been carried out;
- the spec a reconcile works with is a snapshot, and so are the objects it
  listed before it writes them;
- whether a key is looked at again depends on what `Reconcile` returned and on
  the work queue, both lost with the process;
- deletions are told once.

Correct means, for a resource controller: at most one object per external ID;
objects without the managed tag are left alone; a paused sync writes nothing; a
reported success is real; nothing is forgotten; and NetBox converges to what
the spec and the cluster say. For the config controller: what it publishes can
be used, and what it publishes catches up. `PROJECT.json` lists the hazards
line by line.

## The modules

```
ControllerQueue ---+-- HeraldConfig -------- MCHeraldConfig, HeraldConfigProofs
                   |        | implements
ConfigStore -------|--------+
    |              |
    +-- ResourceController
             |
NetBoxApi ---+-- Services -- MCServices, ServicesProofs (with ShellProofs)
             +-- Nodes ----- MCNodes, NodesProofs (with ShellProofs)
             +-- Cluster --- MCCluster, ClusterProofs (with ShellProofs)
             +-- PodCIDRs -- MCPodCIDRs, PodCIDRsProofs (with ShellProofs, SupernetsProofs)
                    |
                Supernets -- SupernetsProofs
```

**ControllerQueue** (external) is controller-runtime's work queue. A key has no
entry, a waiting one (`RequeueAfter`, back-off) or a ready one; an event makes a
waiting entry ready, so it consumes the timer. Keys can be added while they are
reconciled.

**NetBoxApi** (external): a list without a limit returns at most a page.

**ConfigStore** is the abstract specification of the Store: the config
controller takes a snapshot of the HeraldConfig (`ReadConfig`) and later either
publishes that snapshot (`Publish`) or empties the Store (`Clear`). The resource
controllers are modelled against it, with one slug for all specs; with several (`reslug`)
a snapshot may be refused at any time, because NetBox does not take a second managed tag.

**HeraldConfig** is `HeraldConfigReconciler` call by call: `GetConfig`,
`LoadConfig` (which stands for `LoadConfig` and `Client`), `CheckVersion`,
`ListTags`/`CreateTag`, `ListFields`/`CreateField`, then `SetStore` as part of the
last of them, and the status update. A spec keeps the slug and whether the version
check is on. `EnsureManagedTag` gives the tag of every slug one fixed name
(`netbox/tags.go:46`), and names of tags are unique in NetBox: once a tag of one slug
exists, `TagRefused` takes the place of `CreateTag` for any other. It implements ConfigStore: the snapshot is what the worker holds
between `Get` and `Store.Set`.

**ResourceController** is what the resource controllers have in common: polling
while the Store is empty, the status update (skipped when the HeraldConfig or the
Store is gone; it may conflict, fail, or succeed without an answer), the return of
`Result{}`, `RequeueAfter` or an error, the watch on HeraldConfigs whose handler
queues every object, and restarts. A failure of the work is *not* returned: the
worker ends with `Result{}` and the outcome of the status update, as in the code.

**Services** adds `ServiceReconciler` and `netbox/service.go`. State: the Services
in the cache, the IP Addresses in NetBox, and what the worker remembers (`job`).
`SeeDeleted`, `SeeUnsynced`, `SeePaused` and `SeeLoadBalancer` are the branches of
`Reconcile`; `FindServiceIP`, `UpdateServiceIP`, `CreateServiceIP`,
`ListServiceIPs` and `DeleteServiceIP` one call to NetBox each; `CallFails` is any
of them failing, with or without effect.

**Nodes** adds `NodeReconciler`, `netbox/node.go` and the lookups it uses of
`netbox/refs.go`. Devices and VirtualMachines are one set of objects with a kind.
`FindByExternalID` serves both `Ensure...` and `Delete...ByExternalID`, as the code
does; `FindByName` and `NextKind` are `deleteNodeByName`. NetBox holds one Device of a name in a
Site and one VirtualMachine of a name in a Cluster, whatever their UIDs and tags
(`NameTaken`); a write that breaks this is refused (`NameRefused`). A spec and an object
therefore have a `place`, the Site or Cluster they name.

**Cluster** adds `ClusterReconciler`, `netbox/cluster.go` and its lookups. It uses the
shell differently, as the code does: the HeraldConfig is read before the work
(`SeeConfig`) and it is that version whose status is updated at the end, so that an edit
or another controller's write in between makes the update conflict; and
`reportSyncError` returns the cause, so that a failure is retried. There is no
`retainOnDisable`. `Foreign` are Clusters of another Kubernetes cluster that shares the
NetBox and the tag.

**PodCIDRs** adds `PodCIDRReconciler` and `netbox/podcidr.go`. Prefixes and Aggregates
are one set of objects with a kind. A reconcile in Prefix representation goes through
`FindStaleAggregate`/`DropAggregate` for both families first, then reads the Node and
ensures or deletes its Prefixes; one in Aggregate representation lists the Nodes, deletes
the Prefixes of each (`ListPrefixes`, `DeletePrefix`), and then ensures or deletes the
Aggregate of each family in turn (`FindAggregate`, `LookupRIR`, `WriteObject`).

**Supernets** is `computeSupernets` as an operator on sets of blocks, for addresses of any
width: bounds, length of the XOR, mask. `SmallestEnclosing` is its reference definition.
Powers of two are the recursive function `Pow2`, so that they can be proved about.

### Abstractions

- An external ID `<namespace>/<name>/<address>` is a pair, and the prefix match a
  match on its first component (neither name can hold a `/`). Ingress IPs are a
  set; hostnames without an IP are skipped by the code and left out.
- The informer cache changes together with the event that reports it.
- NetBox never reuses an ID. The models may, once neither NetBox nor the worker
  holds it, since nobody can tell; Kubernetes UIDs likewise.
- Which managed objects a page holds is arbitrary.
- `Report` is one step: the count that goes into `objectCount` changes nothing else.
- References of a Node are looked up in any order; the code's order is fixed, and
  the outcome does not depend on it.
- NetBox's uniqueness rules are those for the objects Herald creates: names of Herald's
  tags, of the managed Devices per Site and of the managed VirtualMachines per Cluster. A
  tag or a Device that somebody else created under such a name is a failing call (`outage`,
  `fault`) while it is there.
- Nobody removes the managed tag itself or the custom field.
- A CIDR is a block, numbered among those of its size; the program's big integers do not
  overflow, so the width of an address is a parameter. CIDRs that do not parse are left
  out: the API server refuses them.
- The two address families are dealt with in one fixed order, as in the code. Pod CIDRs of
  Nodes do not overlap, and a Node has at most one per family.
- NetBox refuses overlapping Aggregates and two Clusters of one name in a group or site;
  such refusals are failing calls (`fault`).
- The references of a Cluster are those its last write gave. What NetBox does with one
  that an update leaves out is not modelled.
- In Cluster a new object gets a fixed free ID: nothing depends on which. Requests for
  HeraldConfigs of other names return before they read anything and are left out.

### Disturbances

`Disturb` names what the environment may do: `edit` or `remove` the HeraldConfig; change a
`service` or `node`, `recreate` a Node before its departure was reconciled;
NetBox unreachable for the config controller (`outage`); a NetBox call of a resource
controller failing (`fault`); a call to the Kubernetes API failing (`kube`); other
controllers writing the `status`; people changing managed objects (`drift`, `race` if
also under the worker's hands) or taking the tag off (`untag`); `crash`. `reslug` is no disturbance: it says that the specs
differ in the slug of the managed tag. `Fragile` are
the references that may be missing, and `rir` makes the RIR come and go. All of these end when `quiet` becomes true, so
`<>quiet => <>[]P` reads: once the environment leaves Herald alone, `P` comes to hold
for good. Two go on for ever: conflicts over the status in the resource controllers
(not in Cluster, where success of the status update is part of what is asked), and `resync` (the informers' own resync, every ten hours or so, and Nodes'
heartbeats).

## What is checked

| Run | Shows |
|---|---|
| `config` | what is in the Store has its tag and the field in NetBox; the reconcile implements ConfigStore, fairness included; Store and Ready condition catch up, and with a slug whose tag NetBox refuses the Store ends up empty |
| `services_safety` | no two managed IP Addresses with one external ID, with drift and untagging under the worker's hands, faults and crashes |
| `services_reports` | success is reported only when NetBox holds exactly the Service's addresses; foreign objects are spared; a paused sync only cleans up after deleted Services |
| `services_converge` | with edits, outages, conflicts, lost config events and drift, but no failing call and no crash: no Service is forgotten, and NetBox converges |
| `services_restart` | with config edits, failing calls and crashes, an existing Service converges, by the informers' resync, and `enabled`, `observedGeneration` and `lastError` of the status come to be right together |
| `nodes_safety` | with sync on and Nodes moved between two Sites: one object per UID and kind; honest reports; deleting by name never hits a live Node's object, although names are given to new Nodes |
| `nodes_departed` | objects of departed Nodes go away, and so does everything when sync is disabled without `retainOnDisable` (no failing call, no recreation, one mapping); reports are honest with sync off too |
| `nodes_existing` | existing Nodes converge with faults, crashes, missing references, unless an object left behind has their name |
| `podcidrs_pause` | two Nodes, sixteen addresses: when success is reported, the Aggregate is the smallest block around all CIDRs found, or the Node has no Prefix too many; a paused sync keeps what it must |
| `podcidrs_switch` | switching between Prefixes and Aggregates with Nodes that come and go, failing calls, deleted objects, a missing RIR and crashes: no duplicates, nothing wrong behind a reported success, and NetBox converges to one representation |
| `cluster` | one Cluster per UID through renames and lost answers; no outdated one behind a reported success; another cluster's object of the same name is spared; NetBox and status converge without any resync |

And where the code does not do what its documentation says (`findings` in
`PROJECT.json` quotes the lines):

| Run | Shows |
|---|---|
| `services_paging` | more managed objects than a page: success is reported, and it is not so |

The bounds of some passing properties are as telling as these runs. Each of the
following adds one disturbance, or one spec, to a run, and TLC then finds the property
violated:

- `fault` in `services_converge`, `Converges`: when the clean-up of a deleted Service fails,
  `Result{}` is returned (`service_controller.go:90`), no list of Services names it again,
  and its addresses stay, although `services.md` promises to "find and remove every address
  a given Service ever had synced".
- a VirtualMachine mapping that is off and a Device mapping that is on, in `nodes_departed`,
  `DisabledMeansGone`: `deleteNodeByExternalID` looks only at the kind of the current mapping
  (`node_controller.go:152`), so an edit that changes the mapping and disables the sync
  leaves the Devices, although `architecture.md` says that disabling deletes every object.
- `fault` in `services_converge`, `NothingForgotten`: after a failed call `Reconcile`
  returns `Result{}` (`service_controller.go:118`), nothing is scheduled for the Service
  and its periodic resync ends; only an event of another origin brings it back.
- `crash` in `services_converge`, `Converges`: a Service deleted around a restart is in
  no list of the new process, and its addresses stay.
- `untag` in `services_reports`, `UnmanagedUntouched`: update and delete go by the ID of
  an earlier list and do not look at the tags again (`netbox/service.go:91`).
- `recreate` in `nodes_departed`, `DepartedNodesGone`: a Node replaced under its name
  before its deletion was reconciled leaves the object of its old UID, since `Get` finds
  the new Node (`node_controller.go:79`).

Some properties are stated more weakly than the documentation, because the code does less:

- `PublishedCatchesUp` has the Store end up empty when the slug was changed after a tag had
  been created. The API says of `managedTag.slug` only that it is optional and has a default
  (`heraldconfig_types.go:84`), yet it can be chosen once: NetBox refuses the second tag at
  every retry, the HeraldConfig stays not ready and nothing is synced until the old slug is
  put back or the tag is renamed in NetBox.
- `ExistingNodesConverge` exempts a Node whose name an object of an earlier Node has. Such an
  object is left behind when a Node is recreated before its deletion was reconciled, or when
  `deleteNodeByName` failed (`node_controller.go:79`), for nothing asks for it again. NetBox
  refuses the create of the new Node (`netbox/node.go:98`, `:269`) at every retry, so this Node
  is not recorded, although `nodes.md` says "Herald syncs every Kubernetes `Node`". Without
  the exemption TLC finds the property violated.
- `StatusCatchesUp` asks only that the status comes to be right. In between,
  `observedGeneration` may be current while `enabled` is that of an older generation: the
  one is read after the work, the other before it (`service_controller.go:212`).
- `PausedKeepsObjects` lets a paused sync in Prefix representation delete Aggregates: they
  go before `enabled` and `retainOnDisable` are looked at (`podcidr_controller.go:102`),
  although `architecture.md` says a paused sync leaves existing objects untouched.
- `PodCIDRsConverge` speaks of the Prefixes of Nodes that exist. After a switch to
  Aggregates only those of Nodes still listed are removed (`podcidr_controller.go:231`);
  those of a Node that left before stay, although `pod-cidrs.md` says that switching removes
  any existing per-node Prefixes. A switch to Aggregates that also disables the sync does
  not look at Prefixes at all.
- In Aggregate representation the key of a Node that left is given `RequeueAfter` like any
  other, so it is reconciled for ever; this harms nothing and no property forbids it.

A Device mapping without `siteName` can never be synced: `EnsureDevice` looks the Site up
whether or not a name is given (`netbox/node.go:71`). The model has this in `Lookups` and
`Found`; `ExistingNodesConverge` therefore asks only for Nodes whose references are found.

Each property of a passing run has a mutant: a plausible slip in the code
(`\* Mutant:` in the modules) under which the run must fail.

### Bounds

One or two keys: keys share nothing but the page, the worker and the queue, and two
show what they can do to each other (`nodes_safety`; `podcidrs_pause`, where they also
share the Aggregate). Two addresses
are enough for a partial result (one ensured or deleted, one not). IDs: one more than
the objects wanted, so that a duplicate or a left-over has room (in `nodes_safety`, two IDs
for two Nodes: one object can be missing while another is there twice). Two Sites in
`nodes_safety`, because within one NetBox's own rule on names prevents a duplicate; both of
its specs have sync on to keep it small, and sync off is the business of `nodes_departed`. UIDs: two, so that a
Node can come back with another. Two slugs in `config`, one in the other runs: there the
tag exists before a spec reaches the Store, and the first tag is the only one. `PageSize` is beyond the number of IDs except in
`services_paging`. Addresses have four bits in `podcidrs_pause`: the two CIDRs lie on both
sides of a power of two, so the Aggregate is one of them, or the eight addresses around
both. In `podcidrs_switch` the address space is a single block, the edge case of length 0,
and the second family never has a CIDR, so that its Aggregate is always looked for and
never there. There are no counters to cap. Deadlock is checked in the liveness
runs of the resource controllers; in the others the system may come to rest (a HeraldConfig
that does not exist, nothing to do, bounded IDs used up).

### Fairness

Weak fairness of the worker's next step, of timers and of the delivery of events: the
worker is a goroutine, calls end by their timeout, timers fire. Strong fairness of
taking a key, since a ready key stays in a queue that is served in turn while other
keys keep the single worker busy. Weak fairness of `resync` where a run allows it; Cluster
has none and needs none.
The fairness ConfigStore assumes of the config controller is what the run `config`
shows of `HeraldConfig` (`ImplementsStore`); the same run with one slug and without `reslug`,
as the other runs have it, passes too. Failures need no fairness.

## What is proved

Every invariant and every action property the passing runs check is also a theorem, for
all values of the constants, from the assumptions named in the modules (types of the
constants, `Nil` apart from all values, `Ids` finite) and the hypotheses below. The
hypotheses about the environment name disturbances (`Disturb`). *Whole pages* stands for
`Cardinality(Ids) <= PageSize`: a list returns all objects, which the code takes for
granted; `services_paging` shows what happens otherwise.

| Theorem | States | Hypotheses |
|---|---|---|
| `ConfigTypes` | `HeraldConfigTypeOK` | |
| `StoreIsBootstrapped` | `PublishedIsBootstrapped` | |
| `RefinesStoreSteps` | initial states and steps of HeraldConfig are those of ConfigStore | |
| `ServicesTypes` | `ServicesTypeOK` | |
| `ServicesNoDuplicates` | `NoDuplicates` | whole pages |
| `ServicesSpareUnmanaged` | `UnmanagedUntouched` | no `untag` |
| `ServiceReportsAreReal` | `ReportedSyncIsReal` | whole pages; no `drift`, no `untag` |
| `PausesAreKept` | `PausedUntouched` | no `drift`, no `untag` |
| `NoServiceIsForgotten` | `NothingForgotten` | whole pages; no `fault`, `crash` or `race`, all addresses parse; one slug |
| `NodesTypes` | `NodesTypeOK` | |
| `NodesAreUnique` | `OneObjectPerNode` | whole pages |
| `NodeReportsAreReal` | `NodeReportIsReal` | whole pages; no `drift` |
| `LiveNodesAreKept` | `LiveNodeKept` | no `drift` |
| `ClusterTypes` | `ClusterTypeOK` | |
| `ClusterIsUnique` | `OneClusterPerUid` | whole pages |
| `ClusterSparesOthers` | `OtherClustersUntouched` | |
| `ClusterReportsAreReal` | `ClusterReportIsReal` | whole pages; one slug |
| `SupernetIsSmallest` | `Supernet` meets `SmallestEnclosing` | at least one block |
| `PodCIDRsTypes` | `PodCIDRsTypeOK` | |
| `PodCIDRsAreUnique` | `OneObjectPerExternalID` | whole pages |
| `PausedObjectsAreKept` | `PausedKeepsObjects` | |
| `NothingWrongIsReported` | `NothingWrongReported` | whole pages |

The run that checks a property keeps within the hypotheses of its theorem. Where a
hypothesis is about the environment, the property is wrong without it: somebody who
deletes or edits an object between the worker's last look and its report makes any report
wrong, and for `untag`, `fault` and `crash` see above. With two slugs an object under the
old one stays behind when the HeraldConfig's is changed.

### The arguments

Few of the properties are inductive. What has to be added is what the worker knows between
two of its calls, and that nothing that happens in between makes it false. Each of these
strengthenings was checked by TLC before it was proved.

- *Types.* A worker at work has a key and a spec, and an address, Node or block where it
  writes one. `ShellProofs` has the facts on ResourceController the controllers share: its
  steps keep the types, whatever steps of its own a controller adds.
- *HeraldConfig.* `ConfigInv`: a spec is held after `Get`, a tag is created only when there is
  none of its slug, and past `EnsureManagedTag` the tag exists. Tags have slugs of specs, so
  with one slug no tag is refused, and `RefinesStoreSteps` gives ConfigStore without `reslug`.
- *One object* (`DupInv` in each module). Search and create are separate calls. While the
  worker is about to create, the object is still missing; while it is about to update, there
  is no other. This survives lost answers and restarts, because only the one worker adds
  objects. In Cluster it has to last through up to three lookups (`OnlyFound`).
- *Sparing others* (`AimInv`). Writes go by the IDs of an earlier list. These still carry
  the tag (Services), or belong to this cluster or to nobody (Cluster).
- *Honest reports* (`WorkRight`, `AllListed` in ServicesProofs; `Settled` in ClusterProofs;
  `RightInv` in PodCIDRsProofs). What has been ensured stays to the end, since an update
  writes the object that was found and a delete takes only what is not desired; what is not
  desired was listed; hence once the list is worked off, what is there is what is wanted. In
  PodCIDRs this goes through the phases of both representations: no Aggregate is left once
  both families were purged, no Prefix once every Node listed was pruned, and the Aggregate
  of each family that was dealt with is the right one.
- *Pauses.* `PausesAreKept` needs of `WorkRight` that a worker in a paused reconcile lists
  and deletes only for a Service it found deleted; `PauseInv` is the same for PodCIDRs.
- *Live Nodes* (`KeptInv`). An object with the UID of a Node that exists bears its name. While
  the worker deletes by the name of a Node that had left, no object has the UID of the Node
  that took the name over meanwhile, since only this worker could have written it.
- *Nothing forgotten* (`Remembered`). When no further reconcile is asked for, the Service
  at work was found deleted and has nothing left in NetBox; if it has been created again, an
  event has made its entry in the queue ready.
- *Supernets.* `SupernetIsSmallest` needs that blocks nest, which rests on
  `Pow2[m + n] = Pow2[m] * Pow2[n]` and on facts about quotients. The provers cannot use the
  library's induction theorems, so an induction is done by least counterexample: `<` on the
  naturals is well founded (`WFMin`, `NatLessThanWellFounded`), so a set of naturals without
  a first element is empty (`LeastNumber`, `NumberInduction`).

Only model-checked: whatever needs fairness (every property of the form `<>quiet =>
<>[]...`, and the liveness half of `ImplementsStore`), which this prover does not do; and
`ReportedSyncIsReal` failing with more than a page, which is a counterexample and not a
theorem.

## Not modelled

TLS, tokens, URLs and semver (libraries without state); `objectCount`, `lastSyncTime` and messages of
the status; metrics, probes, webhooks and leader election (controller-runtime);
deployment manifests; generated code. The Store hands out a pointer into the
HeraldConfig that a later status update decodes into; the values are the same, so the
model does not show it.

## Plan

1. The status of one HeraldConfig written by several controllers at once, instead of
   `OtherStatusWrite`.
2. Cluster composed with Nodes in VirtualMachine mapping, which need the Cluster to exist.
3. Proofs: that the resource controllers' use of ConfigStore is one of its
   implementations' (the steps of each controller on `storeVars` are those of `StoreNext`),
   which connects the theorems about the controllers to `RefinesStoreSteps`.
