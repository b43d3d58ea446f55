------------------------------ MODULE Services ------------------------------
(***************************************************************************)
(* ServiceReconciler (internal/controller/service_controller.go) and the   *)
(* NetBox calls it makes (internal/netbox/service.go): the external IPs of *)
(* LoadBalancer Services are kept as IP Addresses in NetBox.               *)
(*                                                                         *)
(* One action per call to NetBox, so that users, faults and restarts come  *)
(* in between any two of them.  A Service is what the reconcile looks at:  *)
(* whether it is a LoadBalancer and the set of its ingress IPs.  The       *)
(* external ID <namespace>/<name>/<address> is a pair; the prefix match    *)
(* <namespace>/<name>/ is a match on its first component, since neither    *)
(* name can contain a "/".                                                 *)
(***************************************************************************)
EXTENDS ResourceController, NetBoxApi

CONSTANTS
    Addrs,         \* IP addresses
    Shapes,        \* the Services users may create
    Unparseable,   \* those net.ParseIP does not accept
    Slugs,         \* slugs of managed tags
    Foreign        \* IDs of the IP Addresses that were there before Herald

ExternalIDs == Keys \X Addrs

\* An IP Address in NetBox: its managed tag and external ID, if any, and the
\* address recorded.
IPAddress ==
    [tag : Slugs \cup {Nil}, xid : ExternalIDs \cup {Nil}, addr : Addrs]

Service == [lb : BOOLEAN, ingress : SUBSET Addrs]

ASSUME ServicesAssumption ==
    /\ Specs \subseteq [enabled : BOOLEAN, retain : BOOLEAN, slug : Slugs]
    /\ Shapes \subseteq Service
    /\ Unparseable \subseteq Addrs
    /\ Foreign \subseteq Ids
    /\ Nil \notin Slugs \cup Addrs \cup ExternalIDs \cup IPAddress \cup Service

VARIABLES
    svc,    \* the Services in the informer cache; Nil: there is none
    objs,   \* NetBox: the IP Address with each ID; Nil: there is none
    job     \* what the worker keeps of its work, see NoJob

vars == <<storeVars, shellVars, svc, objs, job>>

\* svc is the Service as read, todo the ingress IPs that are still to be
\* ensured, addr the one at work, and ids the objects that are to be written.
NoJob == [svc |-> Nil, todo |-> {}, addr |-> Nil, ids |-> {}]

\* Every variable has its type, whatever Reconcile does.
ServicesTypeOK ==
    /\ StoreTypeOK
    /\ ShellTypeOK({"tag", "ensure", "update", "create", "list", "delete"})
    /\ svc \in [Keys -> Service \cup {Nil}]
    /\ objs \in [Ids -> IPAddress \cup {Nil}]
    /\ job \in [svc : Service \cup {Nil}, todo : SUBSET Addrs,
                addr : Addrs \cup {Nil}, ids : SUBSET Ids]

Existing == {k \in Keys : svc[k] # Nil}

\* At first NetBox holds only objects that are not Herald's.
Init ==
    /\ StoreInit
    /\ svc \in [Keys -> Shapes \cup {Nil}]
    /\ ShellInit(Existing)
    /\ \E a \in Addrs :
          objs = [i \in Ids |-> IF i \in Foreign
                                THEN [tag |-> Nil, xid |-> Nil, addr |-> a] ELSE Nil]
    /\ job = NoJob
-----------------------------------------------------------------------------
(* NetBox (external) *)

\* The objects a list with this tag selects.
Managed(slug) == {i \in Ids : objs[i] # Nil /\ objs[i].tag = slug}

\* IDs NetBox may give to a new object.  NetBox never gives an ID twice; here
\* one may come back once nobody holds it, which nobody can tell.
FreshIds == {i \in Ids : objs[i] = Nil} \ job.ids

\* Somebody deletes a managed object, or edits the address recorded in it.
\* The worker may be about to write that very object only if "race" is given.
Drift(i) ==
    /\ May("drift")
    /\ objs[i] # Nil
    /\ objs[i].tag # Nil
    /\ i \notin job.ids \/ "race" \in Disturb
    /\ \E a \in Addrs : objs' \in {[objs EXCEPT ![i] = Nil], [objs EXCEPT ![i].addr = a]}
    /\ UNCHANGED <<storeVars, shellVars, svc, job>>

\* Somebody takes the managed tag off an object: it is no longer Herald's.
Untag(i) ==
    /\ May("untag")
    /\ objs[i] # Nil
    /\ objs[i].tag # Nil
    /\ objs' = [objs EXCEPT ![i].tag = Nil]
    /\ UNCHANGED <<storeVars, shellVars, svc, job>>
-----------------------------------------------------------------------------
(* Events *)

\* A Service is created, changed (its type, its ingress IPs) or deleted.
ServiceEvent(k, shape) ==
    /\ May("service")
    /\ shape # svc[k]
    /\ svc' = [svc EXCEPT ![k] = shape]
    /\ q' = Add(q, {k})
    /\ UNCHANGED <<storeVars, cfgEvent, w, status, objs, job>>

\* Mutant: a predicate lets only changes of the Service pass.
IgnoreResync(k) == k \in Existing /\ UNCHANGED vars

\* The informer's own resync.
ResyncService(k) ==
    /\ CacheResync(k, Existing)
    /\ UNCHANGED <<svc, objs, job>>

ServicesRestart ==
    /\ ShellRestart(Existing)
    /\ job' = NoJob
    /\ UNCHANGED <<svc, objs>>

enqueueAllServices ==
    /\ DeliverConfigEvent(Existing)
    /\ UNCHANGED <<svc, objs, job>>
-----------------------------------------------------------------------------
(* Reconcile *)

\* Reconcile up to the read of the Service.
TakeService(k) ==
    /\ PollStore(k) \/ StartReconcile(k)
    /\ UNCHANGED <<svc, objs, job>>

Qualifies(spec, s) == spec.enabled /\ s.lb

\* The Service is gone: DeleteServiceIPs, and no further reconcile.
SeeDeleted ==
    /\ w.pc = "get"
    /\ svc[w.key] = Nil
    /\ Proceed("list")
    /\ UNCHANGED <<svc, objs, job>>

\* Mutant: retainOnDisable is not looked at.
SeeUnsyncedAlways ==
    /\ w.pc = "get"
    /\ svc[w.key] # Nil
    /\ ~Qualifies(w.spec, svc[w.key])
    /\ Proceed("list")
    /\ job' = [NoJob EXCEPT !.svc = svc[w.key]]
    /\ UNCHANGED <<svc, objs>>

\* The Service is not to be synced, but may have been: DeleteServiceIPs.
SeeUnsynced ==
    /\ w.pc = "get"
    /\ svc[w.key] # Nil
    /\ ~Qualifies(w.spec, svc[w.key])
    /\ w.spec.enabled \/ ~w.spec.retain
    /\ Proceed("list")
    /\ job' = [NoJob EXCEPT !.svc = svc[w.key]]
    /\ UNCHANGED <<svc, objs>>

\* Sync is off and what there is is kept.
SeePaused ==
    /\ w.pc = "get"
    /\ svc[w.key] # Nil
    /\ ~w.spec.enabled
    /\ w.spec.retain
    /\ Succeed(TRUE)
    /\ job' = [NoJob EXCEPT !.svc = svc[w.key]]
    /\ UNCHANGED <<svc, objs>>

\* syncServiceAddresses begins.
SeeLoadBalancer ==
    /\ w.pc = "get"
    /\ svc[w.key] # Nil
    /\ Qualifies(w.spec, svc[w.key])
    /\ Proceed("tag")
    /\ job' = [NoJob EXCEPT !.svc = svc[w.key], !.todo = svc[w.key].ingress]
    /\ UNCHANGED <<svc, objs>>

\* EnsureManagedTag finds the tag: the Store is filled only once it exists.
EnsureManagedTag ==
    /\ w.pc = "tag"
    /\ Proceed("ensure")
    /\ UNCHANGED <<svc, objs, job>>

Abandon == job' = [job EXCEPT !.todo = {}, !.addr = Nil, !.ids = {}]

\* cidrForIP does not accept the next ingress IP: the rest is not looked at.
BadAddress ==
    /\ w.pc = "ensure"
    /\ job.todo \cap Unparseable # {}
    /\ Fail
    /\ Abandon
    /\ UNCHANGED <<svc, objs>>

\* Mutant: objects are recognised by the address recorded in them.
MatchesAddress(page, a) == {i \in page : objs[i].addr = a}

\* findServiceIPByExternalID for the next ingress IP.
Matches(page, a) == {i \in page : objs[i].xid = <<w.key, a>>}

\* Mutant: any object with this address is taken over.
AdoptServiceIP(a) ==
    /\ w.pc = "ensure"
    /\ a \in job.todo \ Unparseable
    /\ \E i \in Ids :
          /\ objs[i] # Nil
          /\ objs[i].addr = a
          /\ job' = [job EXCEPT !.addr = a, !.ids = {i}]
          /\ Proceed("update")
    /\ UNCHANGED <<svc, objs>>

FindServiceIP(a) ==
    /\ w.pc = "ensure"
    /\ a \in job.todo \ Unparseable
    /\ \E page \in Pages(Managed(w.spec.slug)) :
          \/ \E i \in Matches(page, a) :
                /\ job' = [job EXCEPT !.addr = a, !.ids = {i}]
                /\ Proceed("update")
          \/ /\ Matches(page, a) = {}
             /\ job' = [job EXCEPT !.addr = a]
             /\ Proceed("create")
    /\ UNCHANGED <<svc, objs>>

\* EnsureServiceIP's data.
Written == [tag |-> w.spec.slug, xid |-> <<w.key, job.addr>>, addr |-> job.addr]

Ensured == job' = [job EXCEPT !.todo = @ \ {job.addr}, !.addr = Nil, !.ids = {}]

UpdateServiceIP(i) ==
    /\ w.pc = "update"
    /\ i \in job.ids
    /\ objs[i] # Nil
    /\ objs' = [objs EXCEPT ![i] = Written]
    /\ Ensured
    /\ Proceed("ensure")
    /\ UNCHANGED svc

CreateServiceIP(i) ==
    /\ w.pc = "create"
    /\ i \in FreshIds
    /\ objs' = [objs EXCEPT ![i] = Written]
    /\ Ensured
    /\ Proceed("ensure")
    /\ UNCHANGED svc

\* All ingress IPs are ensured: on to the ones the Service had before.
StartPruning ==
    /\ w.pc = "ensure"
    /\ job.todo = {}
    /\ Proceed("list")
    /\ UNCHANGED <<svc, objs, job>>

\* The addresses that are to be there when the reconcile is over.
Desired ==
    IF job.svc # Nil /\ Qualifies(w.spec, job.svc) THEN job.svc.ingress ELSE {}

\* ListServiceIPs, and what of it is to be deleted: all of it in
\* DeleteServiceIPs, what is not desired in syncServiceAddresses.
Owned(page, k) == {i \in page : objs[i].xid # Nil /\ objs[i].xid[1] = k}

\* Mutant: external IDs are taken for the IDs of the objects.
ListExternalIDs ==
    /\ w.pc = "list"
    /\ \E page \in Pages(Managed(w.spec.slug)) :
          job' = [job EXCEPT !.ids = {objs[i].xid : i \in Owned(page, w.key)}]
    /\ Proceed("delete")
    /\ UNCHANGED <<svc, objs>>

ListServiceIPs ==
    /\ w.pc = "list"
    /\ \E page \in Pages(Managed(w.spec.slug)) :
          job' = [job EXCEPT !.ids =
                     {i \in Owned(page, w.key) : objs[i].xid[2] \notin Desired}]
    /\ Proceed("delete")
    /\ UNCHANGED <<svc, objs>>

\* Mutant: only the first object is deleted.
DeleteFirstServiceIP(i) ==
    /\ w.pc = "delete"
    /\ i \in job.ids
    /\ objs[i] # Nil
    /\ objs' = [objs EXCEPT ![i] = Nil]
    /\ job' = [job EXCEPT !.ids = {}]
    /\ Proceed("delete")
    /\ UNCHANGED svc

DeleteServiceIP(i) ==
    /\ w.pc = "delete"
    /\ i \in job.ids
    /\ objs[i] # Nil
    /\ objs' = [objs EXCEPT ![i] = Nil]
    /\ job' = [job EXCEPT !.ids = @ \ {i}]
    /\ Proceed("delete")
    /\ UNCHANGED svc

\* Mutant: no further reconcile is asked for.
DeletesDoneForGood ==
    /\ w.pc = "delete"
    /\ job.ids = {}
    /\ Succeed(FALSE)
    /\ UNCHANGED <<svc, objs, job>>

\* Everything is deleted; a Service that is gone is not looked at again.
DeletesDone ==
    /\ w.pc = "delete"
    /\ job.ids = {}
    /\ Succeed(job.svc # Nil)
    /\ UNCHANGED <<svc, objs, job>>

\* The object to be written has been deleted meanwhile: NetBox answers 404,
\* which is an error like any other.
ObjectGone ==
    /\ w.pc \in {"update", "delete"}
    /\ \E i \in job.ids : objs[i] = Nil
    /\ Fail
    /\ Abandon
    /\ UNCHANGED <<svc, objs>>

\* A call fails; a write may have been carried out all the same.
Outcomes ==
    {objs} \cup
    CASE w.pc = "update" -> {[objs EXCEPT ![i] = Written] : i \in {j \in job.ids : objs[j] # Nil}}
      [] w.pc = "create" -> {[objs EXCEPT ![i] = Written] : i \in FreshIds}
      [] w.pc = "delete" -> {[objs EXCEPT ![i] = Nil] : i \in job.ids}
      [] OTHER -> {}

CallFails ==
    /\ May("fault")
    /\ \/ w.pc \in {"tag", "update", "create", "list"}
       \/ w.pc = "ensure" /\ job.todo \ Unparseable # {}
       \/ w.pc = "delete" /\ job.ids # {}
    /\ objs' \in Outcomes
    /\ Fail
    /\ Abandon
    /\ UNCHANGED svc

\* syncServicesStatus and the return of Reconcile.
syncServicesStatus ==
    /\ ReportStep
    /\ job' = IF w'.pc = "idle" THEN NoJob ELSE job
    /\ UNCHANGED <<svc, objs>>

\* A call to the Kubernetes API fails; its error is returned.
KubeFails ==
    /\ GetFails \/ ReportFault
    /\ job' = NoJob
    /\ UNCHANGED <<svc, objs>>
-----------------------------------------------------------------------------
WorkerStep ==
    \/ SeeDeleted \/ SeeUnsynced \/ SeePaused \/ SeeLoadBalancer
    \/ EnsureManagedTag \/ BadAddress \/ StartPruning
    \/ \E a \in Addrs : FindServiceIP(a)
    \/ \E i \in Ids : UpdateServiceIP(i) \/ CreateServiceIP(i) \/ DeleteServiceIP(i)
    \/ ListServiceIPs \/ DeletesDone \/ ObjectGone
    \/ syncServicesStatus

Environment ==
    \/ StoreStep /\ UNCHANGED <<svc, objs, job>>
    \/ \E spec \in Specs \cup {Nil} : EditConfig(spec) /\ UNCHANGED <<svc, objs, job>>
    \/ enqueueAllServices
    \/ LoseConfigEvent /\ UNCHANGED <<svc, objs, job>>
    \/ OtherStatusWrite /\ UNCHANGED <<svc, objs, job>>
    \/ \E k \in Keys : TimerFires(k) /\ UNCHANGED <<svc, objs, job>>
    \/ \E k \in Keys : ResyncService(k)
    \/ \E k \in Keys, shape \in Shapes \cup {Nil} : ServiceEvent(k, shape)
    \/ \E i \in Ids : Drift(i) \/ Untag(i)
    \/ ServicesRestart

Next ==
    \/ \E k \in Keys : TakeService(k)
    \/ WorkerStep
    \/ CallFails \/ KubeFails
    \/ Environment

\* The worker goes on, timers fire, events arrive, the queue serves every
\* ready key in turn, and the Store is looked after (see ConfigStore).
Fairness ==
    /\ WF_vars(WorkerStep)
    /\ \A k \in Keys : SF_vars(TakeService(k))
    /\ \A k \in Keys : WF_vars(TimerFires(k) /\ UNCHANGED <<svc, objs, job>>)
    /\ \A k \in Keys : WF_vars(ResyncService(k))
    /\ WF_vars(enqueueAllServices)
    /\ WF_vars(ReadConfig /\ (cr # Nil \/ store # Nil) /\ UNCHANGED <<shellVars, svc, objs, job>>)
    /\ WF_vars((Publish \/ Clear) /\ UNCHANGED <<shellVars, svc, objs, job>>)

SafetySpec == Init /\ [][Next]_vars

Spec == SafetySpec /\ Fairness

-----------------------------------------------------------------------------
(* Safety *)

(***************************************************************************)
(* No two managed IP Addresses ever have the same external ID, although    *)
(* EnsureServiceIP looks and creates in two separate calls, a create may   *)
(* succeed without its answer arriving, and the process may be replaced at *)
(* any point.                                                              *)
(***************************************************************************)
NoDuplicates ==
    \A i, j \in Ids :
        /\ objs[i] # Nil
        /\ objs[j] # Nil
        /\ objs[i].tag # Nil
        /\ objs[i].tag = objs[j].tag
        /\ objs[i].xid = objs[j].xid
        => i = j

(***************************************************************************)
(* An object without the managed tag is never written or deleted, at any   *)
(* step (tags.go, EnsureManagedTag: "only ever updates or deletes objects  *)
(* that carry it").                                                        *)
(***************************************************************************)
UnmanagedUntouched ==
    [][\A i \in Ids : objs[i] # Nil /\ objs[i].tag = Nil => objs'[i] = objs[i]]_vars

Paused(spec) == ~spec.enabled /\ spec.retain

\* Exactly these addresses of Service k are in NetBox, as Herald writes them.
Recorded(slug, k, addrs) ==
    LET own == Owned(Managed(slug), k)
    IN  /\ {objs[i].xid[2] : i \in own} = addrs
        /\ \A i \in own : objs[i].addr = objs[i].xid[2]

(***************************************************************************)
(* When a reconcile is about to report success, NetBox records exactly the *)
(* addresses of the Service it read: all ensured, all others pruned,       *)
(* whatever failed attempts before it left behind (syncServiceAddresses,   *)
(* DeleteServiceIPs, syncServicesStatus).  For environments in which       *)
(* nobody else edits managed objects.                                      *)
(***************************************************************************)
ReportedSyncIsReal ==
    (w.pc \in {"status", "write"} /\ ~w.err /\ ~(Paused(w.spec) /\ job.svc # Nil))
        => Recorded(w.spec.slug, w.key, Desired)

(***************************************************************************)
(* While the Store holds a spec with sync off and retainOnDisable on, and  *)
(* no reconcile still works from an older spec, the only writes to NetBox  *)
(* are deletions of what belongs to a Service that was found deleted       *)
(* (Reconcile: retainOnDisable).  For environments in which nobody else    *)
(* edits managed objects.                                                  *)
(***************************************************************************)
PausedUntouched ==
    [][(store # Nil /\ Paused(store) /\ w.spec \in {Nil, store})
        => \A i \in Ids : objs'[i] # objs[i] =>
              job.svc = Nil /\ i \in Owned(Managed(store.slug), w.key) /\ objs'[i] = Nil]_vars

(***************************************************************************)
(* As long as no call to NetBox fails and the process lives, no Service is *)
(* forgotten: the queue holds an entry of every Service that exists or has *)
(* managed addresses, or the worker is at it.  This is what the periodic   *)
(* resync rests on (Reconcile: every path that returns Result{};           *)
(* resolveResyncInterval).                                                 *)
(***************************************************************************)
NothingForgotten ==
    \A k \in Keys :
        (q[k] = "absent" /\ w.key # k) =>
            /\ svc[k] = Nil
            /\ \A i \in Ids : objs[i] # Nil /\ objs[i].tag # Nil => objs[i].xid[1] # k
-----------------------------------------------------------------------------
(* Liveness *)

\* NetBox is as the spec wants it for Service k.
InSync(spec, k) ==
    CASE svc[k] = Nil -> Recorded(spec.slug, k, {})
      [] svc[k] # Nil /\ Paused(spec) -> TRUE
      [] OTHER -> Recorded(spec.slug, k, IF Qualifies(spec, svc[k]) THEN svc[k].ingress ELSE {})

(***************************************************************************)
(* Once no disturbance happens any more, NetBox comes to mirror every      *)
(* Service and stays so: no address is missing, wrong, or left over,       *)
(* although config edits race with reconciles that use the old spec, the   *)
(* Store may be empty for a while, status updates conflict for ever, and   *)
(* people change managed objects (Reconcile, RequeueAfter, polling).       *)
(***************************************************************************)
Converges == <>quiet => <>[](cr # Nil => \A k \in Keys : InSync(cr, k))

(***************************************************************************)
(* The same for the Services that exist, although calls fail, answers are  *)
(* lost and the process is replaced at any point: restarts and the         *)
(* informers' own resync queue every existing Service again (main.go,      *)
(* SetupWithManager).                                                      *)
(***************************************************************************)
ExistingConverge == <>quiet => <>[](cr # Nil => \A k \in Existing : InSync(cr, k))

(***************************************************************************)
(* Once no disturbance happens any more and there is a Service, the status *)
(* comes to tell the truth for good: observedGeneration is the generation  *)
(* of the HeraldConfig, enabled is what that generation says, and no error *)
(* is reported.  On the way it may claim a generation whose spec no        *)
(* reconcile has used yet: enabled comes from the spec of the Store, the   *)
(* generation from a HeraldConfig read later (syncServicesStatus).  For    *)
(* environments in which all addresses can be parsed.                      *)
(***************************************************************************)
StatusCatchesUp ==
    <>quiet => <>[](cr # Nil /\ Existing # {} =>
                        status = [enabled |-> cr.enabled, current |-> TRUE, err |-> FALSE])

=============================================================================
