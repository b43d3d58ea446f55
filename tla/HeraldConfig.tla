---------------------------- MODULE HeraldConfig ----------------------------
(***************************************************************************)
(* HeraldConfigReconciler (internal/controller/heraldconfig_controller.go) *)
(* with the NetBox bootstrap calls it makes (internal/netbox: config.go,   *)
(* client.go, version.go, tags.go, customfields.go) and the Store it       *)
(* fills (internal/config/store.go).                                       *)
(*                                                                         *)
(* One action per call the reconcile makes; users, resource controllers    *)
(* and failures come in between.  A spec keeps the two fields the          *)
(* reconcile branches on: the managed tag's slug and whether the version   *)
(* check is on.                                                            *)
(***************************************************************************)
EXTENDS ControllerQueue

CONSTANTS
    Specs,       \* the HeraldConfig specs the user may apply
    Nil,
    Disturb,     \* see ConfigStore
    Slugs,
    OtherNames   \* names of HeraldConfigs that are not the singleton

Singleton == "default"
Names == OtherNames \cup {Singleton}

ASSUME ConfigAssumption ==
    /\ Specs \subseteq [slug : Slugs, versionCheck : BOOLEAN]
    /\ Nil \notin Specs
    /\ "reslug" \in Disturb \/ \A s, t \in Specs : s.slug = t.slug
    /\ Singleton \notin OtherNames

VARIABLES
    cr, store, quiet,   \* as in ConfigStore
    ready,   \* the HeraldConfig's Ready condition: "unset", "true" or "false"
    queue,   \* the controller's work queue
    hw,      \* its worker: program counter, spec of the HeraldConfig it read,
             \* and whether that HeraldConfig is still the latest version
    tags,    \* NetBox: slugs of the tags of Herald's fixed name
    field    \* NetBox: the external-ID custom field exists

vars == <<cr, store, quiet, ready, queue, hw, tags, field>>

IdleWorker == [pc |-> "idle", spec |-> Nil, fresh |-> FALSE]

\* Every variable has its type, whatever Reconcile does.
HeraldConfigTypeOK ==
    /\ cr \in Specs \cup {Nil}
    /\ store \in Specs \cup {Nil}
    /\ quiet \in BOOLEAN
    /\ ready \in {"unset", "true", "false"}
    /\ queue \in [Names -> QueueState]
    /\ hw \in [pc : {"idle", "gone", "load", "version", "tag", "createTag", "field",
                     "createField", "write", "writeDown"},
               spec : Specs \cup {Nil}, fresh : BOOLEAN]
    /\ tags \in SUBSET Slugs
    /\ field \in BOOLEAN

\* The informers report every HeraldConfig that exists to the new process.
FirstEvents(exists) ==
    [n \in Names |-> IF n = Singleton /\ ~exists THEN "absent" ELSE "ready"]

Init ==
    /\ cr \in Specs \cup {Nil}
    /\ store = Nil
    /\ quiet = FALSE
    /\ ready = "unset"
    /\ queue = FirstEvents(cr # Nil)
    /\ hw = IdleWorker
    /\ tags = {}
    /\ field = FALSE

May(kind) == kind \in Disturb /\ ~quiet
-----------------------------------------------------------------------------
(* The environment *)

CalmDown ==
    /\ ~quiet
    /\ quiet' = TRUE
    /\ UNCHANGED <<cr, store, ready, queue, hw, tags, field>>

\* The user creates, edits or deletes the singleton.  Its generation changes,
\* so the event passes the GenerationChangedPredicate; a version read before
\* is no longer the latest.
ChangeConfig(spec) ==
    /\ May(IF spec = Nil THEN "remove" ELSE "edit")
    /\ spec # cr
    /\ cr' = spec
    /\ ready' = IF cr = Nil \/ spec = Nil THEN "unset" ELSE ready
    /\ queue' = Add(queue, {Singleton})
    /\ hw' = [hw EXCEPT !.fresh = FALSE]
    /\ UNCHANGED <<store, quiet, tags, field>>

\* The user touches a HeraldConfig of another name.
ChangeOther(n) ==
    /\ May("edit")
    /\ queue' = Add(queue, {n})
    /\ UNCHANGED <<cr, store, quiet, ready, hw, tags, field>>

\* A resource controller writes its part of the status: a new version of the
\* HeraldConfig, but the same generation, so nobody is woken.
OtherStatusWrite ==
    /\ May("status")
    /\ cr # Nil
    /\ hw.fresh
    /\ hw' = [hw EXCEPT !.fresh = FALSE]
    /\ UNCHANGED <<cr, store, quiet, ready, queue, tags, field>>

ElapseConfig(n) ==
    /\ queue[n] = "delayed"
    /\ queue' = Elapse(queue, n)
    /\ UNCHANGED <<cr, store, quiet, ready, hw, tags, field>>

\* The process dies and another one takes over (main.go: leader election).
Restart ==
    /\ May("crash")
    /\ store' = Nil
    /\ queue' = FirstEvents(cr # Nil)
    /\ hw' = IdleWorker
    /\ UNCHANGED <<cr, quiet, ready, tags, field>>
-----------------------------------------------------------------------------
(* Reconcile *)

Busy(pc) == hw.pc = pc

GoTo(pc) == hw' = [hw EXCEPT !.pc = pc]

\* Any name but the singleton's is ignored.
IgnoreOther(n) ==
    /\ Busy("idle")
    /\ queue[n] = "ready"
    /\ queue' = Take(queue, n)
    /\ UNCHANGED <<cr, store, quiet, ready, hw, tags, field>>

\* r.Get: the HeraldConfig, or NotFound.
GetConfig ==
    /\ Busy("idle")
    /\ queue[Singleton] = "ready"
    /\ queue' = Take(queue, Singleton)
    /\ hw' = [pc |-> IF cr = Nil THEN "gone" ELSE "load", spec |-> cr, fresh |-> TRUE]
    /\ UNCHANGED <<cr, store, quiet, ready, tags, field>>

\* r.Get fails otherwise: the error is returned, so the key backs off.
GetConfigFails ==
    /\ May("kube")
    /\ Busy("idle")
    /\ queue[Singleton] = "ready"
    /\ queue' = AddAfter(Take(queue, Singleton), Singleton)
    /\ UNCHANGED <<cr, store, quiet, ready, hw, tags, field>>

\* NotFound: the Store is emptied and nothing is scheduled.
ForgetConfig ==
    /\ Busy("gone")
    /\ store' = Nil
    /\ hw' = IdleWorker
    /\ UNCHANGED <<cr, quiet, ready, queue, tags, field>>

\* Mutant: the spec published last stays in the Store.
ReportOnly ==
    /\ UNCHANGED store
    /\ GoTo("writeDown")

\* reportUnreachable, up to its status update.
ReportUnreachable ==
    /\ store' = Nil
    /\ GoTo("writeDown")

\* LoadConfig and Client: the Secrets are there and make a client.
LoadConfig ==
    /\ Busy("load")
    /\ GoTo(IF hw.spec.versionCheck THEN "version" ELSE "tag")
    /\ UNCHANGED <<cr, store, quiet, ready, queue, tags, field>>

\* CheckVersion: NetBox answers with a supported version.
CheckVersion ==
    /\ Busy("version")
    /\ GoTo("tag")
    /\ UNCHANGED <<cr, store, quiet, ready, queue, tags, field>>

\* Mutant: the tag is taken to exist.
TrustTags ==
    /\ Busy("tag")
    /\ GoTo("field")
    /\ UNCHANGED <<cr, store, quiet, ready, queue, tags, field>>

\* EnsureManagedTag: the tag with this slug, or one has to be created.
ListTags ==
    /\ Busy("tag")
    /\ GoTo(IF hw.spec.slug \in tags THEN "field" ELSE "createTag")
    /\ UNCHANGED <<cr, store, quiet, ready, queue, tags, field>>

\* Names of tags are unique in NetBox, and EnsureManagedTag gives every tag it
\* creates the same name, whatever its slug.
NameTaken == tags # {}

\* Mutant: the default slug is not filled in.
CreateUnnamedTag ==
    /\ Busy("createTag")
    /\ ~NameTaken
    /\ tags' = tags \cup {Nil}
    /\ GoTo("field")
    /\ UNCHANGED <<cr, store, quiet, ready, queue, field>>

CreateTag ==
    /\ Busy("createTag")
    /\ ~NameTaken
    /\ tags' = tags \cup {hw.spec.slug}
    /\ GoTo("field")
    /\ UNCHANGED <<cr, store, quiet, ready, queue, field>>

\* The tag of an earlier slug still has the name: an error like any other, on
\* this attempt and on every later one.
TagRefused ==
    /\ Busy("createTag")
    /\ NameTaken
    /\ ReportUnreachable
    /\ UNCHANGED <<cr, quiet, ready, queue, tags, field>>

\* Mutant: the HeraldConfig is read again for the Store.
SetStoreToLatest ==
    /\ store' = cr
    /\ GoTo("write")

\* Store.Set(&cr.Spec, netboxClient): the last thing before the status.
SetStore ==
    /\ store' = hw.spec
    /\ GoTo("write")

\* EnsureExternalIDCustomField finds the field.
ListFields ==
    /\ Busy("field")
    /\ IF field THEN SetStore ELSE GoTo("createField") /\ UNCHANGED store
    /\ UNCHANGED <<cr, quiet, ready, queue, tags, field>>

CreateField ==
    /\ Busy("createField")
    /\ field' = TRUE
    /\ SetStore
    /\ UNCHANGED <<cr, quiet, ready, queue, tags>>

\* One of the calls fails; a create may have been carried out all the same.
CallFails ==
    /\ May("outage")
    /\ hw.pc \in {"load", "version", "tag", "createTag", "field", "createField"}
    /\ ReportUnreachable
    /\ tags' \in IF Busy("createTag") /\ ~NameTaken THEN {tags, tags \cup {hw.spec.slug}}
             ELSE {tags}
    /\ field' \in IF Busy("createField") THEN {field, TRUE} ELSE {field}
    /\ UNCHANGED <<cr, quiet, ready, queue>>

\* Status().Update after success; the next reconcile follows after the resync
\* interval.
WriteReady ==
    /\ Busy("write")
    /\ hw.fresh
    /\ ready' = "true"
    /\ queue' = AddAfter(queue, Singleton)
    /\ hw' = IdleWorker
    /\ UNCHANGED <<cr, store, quiet, tags, field>>

\* Mutant: the error of the update is only logged.
WriteReadyFailsUnnoticed ==
    /\ Busy("write")
    /\ ~hw.fresh \/ May("kube")
    /\ hw' = IdleWorker
    /\ UNCHANGED <<cr, store, quiet, ready, queue, tags, field>>

\* The update conflicts with a newer version, fails, or its answer is lost: the
\* error is returned.
WriteReadyFails ==
    /\ Busy("write")
    /\ \/ ~hw.fresh /\ UNCHANGED ready
       \/ hw.fresh /\ May("kube") /\ ready' \in {ready, "true"}
    /\ queue' = AddAfter(queue, Singleton)
    /\ hw' = IdleWorker
    /\ UNCHANGED <<cr, store, quiet, tags, field>>

\* Status().Update after a failure.  An error of the update itself is only
\* logged: what is returned is the cause, which makes the key back off.
WriteNotReady ==
    /\ Busy("writeDown")
    /\ \/ hw.fresh /\ ready' = "false"
       \/ (~hw.fresh \/ May("kube")) /\ UNCHANGED ready
    /\ queue' = AddAfter(queue, Singleton)
    /\ hw' = IdleWorker
    /\ UNCHANGED <<cr, store, quiet, tags, field>>

ReconcileStep ==
    \/ ForgetConfig \/ LoadConfig \/ CheckVersion
    \/ ListTags \/ CreateTag \/ TagRefused \/ ListFields \/ CreateField
    \/ WriteReady \/ WriteReadyFails \/ WriteNotReady

Next ==
    \/ CalmDown
    \/ \E spec \in Specs \cup {Nil} : ChangeConfig(spec)
    \/ \E n \in OtherNames : ChangeOther(n) \/ IgnoreOther(n)
    \/ OtherStatusWrite
    \/ \E n \in Names : ElapseConfig(n)
    \/ Restart
    \/ GetConfig \/ GetConfigFails
    \/ ReconcileStep
    \/ CallFails

\* The worker goes on with what it has begun, timers fire, and the queue serves
\* every ready key in turn.
Fairness ==
    /\ WF_vars(ReconcileStep)
    /\ \A n \in Names : WF_vars(ElapseConfig(n))
    /\ SF_vars(GetConfig)
    /\ \A n \in OtherNames : SF_vars(IgnoreOther(n))

Spec == Init /\ [][Next]_vars /\ Fairness

-----------------------------------------------------------------------------
(* What the reconcile promises *)

(***************************************************************************)
(* Whatever resource controllers find in the Store can be used: NetBox     *)
(* already has the tag the spec names and the external-ID custom field, in *)
(* every interleaving of edits, retries, lost answers and restarts         *)
(* (Reconcile publishes only after EnsureManagedTag and                    *)
(* EnsureExternalIDCustomField).                                           *)
(***************************************************************************)
PublishedIsBootstrapped ==
    store # Nil => store.slug \in tags /\ field

\* The snapshot of ConfigStore: held from the Get to the call of Store.Set.
Reading ==
    IF hw.pc \in {"idle", "write", "writeDown"} THEN {} ELSE {hw.spec}

Abstract == INSTANCE ConfigStore WITH reading <- Reading

(***************************************************************************)
(* The reconcile implements ConfigStore, the interface the models of the   *)
(* resource controllers are built on: each of its steps is a step of the   *)
(* abstract Store or leaves it alone, and its queue and retries give the   *)
(* fairness assumed there (GetConfig, reportUnreachable, RequeueAfter).    *)
(***************************************************************************)
ImplementsStore == Abstract!StoreSpec

\* NetBox has the managed tag of this spec, or can still be given it.
Taggable(spec) == tags \subseteq {spec.slug}

(***************************************************************************)
(* Once no disturbance happens any more, the Store holds the spec of the   *)
(* HeraldConfig that exists, although edits may have landed in the middle  *)
(* of a reconcile and status updates may have conflicted.  It holds        *)
(* nothing when there is no HeraldConfig, and, for good, when the slug of  *)
(* the managed tag was changed after a tag had been created: the second    *)
(* tag is refused at every retry, and an older spec does not stay in use   *)
(* instead (EnsureManagedTag, reportUnreachable).                          *)
(***************************************************************************)
PublishedCatchesUp ==
    <>quiet => <>[](store = IF cr # Nil /\ Taggable(cr) THEN cr ELSE Nil)

(***************************************************************************)
(* Once no disturbance happens any more, the Ready condition of an         *)
(* existing HeraldConfig tells whether the Store can be used: a status     *)
(* update lost to a conflict is made up for by the retry (Reconcile,       *)
(* reportUnreachable).                                                     *)
(***************************************************************************)
ReadyCatchesUp == <>quiet => <>[](cr # Nil => (ready = "true" <=> store # Nil))

=============================================================================
