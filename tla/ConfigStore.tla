---------------------------- MODULE ConfigStore ----------------------------
(***************************************************************************)
(* What config.Store promises the resource controllers (store.go), stated  *)
(* without the work HeraldConfigReconciler does to keep the promise.       *)
(*                                                                         *)
(* cr is the HeraldConfig "default" as the shared informer cache shows it, *)
(* or Nil.  The config controller takes a snapshot of it ("reading"), and  *)
(* later either publishes that snapshot in the Store or empties the Store. *)
(* The snapshot may be out of date by then: nothing stops the user from    *)
(* editing the resource in between.                                        *)
(*                                                                         *)
(* Disturb names the kinds of disturbance the environment may cause, and   *)
(* quiet says that it causes no more of them; see May.  "reslug" is none:  *)
(* it says that Specs differ in the slug of the managed tag.               *)
(***************************************************************************)
CONSTANTS
    Specs,      \* the HeraldConfig specs the user may apply
    Nil,        \* no HeraldConfig, an empty Store, no snapshot
    Disturb     \* the kinds of disturbance that may happen

ASSUME NilAssumption == Nil \notin Specs

VARIABLES
    cr,         \* spec of the HeraldConfig, or Nil
    reading,    \* the value of cr the config controller works from, as a
                \* singleton; {} when it is not at work on one
    store,      \* spec in the Store, or Nil
    quiet       \* no disturbance happens any more

storeVars == <<cr, reading, store, quiet>>

StoreTypeOK ==
    /\ cr \in Specs \cup {Nil}
    /\ reading \in SUBSET (Specs \cup {Nil})
    /\ store \in Specs \cup {Nil}
    /\ quiet \in BOOLEAN

StoreInit ==
    /\ cr \in Specs \cup {Nil}
    /\ reading = {}
    /\ store = Nil
    /\ quiet = FALSE

\* The environment may cause a disturbance of this kind.
May(kind) == kind \in Disturb /\ ~quiet

CalmDown ==
    /\ ~quiet
    /\ quiet' = TRUE
    /\ UNCHANGED <<cr, reading, store>>

\* The user creates, edits or deletes the HeraldConfig.
ChangeConfig(spec) ==
    /\ May(IF spec = Nil THEN "remove" ELSE "edit")
    /\ spec # cr
    /\ cr' = spec
    /\ UNCHANGED <<reading, store, quiet>>

\* The config controller starts a reconcile: Get reads the HeraldConfig.
ReadConfig ==
    /\ reading = {}
    /\ reading' = {cr}
    /\ UNCHANGED <<cr, store, quiet>>

\* Store.Set(&cr.Spec, client).
Publish ==
    /\ store' \in reading \ {Nil}
    /\ reading' = {}
    /\ UNCHANGED <<cr, quiet>>

\* Store.Set(nil, nil): the HeraldConfig is gone, or NetBox cannot be used, or
\* it refuses a second managed tag.
Clear ==
    /\ reading # {}
    /\ reading = {Nil} \/ May("outage") \/ "reslug" \in Disturb
    /\ store' = Nil
    /\ reading' = {}
    /\ UNCHANGED <<cr, quiet>>

\* A new process starts with an empty Store.
StoreRestart ==
    /\ May("crash")
    /\ store' = Nil
    /\ reading' = {}
    /\ UNCHANGED <<cr, quiet>>

ControllerStep == ReadConfig \/ Publish \/ Clear

StoreNext ==
    \/ ControllerStep
    \/ \E spec \in Specs \cup {Nil} : ChangeConfig(spec)
    \/ StoreRestart
    \/ CalmDown

\* The controller keeps reading while there is a HeraldConfig or something
\* to take out of the Store, and finishes what it has begun.
StoreFairness ==
    /\ WF_storeVars(ReadConfig /\ (cr # Nil \/ store # Nil))
    /\ WF_storeVars(Publish \/ Clear)

StoreSpec == StoreInit /\ [][StoreNext]_storeVars /\ StoreFairness

=============================================================================
