-------------------------- MODULE ControllerQueue --------------------------
(***************************************************************************)
(* The work queue controller-runtime gives every controller (external; the *)
(* module models what Herald's controllers rely on).  A queue maps every   *)
(* reconcile key to the one entry it can have: none, one that waits for    *)
(* its time (RequeueAfter, or the back-off after an error), or one that is *)
(* ready to be taken.  Adding a key whose entry still waits makes that     *)
(* entry ready: the queue never holds two entries of one key, so the event *)
(* consumes the timer.  A key can be added while it is being reconciled;   *)
(* the worker takes it again afterwards.                                   *)
(***************************************************************************)

QueueState == {"absent", "delayed", "ready"}

\* Add: an event asks for the keys K to be reconciled now.
Add(queue, K) ==
    [k \in DOMAIN queue |-> IF k \in K THEN "ready" ELSE queue[k]]

\* AddAfter / AddRateLimited: reconcile k again after a while.
AddAfter(queue, k) ==
    [queue EXCEPT ![k] = IF @ = "ready" THEN "ready" ELSE "delayed"]

\* The worker takes the entry of k.
Take(queue, k) == [queue EXCEPT ![k] = "absent"]

\* The delay of k's entry is over.
Elapse(queue, k) == [queue EXCEPT ![k] = "ready"]

=============================================================================
