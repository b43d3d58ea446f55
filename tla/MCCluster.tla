----------------------------- MODULE MCCluster -----------------------------
(* Cluster for TLC: values of the constants. *)
EXTENDS Cluster, TLC

CONSTANT f

Plain == [enabled |-> TRUE, name |-> "a", named |-> {}, slug |-> "managed"]
Renamed == [Plain EXCEPT !.name = "b", !.named = {"site"}]
Off == [Plain EXCEPT !.enabled = FALSE]

MCNames == {"a", "b"}
MCSlugs == {"managed"}
MCSpecs == {Plain, Renamed, Off}

\* The other cluster uses a name this one may want to have.
MCForeign == f :> [tag |-> "managed", xid |-> OtherUid, name |-> "a", refs |-> {"type"}]

=============================================================================
