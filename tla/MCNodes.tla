------------------------------ MODULE MCNodes ------------------------------
(* Nodes for TLC: values of the constants that the configurations share. *)
EXTENDS Nodes, TLC

AsDevice ==
    [enabled |-> TRUE, retain |-> FALSE, mapping |-> "Device",
     place |-> "here", named |-> TRUE, slug |-> "managed"]
Elsewhere == [AsDevice EXCEPT !.place = "there"]
AsMachine == [AsDevice EXCEPT !.mapping = "VirtualMachine"]
PlainMachine == [AsMachine EXCEPT !.named = FALSE]
MachinesOff == [PlainMachine EXCEPT !.enabled = FALSE]
MachinesKept == [MachinesOff EXCEPT !.retain = TRUE]
Unset == [AsDevice EXCEPT !.mapping = ""]

MCSlugs == {"managed"}
MCPlaces == {"here", "there"}
Moved == {AsDevice, Elsewhere}
OnOffKeep == {PlainMachine, MachinesOff, MachinesKept}
EveryMapping == {AsDevice, AsMachine, Unset}

\* Names, UIDs and the IDs of objects are interchangeable.
Interchangeable == Permutations(Keys) \cup Permutations(Ids) \cup Permutations(Uids)

=============================================================================
