----------------------------- MODULE MCPodCIDRs -----------------------------
(* PodCIDRs for TLC: values of the constants that the configurations share. *)
EXTENDS PodCIDRs, TLC

CONSTANTS ipv4, ipv6

AsPrefixes ==
    [enabled |-> TRUE, retain |-> FALSE, representation |-> "Prefix", slug |-> "managed"]
PrefixesKept == [AsPrefixes EXCEPT !.enabled = FALSE, !.retain = TRUE]
AsAggregates == [AsPrefixes EXCEPT !.representation = "Aggregate"]
AggregatesKept == [AsAggregates EXCEPT !.enabled = FALSE, !.retain = TRUE]

MCSlugs == {"managed"}
Switching == {AsPrefixes, AsAggregates}
Pausing == {AsPrefixes, PrefixesKept, AsAggregates, AggregatesKept}

V4(n, h) == [family |-> ipv4, net |-> n, host |-> h]

\* A single IPv4 address, which is all there are.
SingleWidth == [f \in Families |-> 0]
SingleCidrs == {V4(0, 0)}

\* Sixteen IPv4 addresses: a block of two, and one address beyond the next power
\* of two.
SmallWidth == [f \in Families |-> 4]
SmallCidrs == {V4(1, 1), V4(4, 0)}

\* The names of Nodes and the IDs of objects are interchangeable.
Interchangeable == Permutations(Keys) \cup Permutations(Ids)

=============================================================================
