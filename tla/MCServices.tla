----------------------------- MODULE MCServices -----------------------------
(* Services for TLC: values of the constants that the configurations share. *)
EXTENDS Services, TLC

Off == [enabled |-> FALSE, retain |-> FALSE, slug |-> "managed"]
Keep == [enabled |-> FALSE, retain |-> TRUE, slug |-> "managed"]
On == [enabled |-> TRUE, retain |-> FALSE, slug |-> "managed"]

\* The IDs of Herald's own objects are interchangeable, and the addresses are.
Interchangeable == Permutations(Ids \ Foreign) \cup Permutations(Addrs \ Unparseable)

MCSlugs == {"managed"}
OnKeep == {On, Keep}
OnlyOn == {On}
OnOff == {On, Off}

ClusterIP == [lb |-> FALSE, ingress |-> {}]
LoadBalancers == [lb : {TRUE}, ingress : SUBSET (Addrs \ Unparseable)]
AllLoadBalanced == [lb : {TRUE}, ingress : {Addrs}]
AllShapes == LoadBalancers \cup AllLoadBalanced \cup {ClusterIP}

=============================================================================
