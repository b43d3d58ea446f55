----------------------------- MODULE NetBoxApi -----------------------------
(***************************************************************************)
(* What Herald's calls to NetBox rely on (external).  Objects of a kind    *)
(* are a function from IDs to records, Nil where there is none.            *)
(***************************************************************************)
EXTENDS Naturals, FiniteSets

CONSTANTS
    Ids,        \* NetBox IDs of the objects
    PageSize    \* how many objects NetBox returns to a list without a limit

ASSUME NetBoxAssumption == IsFiniteSet(Ids) /\ PageSize \in Nat

\* The answers a list that selects the objects S may get.  Herald sets no limit
\* and reads no further page, so this is all it sees; which objects come first
\* is NetBox's affair.
Pages(S) ==
    IF Cardinality(S) <= PageSize THEN {S}
    ELSE {P \in SUBSET S : Cardinality(P) = PageSize}

=============================================================================
