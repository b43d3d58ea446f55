----------------------------- MODULE Supernets -----------------------------
(***************************************************************************)
(* computeSupernets (internal/controller/podcidr_controller.go): the block *)
(* that stands for all pod CIDRs of an address family.                     *)
(*                                                                         *)
(* A CIDR is a block of addresses: the addresses that agree with its       *)
(* network in all but the last host bits.  The program keeps addresses of  *)
(* 32 and 128 bits as big integers, so nothing overflows; the width is a   *)
(* constant here.                                                          *)
(***************************************************************************)
EXTENDS FiniteSetsExt

CONSTANTS
    Families,   \* the address families: IPv4 and IPv6
    Width       \* the bits of an address of each family

ASSUME WidthAssumption == Width \in [Families -> Nat]

\* The number of addresses n bits tell apart (Lsh).
Pow2[n \in Nat] == IF n = 0 THEN 1 ELSE 2 * Pow2[n - 1]

\* The blocks of a family: net is the number of the block among those of its
\* size, which is what net.ParseCIDR keeps of an address.
Blocks(f) ==
    UNION {{[family |-> f, net |-> n, host |-> h] : n \in 0 .. Pow2[Width[f] - h] - 1} :
              h \in 0 .. Width[f]}

AllBlocks == UNION {Blocks(f) : f \in Families}

Of(f, cidrs) == {c \in cidrs : c.family = f}

\* The first and the last address of a block (start and end).
First(c) == c.net * Pow2[c.host]
Last(c) == First(c) + Pow2[c.host] - 1

\* The bounds of all blocks (min and max).
Lowest(cidrs) == Min({First(c) : c \in cidrs})
Highest(cidrs) == Max({Last(c) : c \in cidrs})

\* Two addresses agree in all but the last n bits.
AgreeAbove(x, y, n) == x \div Pow2[n] = y \div Pow2[n]

\* Mutant: the last bit in which they differ is taken for a common one.
ShortBitLen(x, y, bits) ==
    Min({n \in 0 .. bits : AgreeAbove(x, y, n + 1)})

\* The length in bits of (x XOR y): one more than the position of the highest
\* bit in which they differ.
DiffBitLen(x, y, bits) == Min({n \in 0 .. bits : AgreeAbove(x, y, n)})

\* The block of the lowest address that leaves the differing bits open.
Supernet(f, cidrs) ==
    LET n == DiffBitLen(Lowest(cidrs), Highest(cidrs), Width[f])
    IN  [family |-> f, net |-> Lowest(cidrs) \div Pow2[n], host |-> n]

\* A family without a CIDR has no entry in the result.
computeSupernets(cidrs) ==
    [f \in {c.family : c \in cidrs} |-> Supernet(f, Of(f, cidrs))]
-----------------------------------------------------------------------------
(* What is asked of it *)

Encloses(b, c) == First(b) <= First(c) /\ Last(c) <= Last(b)

\* b encloses all of cidrs, and no block of fewer addresses does.
SmallestEnclosing(b, f, cidrs) ==
    /\ b \in Blocks(f)
    /\ \A c \in cidrs : Encloses(b, c)
    /\ \A d \in Blocks(f) : (\A c \in cidrs : Encloses(d, c)) => b.host <= d.host

=============================================================================
