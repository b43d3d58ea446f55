-------------------------- MODULE SupernetsProofs --------------------------
(***************************************************************************)
(* computeSupernets finds the smallest enclosing block, for addresses of   *)
(* every width and every set of CIDRs.                                     *)
(***************************************************************************)
EXTENDS Supernets, WellFoundedInduction, TLAPS

(***************************************************************************)
(* A set of numbers has a least element.  Induction is used in this form:  *)
(* there is no least counterexample.                                       *)
(***************************************************************************)
LEMMA LeastNumber ==
    ASSUME NEW T \in SUBSET Nat, T # {}
    PROVE  \E x \in T : \A y \in T : x <= y
<1>1. IsWellFoundedOn(OpToRel(<, Nat), Nat)
  BY NatLessThanWellFounded
<1>2. PICK x \in T : \A y \in T : <<y, x>> \notin OpToRel(<, Nat)
  BY <1>1, WFMin
<1>3. \A y \in T : ~(y < x)
  BY <1>2 DEF OpToRel
<1> QED
  BY <1>3

LEMMA NumberInduction ==
    ASSUME NEW S, 0 \in S, \A n \in Nat : n \in S => n + 1 \in S
    PROVE  Nat \subseteq S
<1>1. SUFFICES ASSUME Nat \ S # {} PROVE FALSE
  OBVIOUS
<1>2. PICK x \in Nat \ S : \A y \in Nat \ S : x <= y
  BY <1>1, LeastNumber
<1>3. x # 0 /\ x - 1 \in Nat
  BY <1>2
<1>4. x - 1 \in S
  BY <1>2, <1>3
<1> QED
  BY <1>2, <1>3, <1>4
-----------------------------------------------------------------------------
(* Powers of two *)

\* The first n powers, each twice the one before.
Doubling(n) ==
    {g \in [0 .. n -> Nat \ {0}] : g[0] = 1 /\ \A m \in 1 .. n : g[m] = 2 * g[m - 1]}

LEMMA DoublingExists == \A n \in Nat : Doubling(n) # {}
<1> DEFINE S == {n \in Nat : Doubling(n) # {}}
<1>1. 0 \in S
  <2>1. [m \in 0 .. 0 |-> 1] \in Doubling(0)
    BY DEF Doubling
  <2> QED
    BY <2>1
<1>2. ASSUME NEW n \in Nat, n \in S PROVE n + 1 \in S
  <2>1. PICK g : g \in Doubling(n)
    BY <1>2
  <2> DEFINE h == [m \in 0 .. n + 1 |-> IF m = n + 1 THEN 2 * g[n] ELSE g[m]]
  <2>2. h \in [0 .. n + 1 -> Nat \ {0}] /\ h[0] = 1
    BY <2>1 DEF Doubling
  <2>3. ASSUME NEW m \in 1 .. n + 1 PROVE h[m] = 2 * h[m - 1]
    BY <2>1 DEF Doubling
  <2> HIDE DEF h
  <2>4. h \in Doubling(n + 1)
    BY <2>2, <2>3 DEF Doubling
  <2> QED
    BY <2>4
<1> HIDE DEF S
<1>3. Nat \subseteq S
  BY <1>1, <1>2, NumberInduction
<1> QED
  BY <1>3 DEF S

LEMMA DoublingUnique ==
    ASSUME NEW n \in Nat, NEW m \in Nat, NEW g \in Doubling(n), NEW h \in Doubling(m)
    PROVE  \A k \in Nat : k <= n /\ k <= m => g[k] = h[k]
<1> DEFINE S == {k \in Nat : k <= n /\ k <= m => g[k] = h[k]}
<1>1. 0 \in S
  BY DEF Doubling
<1>2. ASSUME NEW k \in Nat, k \in S PROVE k + 1 \in S
  BY <1>2 DEF Doubling
<1> HIDE DEF S
<1>3. Nat \subseteq S
  BY <1>1, <1>2, NumberInduction
<1> QED
  BY <1>3 DEF S

\* Pow2 is what its recursive definition says.
LEMMA Pow2Def ==
    Pow2 = [n \in Nat |-> IF n = 0 THEN 1 ELSE 2 * Pow2[n - 1]] /\ Pow2 \in [Nat -> Nat \ {0}]
<1> DEFINE g(n) == CHOOSE x : x \in Doubling(n)
           p == [n \in Nat |-> g(n)[n]]
           Fits(x) == x = [n \in Nat |-> IF n = 0 THEN 1 ELSE 2 * x[n - 1]]
<1>1. \A n \in Nat : g(n) \in Doubling(n)
  BY DoublingExists
<1> HIDE DEF g
<1>2. p \in [Nat -> Nat \ {0}] /\ p[0] = 1
  BY <1>1 DEF Doubling
<1>3. ASSUME NEW n \in Nat, n # 0 PROVE p[n] = 2 * p[n - 1]
  <2>1. g(n)[n - 1] = g(n - 1)[n - 1]
    BY <1>1, <1>3, DoublingUnique
  <2>2. g(n)[n] = 2 * g(n)[n - 1]
    BY <1>1, <1>3 DEF Doubling
  <2> QED
    BY <1>3, <2>1, <2>2
<1> HIDE DEF p
<1>4. Fits(p)
  BY <1>2, <1>3
<1>5. Fits(Pow2)
  BY <1>4 DEF Pow2
<1>6. \A n \in Nat : Pow2[n] \in Nat \ {0}
  <2> DEFINE S == {n \in Nat : Pow2[n] \in Nat \ {0}}
  <2>1. 0 \in S
    BY <1>5
  <2>2. ASSUME NEW n \in Nat, n \in S PROVE n + 1 \in S
    BY <1>5, <2>2
  <2> HIDE DEF S
  <2>3. Nat \subseteq S
    BY <2>1, <2>2, NumberInduction
  <2> QED
    BY <2>3 DEF S
<1> QED
  BY <1>5, <1>6

\* 2^m * 2^n = 2^(m + n).
LEMMA Pow2Product == \A m, n \in Nat : Pow2[m] * Pow2[n] = Pow2[m + n]
<1> SUFFICES ASSUME NEW m \in Nat PROVE \A n \in Nat : Pow2[m] * Pow2[n] = Pow2[m + n]
  OBVIOUS
<1> DEFINE S == {n \in Nat : Pow2[m] * Pow2[n] = Pow2[m + n]}
<1>1. 0 \in S
  <2>1. Pow2[0] = 1 /\ Pow2[m] \in Nat
    BY Pow2Def
  <2> QED
    BY <2>1
<1>2. ASSUME NEW n \in Nat, n \in S PROVE n + 1 \in S
  <2>1. /\ Pow2[n + 1] = 2 * Pow2[n] /\ Pow2[m + (n + 1)] = 2 * Pow2[m + n]
        /\ Pow2[m] \in Nat /\ Pow2[n] \in Nat
    BY Pow2Def
  <2>2. Pow2[m] * (2 * Pow2[n]) = 2 * (Pow2[m] * Pow2[n])
    BY <2>1
  <2>3. Pow2[m] * Pow2[n + 1] = Pow2[m + (n + 1)]
    BY <1>2, <2>1, <2>2
  <2> QED
    BY <2>3
<1> HIDE DEF S
<1>3. Nat \subseteq S
  BY <1>1, <1>2, NumberInduction
<1> QED
  BY <1>3 DEF S
-----------------------------------------------------------------------------
(* Division *)

\* An address is in the block with its quotient for a number.
LEMMA Quotient ==
    ASSUME NEW x \in Nat, NEW b \in Nat \ {0}
    PROVE  /\ x \div b \in Nat
           /\ (x \div b) * b <= x /\ x <= (x \div b) * b + b - 1
<1>1. x \div b \in Nat /\ x % b \in 0 .. b - 1 /\ x = b * (x \div b) + (x % b)
  OBVIOUS
<1>2. b * (x \div b) = (x \div b) * b
  BY <1>1
<1> QED
  BY <1>1, <1>2

\* Of two numbers, the block of the smaller one ends before that of the greater.
LEMMA NextBlock ==
    ASSUME NEW m \in Nat, NEW n \in Nat, m < n, NEW b \in Nat \ {0}
    PROVE  m * b + b <= n * b
<1>1. PICK d \in Nat : n = m + 1 + d
  <2>1. n - m - 1 \in Nat /\ n = m + 1 + (n - m - 1)
    OBVIOUS
  <2> QED
    BY <2>1
<1>2. d * b \in Nat
  OBVIOUS
<1>3. (m + 1 + d) * b = m * b + b + d * b
  OBVIOUS
<1> QED
  BY <1>1, <1>2, <1>3

\* And it is in no other.
LEMMA QuotientUnique ==
    ASSUME NEW x \in Nat, NEW n \in Nat, NEW b \in Nat \ {0},
           n * b <= x, x <= n * b + b - 1
    PROVE  x \div b = n
<1> DEFINE m == x \div b
<1>1. m \in Nat /\ m * b <= x /\ x <= m * b + b - 1
  BY Quotient
<1> HIDE DEF m
<1>2. n * b \in Nat /\ m * b \in Nat
  BY <1>1
<1>3. ~(m < n)
  BY <1>1, <1>2, NextBlock
<1>4. ~(n < m)
  BY <1>1, <1>2, NextBlock
<1> QED
  BY <1>1, <1>3, <1>4 DEF m
-----------------------------------------------------------------------------
(* Blocks *)

LEMMA BlockFields ==
    ASSUME NEW f \in Families, NEW c \in Blocks(f)
    PROVE  /\ c.family = f /\ c.host \in 0 .. Width[f] /\ c.net \in Nat
           /\ c.net <= Pow2[Width[f] - c.host] - 1
           /\ Width[f] \in Nat
<1>1. Width[f] \in Nat
  BY WidthAssumption DEF WidthAssumption
<1>2. PICK h \in 0 .. Width[f] :
         \E n \in 0 .. Pow2[Width[f] - h] - 1 : c = [family |-> f, net |-> n, host |-> h]
  BY DEF Blocks
<1>3. Pow2[Width[f] - h] \in Nat
  BY <1>1, <1>2, Pow2Def
<1> QED
  BY <1>1, <1>2, <1>3

LEMMA IsBlock ==
    ASSUME NEW f \in Families, NEW h \in 0 .. Width[f], NEW n \in Nat,
           n < Pow2[Width[f] - h]
    PROVE  [family |-> f, net |-> n, host |-> h] \in Blocks(f)
<1>1. Width[f] \in Nat
  BY WidthAssumption DEF WidthAssumption
<1>2. n \in 0 .. Pow2[Width[f] - h] - 1
  BY <1>1, Pow2Def
<1> QED
  BY <1>2 DEF Blocks

\* All addresses of a block are addresses of its family.
LEMMA BlockBounds ==
    ASSUME NEW f \in Families, NEW c \in Blocks(f)
    PROVE  /\ First(c) \in Nat /\ Last(c) \in Nat
           /\ First(c) <= Last(c) /\ Last(c) <= Pow2[Width[f]] - 1
<1>1. /\ c.host \in 0 .. Width[f] /\ c.net \in Nat /\ Width[f] \in Nat
      /\ c.net <= Pow2[Width[f] - c.host] - 1
  BY BlockFields
<1> DEFINE a == Pow2[Width[f] - c.host]
           b == Pow2[c.host]
<1>2. a \in Nat \ {0} /\ b \in Nat \ {0} /\ Pow2[Width[f]] \in Nat
  BY <1>1, Pow2Def
<1>3. a * b = Pow2[Width[f]]
  <2>1. /\ Width[f] - c.host \in Nat /\ c.host \in Nat
        /\ (Width[f] - c.host) + c.host = Width[f]
    BY <1>1
  <2>2. a * b = Pow2[(Width[f] - c.host) + c.host]
    BY <2>1, Pow2Product
  <2> QED
    BY <2>1, <2>2
<1>4. c.net < a
  BY <1>1, <1>2
<1> HIDE DEF a, b
<1>5. c.net * b + b <= a * b /\ c.net * b \in Nat
  BY <1>1, <1>2, <1>4, NextBlock
<1>6. First(c) = c.net * b /\ Last(c) = c.net * b + b - 1
  BY DEF First, Last, b
<1> QED
  BY <1>2, <1>3, <1>5, <1>6
-----------------------------------------------------------------------------
(* The bounds of a set of blocks *)

LEMMA MinNumber ==
    ASSUME NEW T \in SUBSET Nat, T # {}
    PROVE  Min(T) \in T /\ \A y \in T : Min(T) <= y
BY LeastNumber DEF Min

LEMMA MaxNumber ==
    ASSUME NEW T \in SUBSET Nat, T # {}, NEW bound \in Nat, \A y \in T : y <= bound
    PROVE  Max(T) \in T /\ \A y \in T : y <= Max(T)
<1> DEFINE U == {bound - y : y \in T}
<1>1. U \in SUBSET Nat /\ U # {}
  <2>1. \A y \in T : bound - y \in Nat
    OBVIOUS
  <2> QED
    BY <2>1
<1>2. PICK u \in U : \A v \in U : u <= v
  BY <1>1, LeastNumber
<1>3. PICK x \in T : u = bound - x
  BY <1>2
<1>4. \A y \in T : bound - x <= bound - y
  BY <1>2, <1>3
<1>5. \A y \in T : x >= y
  BY <1>4
<1>6. \E z \in T : \A y \in T : z >= y
  BY <1>5
<1>7. Max(T) \in T /\ \A y \in T : Max(T) >= y
  BY <1>6 DEF Max
<1> QED
  BY <1>7

\* The lowest and the highest address are those of two of the blocks.
LEMMA Bounds ==
    ASSUME NEW f \in Families, NEW cidrs \in SUBSET Blocks(f), cidrs # {}
    PROVE  /\ Lowest(cidrs) \in Nat /\ Highest(cidrs) \in Nat
           /\ Lowest(cidrs) <= Highest(cidrs) /\ Highest(cidrs) <= Pow2[Width[f]] - 1
           /\ \A c \in cidrs : Lowest(cidrs) <= First(c) /\ Last(c) <= Highest(cidrs)
           /\ \E c \in cidrs : Lowest(cidrs) = First(c)
           /\ \E c \in cidrs : Highest(cidrs) = Last(c)
<1> DEFINE L == {First(c) : c \in cidrs}
           H == {Last(c) : c \in cidrs}
<1>1. \A c \in cidrs : /\ First(c) \in Nat /\ Last(c) \in Nat
                       /\ First(c) <= Last(c) /\ Last(c) <= Pow2[Width[f]] - 1
  BY BlockBounds
<1>2. Pow2[Width[f]] \in Nat \ {0}
  BY WidthAssumption, Pow2Def DEF WidthAssumption
<1>3. L \in SUBSET Nat /\ H \in SUBSET Nat /\ L # {} /\ H # {}
  BY <1>1
<1>4. Min(L) \in L /\ \A y \in L : Min(L) <= y
  BY <1>3, MinNumber
<1>5. Max(H) \in H /\ \A y \in H : y <= Max(H)
  <2> DEFINE top == Pow2[Width[f]] - 1
  <2>1. top \in Nat /\ \A y \in H : y <= top
    BY <1>1, <1>2
  <2> HIDE DEF top, H
  <2> QED
    BY <1>3, <2>1, MaxNumber
<1>6. Lowest(cidrs) = Min(L) /\ Highest(cidrs) = Max(H)
  BY DEF Lowest, Highest
<1>7. PICK b \in cidrs : Min(L) = First(b)
  BY <1>4
<1>8. PICK d \in cidrs : Max(H) = Last(d)
  BY <1>5
<1>9. Last(b) <= Max(H)
  BY <1>5
<1>10. \A c \in cidrs : Min(L) <= First(c) /\ Last(c) <= Max(H)
  BY <1>4, <1>5
<1> HIDE DEF L, H
<1> QED
  BY <1>1, <1>2, <1>6, <1>7, <1>8, <1>9, <1>10
-----------------------------------------------------------------------------
(***************************************************************************)
(* The supernet of the CIDRs of a family, if there are any, is a block of  *)
(* the family that encloses them all, and no block of fewer addresses      *)
(* does: for every address width, the whole address space included         *)
(* (computeSupernets: "the smallest CIDR block containing every one of     *)
(* that family's input CIDRs in full").                                    *)
(***************************************************************************)
THEOREM SupernetIsSmallest ==
    ASSUME NEW f \in Families, NEW cidrs \in SUBSET Blocks(f), cidrs # {}
    PROVE  SmallestEnclosing(Supernet(f, cidrs), f, cidrs)
<1> DEFINE lo == Lowest(cidrs)
           hi == Highest(cidrs)
           N == {n \in 0 .. Width[f] : AgreeAbove(lo, hi, n)}
           n == Min(N)
           b == Supernet(f, cidrs)
<1>1. /\ lo \in Nat /\ hi \in Nat /\ lo <= hi /\ hi <= Pow2[Width[f]] - 1
      /\ \A c \in cidrs : lo <= First(c) /\ Last(c) <= hi
      /\ \E c \in cidrs : lo = First(c)
      /\ \E c \in cidrs : hi = Last(c)
  BY Bounds
<1>2. Width[f] \in Nat
  BY WidthAssumption DEF WidthAssumption
<1>3. b = [family |-> f, net |-> lo \div Pow2[n], host |-> n]
  BY DEF Supernet, DiffBitLen
<1> HIDE DEF lo, hi, b
<1>4. n \in N /\ \A m \in N : n <= m
  <2>1. lo \div Pow2[Width[f]] = 0 /\ hi \div Pow2[Width[f]] = 0
    <3>1. Pow2[Width[f]] \in Nat \ {0}
      BY <1>2, Pow2Def
    <3>2. 0 * Pow2[Width[f]] = 0
      BY <3>1
    <3>3. lo <= 0 * Pow2[Width[f]] + Pow2[Width[f]] - 1 /\ hi <= 0 * Pow2[Width[f]] + Pow2[Width[f]] - 1
      BY <1>1, <3>1, <3>2
    <3> QED
      BY <1>1, <3>1, <3>2, <3>3, QuotientUnique
  <2>2. Width[f] \in N /\ N \in SUBSET Nat
    BY <1>2, <2>1 DEF AgreeAbove
  <2> QED
    BY <2>2, MinNumber
<1>5. n \in 0 .. Width[f] /\ AgreeAbove(lo, hi, n)
  BY <1>4
<1> HIDE DEF n
<1>6. Pow2[n] \in Nat \ {0} /\ Pow2[Width[f] - n] \in Nat \ {0} /\ Width[f] - n \in Nat /\ n \in Nat
  BY <1>2, <1>5, Pow2Def
<1> DEFINE net == lo \div Pow2[n]
<1>7. /\ net \in Nat /\ net * Pow2[n] <= lo /\ hi <= net * Pow2[n] + Pow2[n] - 1
  BY <1>1, <1>5, <1>6, Quotient DEF AgreeAbove
<1> HIDE DEF net
<1>8. b \in Blocks(f)
  <2>1. SUFFICES ASSUME ~(net < Pow2[Width[f] - n]) PROVE FALSE
    BY <1>3, <1>5, <1>7, IsBlock DEF net
  <2>2. Pow2[Width[f] - n] * Pow2[n] = Pow2[Width[f]]
    <3>1. (Width[f] - n) + n = Width[f]
      BY <1>2, <1>6
    <3>2. Pow2[Width[f] - n] * Pow2[n] = Pow2[(Width[f] - n) + n]
      BY <1>6, Pow2Product
    <3> QED
      BY <3>1, <3>2
  <2>3. Pow2[Width[f] - n] * Pow2[n] <= net * Pow2[n]
    <3>1. CASE net = Pow2[Width[f] - n]
      BY <1>6, <1>7, <3>1
    <3>2. CASE Pow2[Width[f] - n] < net
      <4>1. Pow2[Width[f] - n] * Pow2[n] + Pow2[n] <= net * Pow2[n]
        BY <1>6, <1>7, <3>2, NextBlock
      <4> QED
        BY <1>6, <1>7, <4>1
    <3> QED
      BY <1>6, <1>7, <2>1, <3>1, <3>2
  <2> QED
    BY <1>1, <1>6, <1>7, <2>2, <2>3
<1>9. First(b) = net * Pow2[n] /\ Last(b) = net * Pow2[n] + Pow2[n] - 1
  BY <1>3 DEF First, Last, net
<1>10. ASSUME NEW c \in cidrs PROVE Encloses(b, c)
  <2>1. First(c) \in Nat /\ Last(c) \in Nat
    BY BlockBounds
  <2> QED
    BY <1>1, <1>6, <1>7, <1>9, <2>1 DEF Encloses
<1>11. ASSUME NEW d \in Blocks(f), \A c \in cidrs : Encloses(d, c) PROVE b.host <= d.host
  <2>1. d.host \in 0 .. Width[f] /\ d.net \in Nat /\ Pow2[d.host] \in Nat \ {0}
    BY <1>2, BlockFields, Pow2Def
  <2>2. First(d) <= lo /\ hi <= Last(d)
    BY <1>1, <1>11 DEF Encloses
  <2>3. /\ d.net * Pow2[d.host] <= lo /\ hi <= d.net * Pow2[d.host] + Pow2[d.host] - 1
    BY <2>2 DEF First, Last
  <2>4. d.net * Pow2[d.host] \in Nat
    BY <2>1
  <2>5. d.net * Pow2[d.host] <= hi /\ lo <= d.net * Pow2[d.host] + Pow2[d.host] - 1
    BY <1>1, <2>1, <2>3, <2>4
  <2>6. lo \div Pow2[d.host] = d.net /\ hi \div Pow2[d.host] = d.net
    BY <1>1, <2>1, <2>3, <2>5, QuotientUnique
  <2>7. d.host \in N
    BY <2>1, <2>6 DEF AgreeAbove
  <2> QED
    BY <1>3, <1>4, <2>7
<1> QED
  BY <1>8, <1>10, <1>11 DEF SmallestEnclosing, b
=============================================================================
