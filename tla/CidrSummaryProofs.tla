-------------------------- MODULE CidrSummaryProofs --------------------------
(***************************************************************************)
(* Proofs about CidrSummary for addresses of any width and any inputs: no  *)
(* address changes sides, what is left for disjoint routes is minimal, the *)
(* passes end, and only routes that cover everything stop the program.     *)
(***************************************************************************)
EXTENDS CidrSummary, FiniteSetTheorems, WellFoundedInduction, TLAPS

-----------------------------------------------------------------------------
(* Powers of two. *)

LEMMA Smallest ==
  ASSUME NEW T \in SUBSET Nat, T # {}
  PROVE  \E m \in T : \A k \in T : m <= k
<1>1. PICK m \in T : \A k \in T : ~(<<k, m>> \in OpToRel(<, Nat))
  BY NatLessThanWellFounded, WFMin
<1>2. \A k \in T : ~(k < m)
  BY <1>1 DEF OpToRel
<1>3. QED
  BY <1>2

LEMMA InductiveSet ==
  ASSUME NEW T \in SUBSET Nat, 0 \in T, \A n \in T : n + 1 \in T
  PROVE  T = Nat
<1> SUFFICES ASSUME Nat \ T # {} PROVE FALSE
  OBVIOUS
<1>1. PICK m \in Nat \ T : \A k \in Nat \ T : m <= k
  BY Smallest
<1>2. m # 0 /\ m - 1 \in T
  BY <1>1
<1>3. QED
  BY <1>1, <1>2

\* The prover knows 2 ^ n only as the number of subsets of n things.
LEMMA SubsetsOf ==
  ASSUME NEW n \in Nat
  PROVE  /\ IsFiniteSet(SUBSET (1..n))
         /\ 2 ^ n \in Nat /\ 2 ^ n = Cardinality(SUBSET (1..n))
<1>1. IsFiniteSet(1..n) /\ Cardinality(1..n) = n
  BY FS_Interval
<1>2. /\ IsFiniteSet(SUBSET (1..n))
      /\ Cardinality(SUBSET (1..n)) = 2 ^ Cardinality(1..n)
  BY <1>1, FS_SUBSET
<1>3. Cardinality(SUBSET (1..n)) \in Nat
  BY <1>2, FS_CardinalityType
<1>4. 2 ^ Cardinality(1..n) = 2 ^ n
  BY <1>1
<1> QED BY <1>2, <1>3, <1>4

LEMMA DisjointUnion ==
  ASSUME NEW S, NEW T, IsFiniteSet(S), IsFiniteSet(T), S \cap T = {}
  PROVE  Cardinality(S \cup T) = Cardinality(S) + Cardinality(T)
<1>1. Cardinality(S) \in Nat /\ Cardinality(T) \in Nat
  BY FS_CardinalityType
<1>2. Cardinality(S \cap T) = 0
  BY FS_EmptySet
<1>3. Cardinality(S \cup T) = Cardinality(S) + Cardinality(T) - Cardinality(S \cap T)
  BY FS_Union
<1>4. QED
  BY <1>1, <1>2, <1>3

LEMMA Doubling ==
  ASSUME NEW n \in Nat
  PROVE  2 ^ (n + 1) = 2 * 2 ^ n
<1> DEFINE Old == SUBSET (1..n)
           New == {T \in SUBSET (1..(n + 1)) : n + 1 \in T}
           f == [T \in Old |-> T \cup {n + 1}]
<1>1. 1..(n + 1) = (1..n) \cup {n + 1} /\ n + 1 \notin 1..n
  OBVIOUS
<1>2. SUBSET (1..(n + 1)) = Old \cup New /\ Old \cap New = {}
  BY <1>1
<1>3. f \in Bijection(Old, New)
  <2>1. f \in [Old -> New]
    BY <1>1
  <2>2. \A S, T \in Old : f[S] = f[T] => S = T
    <3> SUFFICES ASSUME NEW S \in Old, NEW T \in Old, S \cup {n + 1} = T \cup {n + 1}
                 PROVE  S = T
      OBVIOUS
    <3> QED BY <1>1
  <2>3. \A T \in New : f[T \ {n + 1}] = T /\ T \ {n + 1} \in Old
    BY <1>1
  <2>4. QED
    BY <2>1, <2>2, <2>3 DEF Bijection, Injection, IsInjective, Surjection
<1>4. IsFiniteSet(New) /\ Cardinality(New) = Cardinality(Old)
  BY <1>3, SubsetsOf, FS_Bijection DEF ExistsBijection
<1>5. /\ Cardinality(Old) \in Nat
      /\ Cardinality(Old \cup New) = Cardinality(Old) + Cardinality(New)
  <2>1. IsFiniteSet(Old) /\ Cardinality(Old) \in Nat
    BY SubsetsOf, FS_CardinalityType
  <2>3. QED
    BY <1>2, <1>4, <2>1, DisjointUnion
<1>6. n + 1 \in Nat
  OBVIOUS
<1>7. 2 ^ (n + 1) = Cardinality(SUBSET (1..(n + 1))) /\ 2 ^ n = Cardinality(Old) /\ 2 ^ n \in Nat
  BY <1>6, SubsetsOf
<1>8. Cardinality(SUBSET (1..(n + 1))) = Cardinality(Old \cup New)
  BY <1>2
<1> HIDE DEF Old, New
<1>9. QED
  BY <1>4, <1>5, <1>7, <1>8

LEMMA Powers ==
  /\ 2 ^ 0 = 1
  /\ \A n \in Nat : 2 ^ n \in Nat \ {0} /\ 2 ^ (n + 1) = 2 * 2 ^ n
<1> DEFINE T == {n \in Nat : 2 ^ n # 0}
<1>1. 2 ^ 0 = 1
  OBVIOUS
<1>2. \A n \in Nat : 2 ^ n \in Nat /\ 2 ^ (n + 1) = 2 * 2 ^ n
  BY SubsetsOf, Doubling
<1>3. \A n \in T : n + 1 \in T
  BY <1>2
<1>4. T = Nat
  <2> HIDE DEF T
  <2>1. 0 \in T /\ T \in SUBSET Nat
    BY <1>1 DEF T
  <2>2. QED
    BY <2>1, <1>3, InductiveSet
<1>5. QED
  BY <1>1, <1>2, <1>4

\* The larger of two powers is a multiple of the smaller.
LEMMA PowerDivides ==
  ASSUME NEW k \in Nat, NEW d \in Nat
  PROVE  \E q \in Nat \ {0} : 2 ^ (k + d) = q * 2 ^ k
<1> DEFINE T == {n \in Nat : \E q \in Nat \ {0} : 2 ^ (k + n) = q * 2 ^ k}
<1>1. 0 \in T
  <2>1. k + 0 = k /\ 2 ^ k \in Nat
    BY Powers
  <2>2. 2 ^ (k + 0) = 1 * 2 ^ k
    BY <2>1
  <2>3. QED
    BY <2>2
<1>2. ASSUME NEW n \in T PROVE n + 1 \in T
  <2>1. PICK q \in Nat \ {0} : 2 ^ (k + n) = q * 2 ^ k
    OBVIOUS
  <2>2. k + n \in Nat /\ k + (n + 1) = (k + n) + 1 /\ 2 ^ k \in Nat
    BY Powers
  <2>3. 2 ^ (k + (n + 1)) = 2 * 2 ^ (k + n)
    BY <2>2, Powers
  <2>4. 2 * (q * 2 ^ k) = (2 * q) * 2 ^ k
    BY <2>2
  <2>5. 2 * q \in Nat \ {0} /\ n + 1 \in Nat
    OBVIOUS
  <2>6. QED
    BY <2>1, <2>3, <2>4, <2>5
<1>3. T = Nat
  <2>1. T \in SUBSET Nat
    OBVIOUS
  <2> HIDE DEF T
  <2>2. QED
    BY <1>1, <1>2, <2>1, InductiveSet
<1>4. d \in T
  <2> HIDE DEF T
  <2> QED BY <1>3
<1>5. QED
  BY <1>4

\* A multiple of s below another one is at least s below it.
LEMMA NextMultiple ==
  ASSUME NEW s \in Nat \ {0}, NEW q \in Nat, NEW a \in Nat, a % s = 0, a < q * s
  PROVE  a + s <= q * s
<1> DEFINE m == a \div s
<1>1. m \in Nat /\ a = s * m
  OBVIOUS
<1>2. m < q
  <2> SUFFICES ASSUME q <= m PROVE FALSE
    BY <1>1
  <2> HIDE DEF m
  <2>1. q * s <= m * s
    BY <1>1
  <2>2. QED
    BY <1>1, <2>1
<1>3. (m + 1) * s <= q * s
  <2> HIDE DEF m
  <2> QED BY <1>1, <1>2
<1>4. (m + 1) * s = a + s
  <2> HIDE DEF m
  <2> QED BY <1>1
<1>5. QED
  BY <1>3, <1>4

-----------------------------------------------------------------------------
(* Blocks. *)

Span(b) == 2 ^ (W - b.prefix)

LEMMA BlockType ==
  ASSUME NEW b \in Blocks
  PROVE  /\ W \in Nat \ {0} /\ b.prefix \in Nat /\ b.prefix <= W
         /\ W - b.prefix \in Nat
         /\ Wrap \in Nat \ {0} /\ b.start \in Nat /\ b.start < Wrap
         /\ Span(b) \in Nat \ {0} /\ b.start % Span(b) = 0
<1>1. W \in Nat \ {0} /\ Wrap \in Nat \ {0}
  BY SummaryAssumption, Powers DEF Wrap
<1>2. b.prefix \in 0..W /\ b.start \in 0..(Wrap - 1) /\ b.start % Span(b) = 0
  BY DEF Blocks, Addresses, Lengths, Span
<1>3. W - b.prefix \in Nat
  BY <1>1, <1>2
<1>4. QED
  BY <1>1, <1>2, <1>3, Powers DEF Span

\* The whole space is a number of blocks of the length of b.
LEMMA Whole ==
  ASSUME NEW b \in Blocks
  PROVE  /\ \E q \in Nat \ {0} : Wrap = q * Span(b)
         /\ b.prefix # 0 => \E q \in Nat \ {0} : Wrap = q * (2 * Span(b))
         /\ b.prefix = 1 => Wrap = 2 * Span(b)
         /\ b.prefix \notin {0, 1} => 2 * Span(b) < Wrap
         /\ b.prefix # 0 => Span(b) < Wrap
<1> DEFINE k == W - b.prefix
<1>1. k \in Nat /\ b.prefix \in Nat /\ k + b.prefix = W /\ Span(b) \in Nat \ {0}
  BY BlockType
<1>2. Span(b) = 2 ^ k
  BY DEF Span
<1>3. 2 ^ (k + b.prefix) = Wrap
  BY <1>1 DEF Wrap
<1> HIDE DEF k
<1>4. PICK q \in Nat \ {0} : Wrap = q * Span(b)
  BY ZenonT(30), <1>1, <1>2, <1>3, PowerDivides
<1>5. ASSUME b.prefix # 0
      PROVE  \E p \in Nat \ {0} : Wrap = p * (2 * Span(b)) /\ (b.prefix # 1 => p # 1)
                                  /\ (b.prefix = 1 => p = 1)
  <2>1. k + 1 \in Nat /\ b.prefix - 1 \in Nat /\ (k + 1) + (b.prefix - 1) = k + b.prefix
    BY <1>1, <1>5
  <2>2. 2 ^ (k + 1) = 2 * Span(b)
    BY <1>1, <1>2, Powers
  <2>3. CASE b.prefix = 1
    BY <1>1, <1>3, <2>2, <2>3
  <2>4. CASE b.prefix # 1
    <3>1. (k + 1) + 1 \in Nat /\ b.prefix - 2 \in Nat
          /\ ((k + 1) + 1) + (b.prefix - 2) = k + b.prefix
      BY <1>1, <1>5, <2>4
    <3>2. 2 ^ ((k + 1) + 1) = 2 * (2 * Span(b))
      BY <2>1, <2>2, Powers
    <3> DEFINE m == (k + 1) + 1
                d == b.prefix - 2
    <3>3. PICK p \in Nat \ {0} : Wrap = p * 2 ^ ((k + 1) + 1)
      <4>1. 2 ^ (m + d) = Wrap
        BY <3>1, <1>3
      <4>2. m \in Nat /\ d \in Nat
        BY <3>1
      <4> HIDE DEF m, d
      <4>3. \E p \in Nat \ {0} : Wrap = p * 2 ^ m
        BY <4>1, <4>2, PowerDivides
      <4>4. QED
        BY <4>3 DEF m
    <3>4. p * (2 * (2 * Span(b))) = (2 * p) * (2 * Span(b))
      BY <1>1
    <3>5. 2 * p \in Nat \ {0} /\ 2 * p # 1
      OBVIOUS
    <3>6. QED
      BY <2>4, <3>2, <3>3, <3>4, <3>5
  <2>5. QED
    BY <2>3, <2>4
<1>6. ASSUME b.prefix # 0, b.prefix # 1
      PROVE  2 * Span(b) < Wrap
  <2>1. PICK p \in Nat \ {0} : Wrap = p * (2 * Span(b)) /\ p # 1
    BY <1>5, <1>6
  <2>2. 2 * (2 * Span(b)) <= p * (2 * Span(b))
    BY <1>1, <2>1
  <2>3. QED
    BY <1>1, <2>1, <2>2
<1>7. b.prefix = 1 => Wrap = 2 * Span(b)
  BY <1>1, <1>5
<1>8. b.prefix # 0 => Span(b) < Wrap
  BY <1>1, <1>6, <1>7, BlockType
<1>9. QED
  BY <1>4, <1>5, <1>6, <1>7, <1>8

LEMMA Division ==
  ASSUME NEW a \in Nat, NEW y \in Nat \ {0}
  PROVE  /\ a \div y \in Nat /\ a % y \in Nat /\ a % y < y
         /\ a = y * (a \div y) + (a % y)
         /\ a < y => a % y = a
OBVIOUS

LEMMA HalvesOf ==
  ASSUME NEW x \in Nat \ {0}, NEW d \in Nat, NEW u \in Nat, NEW v \in Nat,
         NEW e \in Nat, NEW f \in Nat,
         x * u = (2 * x) * d + e, x * v = (2 * x) * d + f,
         e < f, f < 2 * x
  PROVE  e = 0 /\ f = x
<1>1. (2 * x) * d = x * (2 * d)
  OBVIOUS
<1> DEFINE g == u - 2 * d
           h == v - 2 * d
<1>2. g \in Int /\ h \in Int /\ u = 2 * d + g /\ v = 2 * d + h
  OBVIOUS
<1> HIDE DEF g, h
<1>3. x * u = x * (2 * d) + x * g /\ x * v = x * (2 * d) + x * h
  BY <1>2
<1>4. x * g \in Int /\ x * h \in Int /\ x * (2 * d) \in Int
  BY <1>2
<1>5. e = x * g /\ f = x * h
  BY <1>1, <1>3, <1>4
<1>6. g >= 0 /\ g < h /\ h < 2
  BY <1>2, <1>5
<1>7. g = 0 /\ h = 1
  BY <1>2, <1>6
<1>8. QED
  BY <1>5, <1>7

\* Two multiples of x in the same block of 2 * x are the halves of it.
LEMMA TwoMultiples ==
  ASSUME NEW x \in Nat \ {0}, NEW y, y = 2 * x, NEW p \in Nat, NEW q \in Nat,
         p < q, p % x = 0, q % x = 0, p \div y = q \div y
  PROVE  q = p + x /\ p % y = 0
<1> DEFINE u == p \div x
           v == q \div x
           d == p \div y
           e == p % y
           f == q % y
<1>1. y \in Nat \ {0}
  OBVIOUS
<1>2. u \in Nat /\ p = x * u
  BY Division
<1>3. v \in Nat /\ q = x * v
  BY Division
<1>4. d \in Nat /\ e \in Nat /\ p = y * d + e
  <2>1. \A z \in Nat \ {0} : /\ p \div z \in Nat /\ p % z \in Nat
                             /\ p = z * (p \div z) + (p % z)
    BY Division
  <2>2. QED
    BY <1>1, <2>1, Zenon
<1>5. f \in Nat /\ f < y /\ q = y * d + f
  <2>1. \A z \in Nat \ {0} : /\ q % z \in Nat /\ q % z < z
                             /\ q = z * (q \div z) + (q % z)
    BY Division
  <2>2. f \in Nat /\ f < y /\ q = y * (q \div y) + f
    BY <1>1, <2>1, Zenon
  <2> HIDE DEF f
  <2>3. QED
    BY <2>2
<1> HIDE DEF u, v, d, e, f
<1>6. x * u = (2 * x) * d + e /\ x * v = (2 * x) * d + f
  BY <1>2, <1>3, <1>4, <1>5
<1>7. y * d \in Nat
  BY <1>1, <1>4
<1>8. e < f /\ f < 2 * x
  BY <1>4, <1>5, <1>7
<1>9. e = 0 /\ f = x
  BY <1>2, <1>3, <1>4, <1>5, <1>6, <1>8, HalvesOf
<1>10. QED
  BY <1>4, <1>5, <1>7, <1>9 DEF e

\* What the words of the code hold: only the size of a half of the space wraps.
LEMMA Words ==
  ASSUME NEW b \in Blocks, b.prefix # 0
  PROVE  /\ Size(b.prefix) = Span(b)
         /\ ParentSize(b) = IF b.prefix = 1 THEN 0 ELSE 2 * Span(b)
<1>1. /\ Span(b) \in Nat \ {0} /\ Wrap \in Nat \ {0} /\ Span(b) < Wrap
      /\ b.prefix \in Nat /\ W \in Nat
  BY BlockType, Whole
<1>2. Size(b.prefix) = Span(b)
  <2>1. CASE b.prefix = W
    <3>1. W - b.prefix = 0
      BY <1>1, <2>1
    <3>2. QED
      BY <2>1, <3>1, Powers DEF Size, Span
  <2>2. CASE b.prefix # W
    <3>1. Span(b) % Wrap = Span(b)
      BY <1>1
    <3>2. QED
      BY <2>2, <3>1 DEF Size, Span
  <2>3. QED
    BY <2>1, <2>2
<1>3. CASE b.prefix = 1
  <2>1. Wrap % Wrap = 0
    BY <1>1
  <2>2. Wrap = Span(b) * 2
    BY <1>1, <1>3, Whole
  <2>3. QED
    BY <1>2, <1>3, <2>1, <2>2 DEF ParentSize
<1>4. CASE b.prefix # 1
  <2>1. Span(b) * 2 < Wrap
    BY <1>1, <1>4, Whole
  <2>2. (Span(b) * 2) % Wrap = Span(b) * 2
    BY <1>1, <2>1
  <2>3. QED
    BY <1>1, <1>2, <1>4, <2>2 DEF ParentSize
<1>5. QED
  BY <1>2, <1>3, <1>4

Mergeable(b, other) ==
  Adjacent(b, other) /\ ParentSize(b) # 0 /\ b.start % ParentSize(b) = 0

\* b and its follower are not the halves of a block.
Distinct(b, other) ==
  Adjacent(b, other) => ParentSize(b) # 0 /\ b.start % ParentSize(b) # 0

Parent(b) == [b EXCEPT !.prefix = @ - 1]

\* A merge yields the block of the two halves.
LEMMA Halves ==
  ASSUME NEW b \in Blocks, NEW other \in Blocks, Mergeable(b, other)
  PROVE  /\ Parent(b) \in Blocks
         /\ Covers(Parent(b)) = Covers(b) \cup Covers(other)
<1>1. /\ b.prefix # 0 /\ b.prefix # 1 /\ other.prefix = b.prefix
      /\ (b.start + Span(b)) % Wrap = other.start
      /\ b.start % (2 * Span(b)) = 0
  BY Words DEF Mergeable, Adjacent
<1>2. /\ Span(b) \in Nat \ {0} /\ Wrap \in Nat \ {0} /\ b.start \in Nat /\ b.start < Wrap
      /\ W \in Nat /\ b.prefix \in Nat /\ b.prefix <= W
  BY BlockType
<1>3. b.start + 2 * Span(b) <= Wrap
  <2>1. PICK q \in Nat \ {0} : Wrap = q * (2 * Span(b))
    BY <1>1, Whole
  <2>2. 2 * Span(b) \in Nat \ {0}
    BY <1>2
  <2>3. QED
    BY <1>1, <1>2, <2>1, <2>2, NextMultiple
<1>4. other.start = b.start + Span(b)
  <2>1. b.start + Span(b) < Wrap /\ b.start + Span(b) \in Nat
    BY <1>2, <1>3
  <2>2. (b.start + Span(b)) % Wrap = b.start + Span(b)
    BY <1>2, <2>1
  <2>3. QED
    BY <1>1, <2>2
<1>5. /\ Parent(b).start = b.start /\ Parent(b).prefix = b.prefix - 1
      /\ Parent(b) \in [start : Addresses, prefix : Lengths]
  BY <1>1, <1>2 DEF Parent, Blocks, Lengths, Addresses
<1>6. 2 ^ (W - (b.prefix - 1)) = 2 * Span(b)
  <2>1. W - b.prefix \in Nat /\ W - (b.prefix - 1) = (W - b.prefix) + 1
    BY <1>1, <1>2
  <2>2. QED
    BY <2>1, Powers DEF Span
<1>7. Parent(b) \in Blocks
  BY <1>1, <1>5, <1>6 DEF Blocks
<1>8. 2 ^ (W - other.prefix) = Span(b)
  BY <1>1 DEF Span
<1>9. /\ Covers(Parent(b)) = {a \in Addresses : b.start <= a /\ a < b.start + 2 * Span(b)}
      /\ Covers(b) = {a \in Addresses : b.start <= a /\ a < b.start + Span(b)}
      /\ Covers(other) = {a \in Addresses : b.start + Span(b) <= a
                                            /\ a < (b.start + Span(b)) + Span(b)}
  BY <1>4, <1>5, <1>6, <1>8 DEF Covers, Span
<1>10. \A a \in Addresses : a \in Nat
  BY <1>2 DEF Addresses
<1>11. QED
  BY <1>2, <1>7, <1>9, <1>10

-----------------------------------------------------------------------------
(* Sorting: in a finite set with a strict total order R every rank from 0   *)
(* to the last is that of exactly one element.                             *)

StrictOrder(S, R) ==
  /\ \A x \in S : <<x, x>> \notin R
  /\ \A x, y, z \in S : <<x, y>> \in R /\ <<y, z>> \in R => <<x, z>> \in R
  /\ \A x, y \in S : x # y => <<x, y>> \in R \/ <<y, x>> \in R

Below(S, R, x) == {y \in S : <<y, x>> \in R}

LEMMA Ranks ==
  ASSUME NEW S, IsFiniteSet(S), NEW R, StrictOrder(S, R)
  PROVE  /\ Cardinality(S) \in Nat
         /\ \A x \in S : Cardinality(Below(S, R, x)) \in 0..(Cardinality(S) - 1)
         /\ \A x, y \in S : <<x, y>> \in R <=>
              Cardinality(Below(S, R, x)) < Cardinality(Below(S, R, y))
         /\ \A n \in 0..(Cardinality(S) - 1) :
              \E x \in S : Cardinality(Below(S, R, x)) = n
<1> DEFINE rank == [x \in S |-> Cardinality(Below(S, R, x))]
<1>1. Cardinality(S) \in Nat
  BY FS_CardinalityType
<1>2. ASSUME NEW x \in S
      PROVE  /\ Below(S, R, x) \in SUBSET S /\ IsFiniteSet(Below(S, R, x))
             /\ Cardinality(Below(S, R, x)) \in 0..(Cardinality(S) - 1)
  <2>1. Below(S, R, x) \in SUBSET S /\ Below(S, R, x) # S
    BY DEF Below, StrictOrder
  <2>2. IsFiniteSet(Below(S, R, x)) /\ Cardinality(Below(S, R, x)) < Cardinality(S)
        /\ Cardinality(Below(S, R, x)) \in Nat
    <3>1. /\ IsFiniteSet(Below(S, R, x))
          /\ Cardinality(Below(S, R, x)) <= Cardinality(S)
          /\ Cardinality(S) = Cardinality(Below(S, R, x)) => S = Below(S, R, x)
      BY <2>1, FS_Subset
    <3>2. Cardinality(Below(S, R, x)) \in Nat
      BY <3>1, FS_CardinalityType
    <3>3. QED
      BY <1>1, <2>1, <3>1, <3>2
  <2>3. QED
    BY <1>1, <2>1, <2>2
<1>3. ASSUME NEW x \in S, NEW y \in S, <<x, y>> \in R
      PROVE  Cardinality(Below(S, R, x)) < Cardinality(Below(S, R, y))
  <2>1. Below(S, R, x) \in SUBSET Below(S, R, y)
    BY <1>3 DEF Below, StrictOrder
  <2>2. x \in Below(S, R, y) /\ x \notin Below(S, R, x)
    BY <1>3 DEF Below, StrictOrder
  <2>3. /\ Cardinality(Below(S, R, x)) <= Cardinality(Below(S, R, y))
        /\ Cardinality(Below(S, R, y)) = Cardinality(Below(S, R, x))
             => Below(S, R, y) = Below(S, R, x)
    BY <1>2, <2>1, FS_Subset
  <2>4. QED
    BY <1>1, <1>2, <2>2, <2>3
<1>4. ASSUME NEW x \in S, NEW y \in S,
             Cardinality(Below(S, R, x)) < Cardinality(Below(S, R, y))
      PROVE  <<x, y>> \in R
  <2>1. x # y
    BY <1>1, <1>2, <1>4
  <2>2. CASE <<y, x>> \in R
    <3>1. Cardinality(Below(S, R, y)) < Cardinality(Below(S, R, x))
      BY <1>3, <2>2
    <3>2. /\ Cardinality(Below(S, R, x)) \in Nat /\ Cardinality(Below(S, R, y)) \in Nat
      BY <1>1, <1>2
    <3>3. QED
      BY <1>4, <3>1, <3>2
  <2>3. QED
    BY <2>1, <2>2 DEF StrictOrder
<1>5. rank \in Injection(S, 0..(Cardinality(S) - 1))
  <2>1. rank \in [S -> 0..(Cardinality(S) - 1)]
    BY <1>2
  <2>2. ASSUME NEW x \in S, NEW y \in S, rank[x] = rank[y] PROVE x = y
    <3> SUFFICES ASSUME x # y PROVE FALSE
      OBVIOUS
    <3>1. Cardinality(Below(S, R, x)) = Cardinality(Below(S, R, y))
          /\ Cardinality(Below(S, R, x)) \in Nat
      BY <1>1, <1>2, <2>2
    <3>2. <<x, y>> \in R \/ <<y, x>> \in R
      BY DEF StrictOrder
    <3>3. QED
      BY <1>3, <3>1, <3>2
  <2>3. QED
    BY <2>1, <2>2 DEF Injection, IsInjective
<1>6. rank \in Surjection(S, 0..(Cardinality(S) - 1))
  <2>1. /\ IsFiniteSet(0..(Cardinality(S) - 1))
        /\ Cardinality(0..(Cardinality(S) - 1)) = Cardinality(S)
    <3>1. 0 \in Int /\ Cardinality(S) - 1 \in Int
      BY <1>1
    <3>2. QED
      BY <1>1, <3>1, FS_Interval
  <2> HIDE DEF rank
  <2>2. QED
    BY <1>5, <2>1, FS_Injection
<1>7. \A n \in 0..(Cardinality(S) - 1) : \E x \in S : rank[x] = n
  BY <1>6 DEF Surjection
<1>8. QED
  BY <1>1, <1>2, <1>3, <1>4, <1>7

LEMMA BlocksFinite == IsFiniteSet(Blocks)
<1> DEFINE f == [b \in Blocks |-> <<b.start, b.prefix>>]
<1>1. W \in Nat /\ Wrap \in Nat
  BY SummaryAssumption, Powers DEF Wrap
<1>2. IsFiniteSet(Addresses \X Lengths)
  <2>1. IsFiniteSet(Addresses)
    <3>1. 0 \in Int /\ Wrap - 1 \in Int
      BY <1>1
    <3>2. QED
      BY <3>1, FS_Interval DEF Addresses
  <2>2. IsFiniteSet(Lengths)
    BY <1>1, FS_Interval DEF Lengths
  <2>3. QED
    BY <2>1, <2>2, FS_Product
<1>3. f \in Injection(Blocks, Addresses \X Lengths)
  <2>1. f \in [Blocks -> Addresses \X Lengths]
    BY DEF Blocks
  <2>2. \A a, b \in Blocks : a.start = b.start /\ a.prefix = b.prefix => a = b
    BY DEF Blocks
  <2>3. \A a, b \in Blocks : f[a] = f[b] => a = b
    BY <2>2
  <2>4. QED
    BY <2>1, <2>3 DEF Injection, IsInjective
<1>4. QED
  BY <1>2, <1>3, FS_Injection

LEMMA BeforeOrders ==
  /\ \A a \in Blocks : ~Before(a, a)
  /\ \A a, b, c \in Blocks : Before(a, b) /\ Before(b, c) => Before(a, c)
  /\ \A a, b \in Blocks : a # b => Before(a, b) \/ Before(b, a)
<1>1. \A a \in Blocks : a.start \in Nat /\ a.prefix \in Nat
  BY BlockType
<1>2. \A a, b \in Blocks : a.start = b.start /\ a.prefix = b.prefix => a = b
  BY DEF Blocks
<1>3. QED
  BY <1>1, <1>2 DEF Before

\* The list the first pass begins with holds the blocks of the argument.
LEMMA ListOfAll ==
  ASSUME NEW S \in SUBSET Blocks
  PROVE  /\ InOrder(S) \in Seq(Blocks) /\ Range(InOrder(S)) = S
         /\ \A m, n \in DOMAIN InOrder(S) : m # n => InOrder(S)[m] # InOrder(S)[n]
<1> DEFINE R == {p \in S \X S : Before(p[1], p[2])}
           C == Cardinality(S)
           rank(b) == Cardinality({a \in S : Before(a, b)})
<1>1. IsFiniteSet(S)
  BY BlocksFinite, FS_Subset
<1>2. StrictOrder(S, R)
  BY BeforeOrders DEF StrictOrder
<1>3. \A b \in S : rank(b) = Cardinality(Below(S, R, b))
  <2>1. \A b \in S : Below(S, R, b) = {a \in S : Before(a, b)}
    BY DEF Below
  <2>2. QED
    BY <2>1
<1>6. InOrder(S) = [n \in 1..C |-> CHOOSE b \in S : n - 1 = rank(b)]
  BY DEF InOrder
<1> HIDE DEF R, rank
<1>4. /\ C \in Nat
      /\ \A b \in S : rank(b) \in 0..(C - 1)
      /\ \A a, b \in S : <<a, b>> \in R <=>
           rank(a) < rank(b)
      /\ \A n \in 0..(C - 1) : \E b \in S : rank(b) = n
  <2>1. /\ C \in Nat
        /\ \A b \in S : Cardinality(Below(S, R, b)) \in 0..(C - 1)
        /\ \A a, b \in S : <<a, b>> \in R <=>
             Cardinality(Below(S, R, a)) < Cardinality(Below(S, R, b))
        /\ \A n \in 0..(C - 1) : \E b \in S : Cardinality(Below(S, R, b)) = n
    BY <1>1, <1>2, Ranks
  <2>2. QED
    BY <1>3, <2>1
<1>5. \A a, b \in S : rank(a) = rank(b) => a = b
  BY <1>2, <1>4 DEF StrictOrder
<1> HIDE DEF C
<1>7. \A n \in 1..C : InOrder(S)[n] \in S /\ n - 1 = rank(InOrder(S)[n])
  <2> SUFFICES ASSUME NEW n \in 1..C
               PROVE  InOrder(S)[n] \in S /\ n - 1 = rank(InOrder(S)[n])
    OBVIOUS
  <2>1. n - 1 \in 0..(C - 1)
    BY <1>4
  <2>2. \E b \in S : n - 1 = rank(b)
    BY <1>4, <2>1
  <2>3. QED
    BY <1>6, <2>2
<1>8. DOMAIN InOrder(S) = 1..C
  BY <1>6
<1>9. InOrder(S) \in Seq(Blocks)
  <2>1. InOrder(S) \in [1..C -> Blocks]
    BY <1>6, <1>7
  <2>2. QED
    BY <1>4, <2>1
<1>10. S \subseteq Range(InOrder(S))
  <2> SUFFICES ASSUME NEW b \in S PROVE b \in Range(InOrder(S))
    OBVIOUS
  <2>1. rank(b) + 1 \in 1..C
        /\ (rank(b) + 1) - 1 = rank(b)
    BY <1>4
  <2>2. b = InOrder(S)[rank(b) + 1]
    BY <1>5, <1>7, <2>1
  <2>3. QED
    BY <1>8, <2>1, <2>2 DEF Range
<1>11. Range(InOrder(S)) \subseteq S
  BY <1>7, <1>8 DEF Range
<1>12. \A m, n \in 1..C : m # n => InOrder(S)[m] # InOrder(S)[n]
  BY <1>4, <1>7
<1>13. QED
  BY <1>8, <1>9, <1>10, <1>11, <1>12

\* sort.Slice permutes the list and leaves none behind one that is greater.
LEMMA SortPermutes ==
  ASSUME NEW s \in Seq(Blocks)
  PROVE  \E place \in Bijection(1..Len(s), 1..Len(s)) :
           /\ Sorted(s) = [n \in 1..Len(s) |-> s[place[n]]]
           /\ \A m, n \in 1..Len(s) : m < n => ~Before(s[place[n]], s[place[m]])
<1> DEFINE D == DOMAIN s
           Ahead(k, j) == Before(s[k], s[j]) \/ (s[k] = s[j] /\ k < j)
           R == {p \in D \X D : Ahead(p[1], p[2])}
           rank(j) == Cardinality({k \in D : Before(s[k], s[j]) \/ (s[k] = s[j] /\ k < j)})
           place == [n \in D |-> CHOOSE j \in D : n - 1 = rank(j)]
<1>1. Len(s) \in Nat /\ D = 1..Len(s) /\ \A k \in D : s[k] \in Blocks
  OBVIOUS
<1>2. IsFiniteSet(D) /\ Cardinality(D) = Len(s)
  <2>1. IsFiniteSet(1..Len(s)) /\ Cardinality(1..Len(s)) = Len(s)
    BY SMTT(20), <1>1, FS_Interval
  <2>2. QED
    BY <1>1, <2>1
<1>3. StrictOrder(D, R)
  <2>1. \A j \in D : ~Ahead(j, j)
    BY <1>1, BeforeOrders
  <2>2. ASSUME NEW k \in D, NEW l \in D, NEW j \in D, Ahead(k, l), Ahead(l, j)
        PROVE  Ahead(k, j)
    BY <1>1, <2>2, BeforeOrders
  <2>3. \A k, j \in D : k # j => Ahead(k, j) \/ Ahead(j, k)
    BY <1>1, BeforeOrders
  <2> HIDE DEF Ahead
  <2>4. QED
    BY <2>1, <2>2, <2>3 DEF StrictOrder
<1>4. \A j \in D : rank(j) = Cardinality(Below(D, R, j))
  <2>1. \A j \in D : Below(D, R, j) = {k \in D : Before(s[k], s[j]) \/ (s[k] = s[j] /\ k < j)}
    BY DEF Below
  <2>2. QED
    BY <2>1
<1>5. \A k, j \in D : Before(s[k], s[j]) => <<k, j>> \in R
  OBVIOUS
<1>6. Sorted(s) = [n \in D |-> s[place[n]]]
  BY DEF Sorted
<1> HIDE DEF R, rank
<1>7. /\ \A j \in D : rank(j) \in 0..(Len(s) - 1)
      /\ \A k, j \in D : <<k, j>> \in R <=> rank(k) < rank(j)
      /\ \A n \in 0..(Len(s) - 1) : \E j \in D : rank(j) = n
  <2>1. /\ \A j \in D : Cardinality(Below(D, R, j)) \in 0..(Len(s) - 1)
        /\ \A k, j \in D : <<k, j>> \in R <=>
             Cardinality(Below(D, R, k)) < Cardinality(Below(D, R, j))
        /\ \A n \in 0..(Len(s) - 1) : \E j \in D : Cardinality(Below(D, R, j)) = n
    <3> HIDE DEF D
    <3> QED BY <1>2, <1>3, Ranks
  <2>2. QED
    BY <1>4, <2>1
<1>8. \A k, j \in D : rank(k) = rank(j) => k = j
  BY <1>3, <1>7 DEF StrictOrder
<1>9. \A n \in D : place[n] \in D /\ n - 1 = rank(place[n])
  <2> SUFFICES ASSUME NEW n \in D PROVE place[n] \in D /\ n - 1 = rank(place[n])
    OBVIOUS
  <2>1. n - 1 \in 0..(Len(s) - 1)
    BY <1>1
  <2>2. \E j \in D : n - 1 = rank(j)
    BY <1>7, <2>1
  <2>3. QED
    BY <2>2
<1>10. place \in Bijection(D, D)
  <2>1. place \in [D -> D]
    BY <1>9
  <2>2. \A m, n \in D : place[m] = place[n] => m = n
    <3> HIDE DEF place
    <3> QED BY <1>1, <1>9
  <2>3. \A j \in D : \E n \in D : place[n] = j
    <3> SUFFICES ASSUME NEW j \in D PROVE \E n \in D : place[n] = j
      OBVIOUS
    <3>1. rank(j) + 1 \in D /\ (rank(j) + 1) - 1 = rank(j)
      BY <1>1, <1>7
    <3> HIDE DEF place
    <3>2. place[rank(j) + 1] = j
      BY <1>8, <1>9, <3>1
    <3>3. QED
      BY <3>1, <3>2
  <2>4. QED
    BY <2>1, <2>2, <2>3 DEF Bijection, Injection, IsInjective, Surjection
<1>11. ASSUME NEW m \in D, NEW n \in D, m < n
       PROVE  ~Before(s[place[n]], s[place[m]])
  <2> HIDE DEF place
  <2>0. m \in Nat /\ n \in Nat /\ m >= 1
    BY <1>1
  <2>1. rank(place[m]) < rank(place[n]) /\ rank(place[n]) \in Nat /\ rank(place[m]) \in Nat
    BY SMTT(20), <1>1, <1>7, <1>9, <1>11, <2>0
  <2>2. <<place[n], place[m]>> \notin R
    <3>1. ~(rank(place[n]) < rank(place[m]))
      BY <2>1
    <3>2. QED
      BY <1>7, <1>9, <3>1
  <2>3. QED
    BY <1>5, <1>9, <2>2
<1> HIDE DEF place
<1>12. QED
  BY <1>1, <1>6, <1>10, <1>11

-----------------------------------------------------------------------------
(* The inductive invariant. *)

Types ==
  /\ input \in SUBSET Blocks
  /\ blocks \in Seq(Blocks) /\ merged \in Seq(Blocks)
  /\ i \in Nat \ {0} /\ changed \in BOOLEAN
  /\ pc \in {"sort", "scan", "panic", "done"}
  /\ pc \in {"scan", "panic"} => i <= Len(blocks) + 1

Apart(s) == \A m, n \in DOMAIN s : m # n => Covers(s[m]) \cap Covers(s[n]) = {}

Ordered(s) == \A m, n \in DOMAIN s : m < n => ~Before(s[n], s[m])

\* None of the first n blocks of s can be merged with the next one.
NoPair(s, n) == \A k \in 1..n : k < Len(s) => Distinct(s[k], s[k + 1])

\* Disjoint routes stay so: what a pass has written, what it has still to read.
ApartInv ==
  Disjoint(input) =>
    /\ Apart(blocks)
    /\ pc = "scan" =>
         /\ Apart(merged)
         /\ \A m \in DOMAIN merged, k \in i..Len(blocks) :
              Covers(merged[m]) \cap Covers(blocks[k]) = {}

\* A pass that has changed nothing has copied a list without neighbours to merge.
PassInv ==
  /\ pc = "scan" =>
       /\ Ordered(blocks)
       /\ ~changed => merged = SubSeq(blocks, 1, i - 1) /\ NoPair(blocks, i - 1)
  /\ pc = "done" => Ordered(blocks) /\ NoPair(blocks, Len(blocks))

\* The program has stopped at two neighbours.
PanicInv ==
  pc = "panic" =>
    i < Len(blocks) /\ Adjacent(blocks[i], blocks[i + 1]) /\ ParentSize(blocks[i]) = 0

\* A block is written for each that is read, and one less for each merge.
CountInv ==
  pc = "scan" => Len(merged) <= i - 1 /\ (changed => Len(merged) < i - 1)

CidrInv == Types /\ CoverageKept /\ ApartInv /\ PassInv /\ PanicInv /\ CountInv

-----------------------------------------------------------------------------
(* Steps of the list. *)

LEMMA RangeAppend ==
  ASSUME NEW s \in Seq(Blocks), NEW b \in Blocks
  PROVE  /\ Append(s, b) \in Seq(Blocks) /\ Range(Append(s, b)) = Range(s) \cup {b}
         /\ Len(Append(s, b)) = Len(s) + 1 /\ DOMAIN Append(s, b) = 1..(Len(s) + 1)
         /\ DOMAIN s = 1..Len(s) /\ Len(s) \in Nat
         /\ \A n \in DOMAIN s : Append(s, b)[n] = s[n]
         /\ Append(s, b)[Len(s) + 1] = b
<1>1. /\ Append(s, b) \in Seq(Blocks) /\ DOMAIN s = 1..Len(s) /\ Len(s) \in Nat
      /\ DOMAIN Append(s, b) = 1..(Len(s) + 1) /\ Len(Append(s, b)) = Len(s) + 1
      /\ \A n \in DOMAIN s : Append(s, b)[n] = s[n]
      /\ Append(s, b)[Len(s) + 1] = b
  OBVIOUS
<1>2. 1..(Len(s) + 1) = (1..Len(s)) \cup {Len(s) + 1}
  BY <1>1
<1> DEFINE t == Append(s, b)
<1>3. t[Len(s) + 1] = b /\ \A n \in DOMAIN s : t[n] = s[n]
  BY <1>1
<1>4. DOMAIN t = DOMAIN s \cup {Len(s) + 1}
  BY <1>1, <1>2
<1> HIDE DEF t
<1>5. Range(t) = Range(s) \cup {b}
  BY <1>3, <1>4 DEF Range
<1>6. QED
  BY <1>1, <1>5 DEF t

\* The list from its j-th block on.
Left(s, j) == {s[k] : k \in j..Len(s)}

LEMMA RangeTail ==
  ASSUME NEW s \in Seq(Blocks), NEW j \in Nat \ {0}, j <= Len(s) + 1
  PROVE  Range(SubSeq(s, j, Len(s))) = Left(s, j)
<1> DEFINE t == SubSeq(s, j, Len(s))
           n == Len(s)
<1>1. n \in Nat /\ j <= n + 1
  OBVIOUS
<1>2. DOMAIN t = 1..(n - j + 1) /\ \A k \in 1..(n - j + 1) : t[k] = s[j + k - 1]
  <2>1. t = [k \in 1..(n - j + 1) |-> s[j + k - 1]]
    BY <1>1
  <2>2. QED
    BY <2>1
<1> HIDE DEF t, n
<1>3. /\ \A k \in 1..(n - j + 1) : j + k - 1 \in j..n
      /\ \A k \in j..n : k - j + 1 \in 1..(n - j + 1) /\ j + (k - j + 1) - 1 = k
  BY <1>1
<1>4. Range(t) \subseteq Left(s, j)
  BY <1>2, <1>3 DEF Range, Left, n
<1>5. Left(s, j) \subseteq Range(t)
  <2> SUFFICES ASSUME NEW k \in j..n PROVE s[k] \in Range(t)
    BY DEF Left, n
  <2>1. k - j + 1 \in DOMAIN t /\ t[k - j + 1] = s[j + (k - j + 1) - 1]
    BY <1>2, <1>3
  <2>2. t[k - j + 1] = s[k]
    BY <1>3, <2>1
  <2>3. QED
    BY <2>1, <2>2 DEF Range
<1>6. QED
  BY <1>4, <1>5 DEF t

LEMMA CoveredBy ==
  ASSUME NEW S, NEW a
  PROVE  a \in Covered(S) <=> \E b \in S : a \in Covers(b)
BY DEF Covered

\* What Merge knows of its two blocks.
LEMMA MergeFacts ==
  ASSUME Types, Merge
  PROVE  /\ i < Len(blocks) /\ Len(blocks) \in Nat /\ DOMAIN blocks = 1..Len(blocks)
         /\ blocks[i] \in Blocks /\ blocks[i + 1] \in Blocks
         /\ Mergeable(blocks[i], blocks[i + 1])
         /\ merged' = Append(merged, Parent(blocks[i]))
         /\ i' = i + 2 /\ pc = "scan" /\ changed' = TRUE
         /\ UNCHANGED <<input, blocks, pc>>
         /\ Parent(blocks[i]) \in Blocks
         /\ Covers(Parent(blocks[i])) = Covers(blocks[i]) \cup Covers(blocks[i + 1])
<1>1. /\ i < Len(blocks) /\ Len(blocks) \in Nat /\ DOMAIN blocks = 1..Len(blocks)
      /\ i \in 1..Len(blocks) /\ i + 1 \in 1..Len(blocks)
  BY DEF Merge, CanMerge, HasPair, Types
<1>2. blocks[i] \in Blocks /\ blocks[i + 1] \in Blocks
  BY <1>1 DEF Types
<1>3. Mergeable(blocks[i], blocks[i + 1])
  BY DEF Merge, CanMerge, HasPair, Mergeable
<1>4. merged' = Append(merged, Parent(blocks[i]))
  BY DEF Merge, Parent
<1>5. QED
  BY <1>1, <1>2, <1>3, <1>4, Halves DEF Merge

\* What Keep knows of its block.
LEMMA KeepFacts ==
  ASSUME Types, Keep
  PROVE  /\ i <= Len(blocks) /\ Len(blocks) \in Nat /\ DOMAIN blocks = 1..Len(blocks)
         /\ blocks[i] \in Blocks
         /\ i < Len(blocks) => Distinct(blocks[i], blocks[i + 1])
         /\ merged' = Append(merged, blocks[i]) /\ i' = i + 1 /\ pc = "scan"
         /\ UNCHANGED <<input, blocks, changed, pc>>
<1>1. i <= Len(blocks) /\ Len(blocks) \in Nat /\ DOMAIN blocks = 1..Len(blocks)
      /\ i \in 1..Len(blocks)
  BY DEF Keep, Types
<1>2. i < Len(blocks) => Distinct(blocks[i], blocks[i + 1])
  BY DEF Keep, CanMerge, HasPair, Distinct
<1>3. QED
  BY <1>1, <1>2 DEF Keep, Types

LEMMA SortFacts ==
  ASSUME NEW s \in Seq(Blocks)
  PROVE  /\ Sorted(s) \in Seq(Blocks) /\ Range(Sorted(s)) = Range(s)
         /\ Apart(s) => Apart(Sorted(s))
         /\ Ordered(Sorted(s))
<1>1. PICK place \in Bijection(1..Len(s), 1..Len(s)) :
        /\ Sorted(s) = [n \in 1..Len(s) |-> s[place[n]]]
        /\ \A m, n \in 1..Len(s) : m < n => ~Before(s[place[n]], s[place[m]])
  BY SortPermutes
<1> DEFINE D == 1..Len(s)
           t == Sorted(s)
<1>2. DOMAIN s = D /\ Len(s) \in Nat /\ \A n \in D : s[n] \in Blocks
  OBVIOUS
<1>3. /\ \A n \in D : place[n] \in D
      /\ \A m, n \in D : place[m] = place[n] => m = n
      /\ \A k \in D : \E n \in D : place[n] = k
  BY <1>1 DEF Bijection, Injection, IsInjective, Surjection
<1>4. DOMAIN t = D /\ \A n \in D : t[n] = s[place[n]]
  BY <1>1
<1>5. t \in Seq(Blocks)
  <2>1. t \in [D -> Blocks]
    BY <1>1, <1>2, <1>3
  <2>2. QED
    BY <1>2, <2>1
<1>6. \A m, n \in D : m < n => ~Before(t[n], t[m])
  BY <1>1, <1>4
<1> HIDE DEF t, D
<1>7. Range(t) = Range(s)
  BY <1>2, <1>3, <1>4 DEF Range
<1>8. Apart(s) => Apart(t)
  <2> SUFFICES ASSUME Apart(s), NEW m \in D, NEW n \in D, m # n
               PROVE  Covers(t[m]) \cap Covers(t[n]) = {}
    BY <1>4 DEF Apart
  <2>1. place[m] \in D /\ place[n] \in D /\ place[m] # place[n]
    BY <1>3
  <2>2. Covers(s[place[m]]) \cap Covers(s[place[n]]) = {}
    BY <1>2, <2>1 DEF Apart
  <2>3. QED
    BY <1>4, <2>2
<1>9. Ordered(t)
  BY <1>4, <1>6 DEF Ordered
<1>10. QED
  BY <1>5, <1>7, <1>8, <1>9 DEF t

-----------------------------------------------------------------------------
(* Each part of the invariant over each step. *)

LEMMA StepTypes ==
  ASSUME Types, [Next]_vars
  PROVE  Types'
<1>0. /\ input \in SUBSET Blocks /\ blocks \in Seq(Blocks) /\ merged \in Seq(Blocks)
      /\ i \in Nat \ {0} /\ changed \in BOOLEAN
  BY DEF Types
<1>1. CASE Sort
  <2>1. blocks' \in Seq(Blocks) /\ merged' \in Seq(Blocks)
    BY <1>0, <1>1, SortFacts DEF Sort
  <2>2. i' \in Nat \ {0} /\ i' <= Len(blocks') + 1
    <3>1. Len(blocks') \in Nat
      BY <2>1
    <3>2. QED
      BY <1>1, <3>1 DEF Sort
  <2>3. input' \in SUBSET Blocks /\ changed' \in BOOLEAN /\ pc' = "scan"
    BY <1>0, <1>1 DEF Sort
  <2>4. QED
    BY <2>1, <2>2, <2>3 DEF Types
<1>2. CASE DivideByZero
  BY <1>2 DEF DivideByZero, Types
<1>3. CASE Merge
  <2>1. /\ merged' = Append(merged, Parent(blocks[i])) /\ Parent(blocks[i]) \in Blocks
        /\ i < Len(blocks) /\ i' = i + 2 /\ Len(blocks) \in Nat
        /\ changed' = TRUE /\ pc = "scan" /\ UNCHANGED <<input, blocks, pc>>
    BY <1>3, MergeFacts
  <2>2. merged' \in Seq(Blocks)
    BY <1>0, <2>1, RangeAppend
  <2>3. i' \in Nat \ {0} /\ i' <= Len(blocks') + 1
    BY <1>0, <2>1
  <2>4. QED
    BY <1>0, <2>1, <2>2, <2>3 DEF Types
<1>4. CASE Keep
  <2>1. /\ merged' = Append(merged, blocks[i]) /\ blocks[i] \in Blocks
        /\ i <= Len(blocks) /\ i' = i + 1 /\ Len(blocks) \in Nat
        /\ pc = "scan" /\ UNCHANGED <<input, blocks, changed, pc>>
    BY <1>4, KeepFacts
  <2>2. merged' \in Seq(Blocks)
    BY <1>0, <2>1, RangeAppend
  <2>3. i' \in Nat \ {0} /\ i' <= Len(blocks') + 1
    BY <1>0, <2>1
  <2>4. QED
    BY <1>0, <2>1, <2>2, <2>3 DEF Types
<1>5. CASE EndPass
  BY <1>5 DEF EndPass, Types
<1>6. CASE UNCHANGED vars
  BY <1>6 DEF vars, Types
<1>7. QED
  BY <1>1, <1>2, <1>3, <1>4, <1>5, <1>6 DEF Next

LEMMA StepCoverage ==
  ASSUME Types, Types', CoverageKept, [Next]_vars
  PROVE  CoverageKept'
<1> SUFFICES /\ \A a : a \in Covered(Current') <=> a \in Covered(Current)
             /\ input' = input
  BY DEF CoverageKept, Covered, Covers, Addresses, Wrap
<1>0. /\ pc \in {"scan", "panic"} => Current = Range(merged) \cup Left(blocks, i)
      /\ pc \notin {"scan", "panic"} => Current = Range(blocks)
      /\ pc' \in {"scan", "panic"} => Current' = Range(merged') \cup Left(blocks', i')
      /\ pc' \notin {"scan", "panic"} => Current' = Range(blocks')
  BY RangeTail DEF Types, Current
<1>1. CASE Sort
  <2>1. Range(blocks') = Range(blocks)
    BY <1>1, SortFacts DEF Sort, Types
  <2>2. Range(merged') = {} /\ Left(blocks', i') = Range(blocks')
    <3>1. DOMAIN blocks' = 1..Len(blocks')
      BY DEF Types
    <3>2. QED
      BY <1>1, <3>1 DEF Sort, Range, Left
  <2>3. Current' = Current
    BY <1>0, <1>1, <2>1, <2>2 DEF Sort
  <2>4. QED
    BY <1>1, <2>3 DEF Sort
<1>2. CASE DivideByZero
  <2>1. Current' = Current
    BY <1>2 DEF DivideByZero, Current
  <2>2. QED
    BY <1>2, <2>1 DEF DivideByZero
<1>3. CASE Merge
  <2> DEFINE b == blocks[i]
             other == blocks[i + 1]
             Rest == Left(blocks, i + 2)
  <2>1. /\ i < Len(blocks) /\ Len(blocks) \in Nat /\ i \in Nat
        /\ merged' = Append(merged, Parent(b)) /\ Parent(b) \in Blocks
        /\ merged \in Seq(Blocks) /\ i' = i + 2 /\ pc = "scan"
        /\ UNCHANGED <<input, blocks, pc>>
        /\ Covers(Parent(b)) = Covers(b) \cup Covers(other)
    <3>1. merged \in Seq(Blocks) /\ i \in Nat
      BY DEF Types
    <3>2. QED
      BY <1>3, <3>1, MergeFacts
  <2>2. Left(blocks, i) = {b, other} \cup Rest
    <3>1. \A k : k \in i..Len(blocks) <=> k = i \/ k = i + 1 \/ k \in (i + 2)..Len(blocks)
      BY <2>1
    <3>2. QED
      BY <3>1 DEF Left
  <2>3. Range(merged') = Range(merged) \cup {Parent(b)}
    BY <2>1, RangeAppend
  <2>4. Current = Range(merged) \cup ({b, other} \cup Rest)
    BY <1>0, <2>1, <2>2
  <2>5. Current' = (Range(merged) \cup {Parent(b)}) \cup Rest
    BY <1>0, <2>1, <2>3
  <2> HIDE DEF b, other, Rest
  <2>6. ASSUME NEW a
        PROVE  a \in Covered(Current') <=> a \in Covered(Current)
    <3>1. a \in Covered(Current') <=> \E c \in Current' : a \in Covers(c)
      BY CoveredBy
    <3>2. a \in Covered(Current) <=> \E c \in Current : a \in Covers(c)
      BY CoveredBy
    <3>3. QED
      BY <2>1, <2>4, <2>5, <3>1, <3>2
  <2>7. QED
    BY <2>1, <2>6
<1>4. CASE Keep
  <2> DEFINE b == blocks[i]
             Rest == Left(blocks, i + 1)
  <2>1. /\ i <= Len(blocks) /\ Len(blocks) \in Nat /\ i \in Nat
        /\ merged' = Append(merged, b) /\ b \in Blocks
        /\ merged \in Seq(Blocks) /\ i' = i + 1 /\ pc = "scan"
        /\ UNCHANGED <<input, blocks, pc>>
    <3>1. merged \in Seq(Blocks) /\ i \in Nat
      BY DEF Types
    <3>2. QED
      BY <1>4, <3>1, KeepFacts
  <2>2. Left(blocks, i) = {b} \cup Rest
    <3>1. \A k : k \in i..Len(blocks) <=> k = i \/ k \in (i + 1)..Len(blocks)
      BY <2>1
    <3>2. QED
      BY <3>1 DEF Left
  <2>3. Range(merged') = Range(merged) \cup {b}
    BY <2>1, RangeAppend
  <2>4. Current = Range(merged) \cup ({b} \cup Rest)
    BY <1>0, <2>1, <2>2
  <2>5. Current' = (Range(merged) \cup {b}) \cup Rest
    BY <1>0, <2>1, <2>3
  <2> HIDE DEF b, Rest
  <2>6. Current' = Current
    BY <2>4, <2>5
  <2>7. QED
    BY <2>1, <2>6
<1>5. CASE EndPass
  <2>1. Left(blocks, i) = {}
    BY <1>5 DEF EndPass, Types, Left
  <2>2. Current = Range(merged)
    BY <1>0, <1>5, <2>1 DEF EndPass
  <2>3. Current' = Range(merged)
    BY <1>0, <1>5 DEF EndPass
  <2>4. Current' = Current
    BY <2>2, <2>3
  <2>5. QED
    BY <1>5, <2>4 DEF EndPass
<1>6. CASE UNCHANGED vars
  <2>1. Current' = Current
    BY <1>6 DEF vars, Current
  <2>2. QED
    BY <1>6, <2>1 DEF vars
<1>7. QED
  BY <1>1, <1>2, <1>3, <1>4, <1>5, <1>6 DEF Next

LEMMA StepApart ==
  ASSUME Types, ApartInv, [Next]_vars
  PROVE  ApartInv'
<1> SUFFICES ASSUME Disjoint(input), input' = input
             PROVE  /\ Apart(blocks')
                    /\ pc' = "scan" =>
                         /\ Apart(merged')
                         /\ \A m \in DOMAIN merged', k \in i'..Len(blocks') :
                              Covers(merged'[m]) \cap Covers(blocks'[k]) = {}
  <2>1. input' = input
    BY DEF Next, Sort, DivideByZero, Merge, Keep, EndPass, vars
  <2>2. QED
    BY <2>1 DEF ApartInv, Disjoint, Apart, Covers, Addresses, Wrap
<1>0. Apart(blocks)
  BY DEF ApartInv
<1>1. CASE Sort
  BY <1>0, <1>1, SortFacts DEF Sort, Types, Apart
<1>2. CASE DivideByZero
  BY <1>0, <1>2 DEF DivideByZero
<1>3. CASE Merge
  <2> DEFINE b == blocks[i]
             other == blocks[i + 1]
             n == Len(merged)
  <2>0. /\ merged \in Seq(Blocks) /\ i \in Nat \ {0} /\ i < Len(blocks)
        /\ Len(blocks) \in Nat /\ DOMAIN blocks = 1..Len(blocks)
        /\ merged' = Append(merged, Parent(b)) /\ Parent(b) \in Blocks
    <3>1. merged \in Seq(Blocks) /\ i \in Nat \ {0}
      BY DEF Types
    <3>2. QED
      BY <1>3, <3>1, MergeFacts
  <2>1. /\ DOMAIN merged = 1..n /\ n \in Nat
        /\ DOMAIN merged' = 1..(n + 1) /\ merged'[n + 1] = Parent(b)
        /\ \A m \in DOMAIN merged : merged'[m] = merged[m]
    BY <2>0, RangeAppend
  <2>2. Covers(Parent(b)) = Covers(b) \cup Covers(other)
    BY <1>3, MergeFacts
  <2>3. \A m \in DOMAIN merged : \A k \in i..Len(blocks) :
          Covers(merged[m]) \cap Covers(blocks[k]) = {}
    BY <1>3 DEF ApartInv, Merge
  <2>4. i \in i..Len(blocks) /\ i + 1 \in i..Len(blocks)
        /\ i \in DOMAIN blocks /\ i + 1 \in DOMAIN blocks
        /\ \A k \in (i + 2)..Len(blocks) :
             k \in i..Len(blocks) /\ k \in DOMAIN blocks /\ k # i /\ k # i + 1
    BY <2>0
  <2>5. \A m \in DOMAIN merged : Covers(merged[m]) \cap Covers(Parent(b)) = {}
    BY <2>2, <2>3, <2>4
  <2>6. \A k \in (i + 2)..Len(blocks) : Covers(Parent(b)) \cap Covers(blocks[k]) = {}
    BY <1>0, <2>2, <2>4 DEF Apart
  <2>7. \A m \in DOMAIN merged' : m \in DOMAIN merged \/ m = n + 1
    BY <2>1
  <2>8. Apart(merged)
    BY <1>3 DEF ApartInv, Merge
  <2> HIDE DEF b, other, n
  <2>9. Apart(merged')
    BY <2>1, <2>5, <2>7, <2>8 DEF Apart
  <2>10. \A m \in DOMAIN merged' : \A k \in (i + 2)..Len(blocks) :
           Covers(merged'[m]) \cap Covers(blocks[k]) = {}
    BY <2>1, <2>3, <2>4, <2>6, <2>7
  <2>11. QED
    BY <1>0, <1>3, <2>9, <2>10, MergeFacts
<1>4. CASE Keep
  <2> DEFINE b == blocks[i]
             n == Len(merged)
  <2>0. /\ merged \in Seq(Blocks) /\ i \in Nat \ {0} /\ i <= Len(blocks)
        /\ Len(blocks) \in Nat /\ DOMAIN blocks = 1..Len(blocks)
        /\ merged' = Append(merged, b) /\ b \in Blocks
    <3>1. merged \in Seq(Blocks) /\ i \in Nat \ {0}
      BY DEF Types
    <3>2. QED
      BY <1>4, <3>1, KeepFacts
  <2>1. /\ DOMAIN merged = 1..n /\ n \in Nat
        /\ DOMAIN merged' = 1..(n + 1) /\ merged'[n + 1] = b
        /\ \A m \in DOMAIN merged : merged'[m] = merged[m]
    BY <2>0, RangeAppend
  <2>2. \A m \in DOMAIN merged : \A k \in i..Len(blocks) :
          Covers(merged[m]) \cap Covers(blocks[k]) = {}
    BY <1>4 DEF ApartInv, Keep
  <2>3. i \in i..Len(blocks) /\ i \in DOMAIN blocks
        /\ \A k \in (i + 1)..Len(blocks) :
             k \in i..Len(blocks) /\ k \in DOMAIN blocks /\ k # i
    BY <2>0
  <2>4. \A m \in DOMAIN merged : Covers(merged[m]) \cap Covers(b) = {}
    BY <2>2, <2>3
  <2>5. \A k \in (i + 1)..Len(blocks) : Covers(b) \cap Covers(blocks[k]) = {}
    BY <1>0, <2>3 DEF Apart
  <2>6. \A m \in DOMAIN merged' : m \in DOMAIN merged \/ m = n + 1
    BY <2>1
  <2>7. Apart(merged)
    BY <1>4 DEF ApartInv, Keep
  <2> HIDE DEF b, n
  <2>8. Apart(merged')
    BY <2>1, <2>4, <2>6, <2>7 DEF Apart
  <2>9. \A m \in DOMAIN merged' : \A k \in (i + 1)..Len(blocks) :
          Covers(merged'[m]) \cap Covers(blocks[k]) = {}
    BY <2>1, <2>2, <2>3, <2>5, <2>6
  <2>10. QED
    BY <1>0, <1>4, <2>8, <2>9, KeepFacts
<1>5. CASE EndPass
  BY <1>5 DEF EndPass, ApartInv
<1>6. CASE UNCHANGED vars
  BY <1>6 DEF vars, ApartInv
<1>7. QED
  BY <1>1, <1>2, <1>3, <1>4, <1>5, <1>6 DEF Next

LEMMA StepPass ==
  ASSUME Types, PassInv, [Next]_vars
  PROVE  PassInv'
<1> SUFFICES /\ pc' = "scan" =>
                  /\ Ordered(blocks')
                  /\ ~changed' => merged' = SubSeq(blocks', 1, i' - 1)
                                  /\ NoPair(blocks', i' - 1)
             /\ pc' = "done" => Ordered(blocks') /\ NoPair(blocks', Len(blocks'))
  BY DEF PassInv, Ordered, NoPair, Before, Distinct, Adjacent, ParentSize, Size, Wrap
<1>1. CASE Sort
  <2>1. Ordered(blocks')
    BY <1>1, SortFacts DEF Sort, Types
  <2>2. SubSeq(blocks', 1, 0) = <<>> /\ NoPair(blocks', 0)
    <3>1. blocks' \in Seq(Blocks)
      BY <1>1, SortFacts DEF Sort, Types
    <3>2. QED
      BY <3>1 DEF NoPair
  <2>3. QED
    BY <1>1, <2>1, <2>2 DEF Sort
<1>2. CASE DivideByZero
  BY <1>2 DEF DivideByZero
<1>3. CASE Merge
  BY <1>3, MergeFacts DEF PassInv
<1>4. CASE Keep
  <2>1. ASSUME ~changed
        PROVE  /\ merged' = SubSeq(blocks, 1, (i + 1) - 1)
               /\ NoPair(blocks, (i + 1) - 1)
    <3>1. /\ merged = SubSeq(blocks, 1, i - 1) /\ NoPair(blocks, i - 1)
          /\ i \in Nat \ {0} /\ i <= Len(blocks) /\ (i + 1) - 1 = i
          /\ blocks \in Seq(Blocks)
      BY <1>4, <2>1, KeepFacts DEF PassInv, Types
    <3>2. SubSeq(blocks, 1, i) = Append(SubSeq(blocks, 1, i - 1), blocks[i])
      BY <3>1
    <3>3. NoPair(blocks, i)
      <4>1. \A k \in 1..i : k \in 1..(i - 1) \/ k = i
        BY <3>1
      <4>2. QED
        BY <1>4, <3>1, <4>1, KeepFacts DEF NoPair
    <3>4. QED
      BY <1>4, <3>1, <3>2, <3>3, KeepFacts
  <2>2. QED
    BY <1>4, <2>1, KeepFacts DEF PassInv
<1>5. CASE EndPass
  <2>1. ASSUME ~changed
        PROVE  merged = blocks /\ NoPair(blocks, Len(blocks))
    <3>1. /\ merged = SubSeq(blocks, 1, i - 1) /\ NoPair(blocks, i - 1)
          /\ i - 1 = Len(blocks) /\ blocks \in Seq(Blocks)
      BY <1>5, <2>1 DEF EndPass, PassInv, Types
    <3>2. SubSeq(blocks, 1, Len(blocks)) = blocks
      BY <3>1
    <3>3. QED
      BY <3>1, <3>2
  <2>2. QED
    BY <1>5, <2>1 DEF EndPass, PassInv
<1>6. CASE UNCHANGED vars
  BY <1>6 DEF vars, PassInv
<1>7. QED
  BY <1>1, <1>2, <1>3, <1>4, <1>5, <1>6 DEF Next

LEMMA StepPanic ==
  ASSUME Types, PanicInv, [Next]_vars
  PROVE  PanicInv'
<1> SUFFICES ASSUME pc' = "panic"
             PROVE  /\ i < Len(blocks) /\ Adjacent(blocks[i], blocks[i + 1])
                    /\ ParentSize(blocks[i]) = 0
                    /\ UNCHANGED <<blocks, i>>
  BY DEF PanicInv, Adjacent, ParentSize, Size, Wrap
<1>1. CASE DivideByZero
  BY <1>1 DEF DivideByZero, HasPair
<1>2. CASE UNCHANGED vars
  BY <1>2 DEF vars, PanicInv
<1>3. pc = "panic" => UNCHANGED vars
  BY DEF Next, Sort, DivideByZero, Merge, Keep, EndPass
<1>4. pc # "panic" => DivideByZero \/ UNCHANGED vars
  BY DEF Next, Sort, Merge, Keep, EndPass
<1>5. QED
  BY <1>1, <1>2, <1>3, <1>4

LEMMA StepCount ==
  ASSUME Types, CountInv, [Next]_vars
  PROVE  CountInv'
<1>0. /\ Len(merged) \in Nat /\ merged \in Seq(Blocks) /\ i \in Nat \ {0}
  BY DEF Types
<1>1. CASE Sort
  BY <1>1 DEF Sort, CountInv
<1>2. CASE DivideByZero
  BY <1>2 DEF DivideByZero, CountInv
<1>3. CASE Merge
  <2>1. Len(merged') = Len(merged) + 1 /\ i' = i + 2 /\ pc = "scan"
    BY <1>0, <1>3, MergeFacts, RangeAppend
  <2>2. QED
    BY <1>0, <2>1 DEF CountInv
<1>4. CASE Keep
  <2>1. Len(merged') = Len(merged) + 1 /\ i' = i + 1 /\ pc = "scan" /\ changed' = changed
    BY <1>0, <1>4, KeepFacts, RangeAppend
  <2>2. QED
    BY <1>0, <2>1 DEF CountInv
<1>5. CASE EndPass
  BY <1>5 DEF EndPass, CountInv
<1>6. CASE UNCHANGED vars
  BY <1>6 DEF vars, CountInv
<1>7. QED
  BY <1>1, <1>2, <1>3, <1>4, <1>5, <1>6 DEF Next

LEMMA InitInv ==
  ASSUME Init
  PROVE  CidrInv
<1>1. input \in SUBSET Blocks
  BY SummaryAssumption DEF Init
<1>2. /\ blocks \in Seq(Blocks) /\ Range(blocks) = input
      /\ \A m, n \in DOMAIN blocks : m # n => blocks[m] # blocks[n]
  BY <1>1, ListOfAll DEF Init
<1>3. Types
  <2>1. merged \in Seq(Blocks)
    BY DEF Init
  <2>2. i \in Nat \ {0} /\ pc \in {"sort", "done"}
    BY DEF Init
  <2>3. changed \in BOOLEAN
    BY Zenon DEF Init
  <2>4. QED
    BY <1>1, <1>2, <2>1, <2>2, <2>3 DEF Types
<1>4. CoverageKept
  BY <1>2 DEF Init, CoverageKept, Current
<1>5. ApartInv
  BY <1>2 DEF Init, ApartInv, Apart, Disjoint, Range
<1>6. PassInv
  <2>1. SUFFICES ASSUME input = {} PROVE Ordered(blocks) /\ NoPair(blocks, Len(blocks))
    BY DEF Init, PassInv
  <2>2. DOMAIN blocks = {}
    BY <1>2, <2>1 DEF Range
  <2>3. DOMAIN blocks = 1..Len(blocks) /\ Len(blocks) \in Nat
    BY <1>2
  <2>4. 1..Len(blocks) = {}
    BY <2>2, <2>3
  <2>5. QED
    BY <2>2, <2>4 DEF Ordered, NoPair
<1>7. PanicInv
  BY DEF Init, PanicInv
<1>8. CountInv
  BY DEF Init, CountInv
<1>9. QED
  BY <1>3, <1>4, <1>5, <1>6, <1>7, <1>8 DEF CidrInv

-----------------------------------------------------------------------------
(* What the invariant is for. *)

\* Two blocks of an ordered list without neighbours to merge that lie apart are
\* not the halves of one: nothing fits between two halves.
LEMMA NoHalves ==
  ASSUME NEW s \in Seq(Blocks), Apart(s), Ordered(s), NoPair(s, Len(s)),
         NEW m \in DOMAIN s, NEW n \in DOMAIN s,
         s[m].prefix = s[n].prefix, s[m].start < s[n].start,
         s[m].start \div (2 * Span(s[m])) = s[n].start \div (2 * Span(s[m]))
  PROVE  FALSE
<1> DEFINE b == s[m]
           other == s[n]
<1>1. /\ DOMAIN s = 1..Len(s) /\ Len(s) \in Nat /\ b \in Blocks /\ other \in Blocks
      /\ \A k \in 1..Len(s) : s[k] \in Blocks
  OBVIOUS
<1>2. /\ Span(b) \in Nat \ {0} /\ Span(other) = Span(b) /\ Wrap \in Nat \ {0}
      /\ b.start \in Nat /\ other.start \in Nat
      /\ b.start < Wrap /\ other.start < Wrap
      /\ b.start % Span(b) = 0 /\ other.start % Span(b) = 0 /\ b.prefix \in Nat
  BY <1>1, BlockType DEF Span
<1> DEFINE x == Span(b)
           y == 2 * x
           p == b.start
           q == other.start
<1>3. p < q /\ p \div y = q \div y /\ p \in Nat /\ q \in Nat /\ x \in Nat \ {0}
      /\ p % x = 0 /\ q % x = 0 /\ y = 2 * x
  BY <1>2
<1>4. q = p + x /\ p % y = 0
  <2> HIDE DEF p, q, x, y
  <2> QED BY ZenonT(30), <1>3, TwoMultiples
<1>5. other.start = b.start + Span(b) /\ b.start % (2 * Span(b)) = 0
  BY <1>4
<1>6. b.prefix # 0
  <2> SUFFICES ASSUME b.prefix = 0 PROVE FALSE
    OBVIOUS
  <2>1. W - b.prefix = W
    BY SummaryAssumption
  <2>2. Span(b) = Wrap
    BY <2>1 DEF Span, Wrap
  <2>3. QED
    BY <1>2, <1>5, <2>2
<1>7. Size(b.prefix) = Span(b) /\ ParentSize(b) = IF b.prefix = 1 THEN 0 ELSE 2 * Span(b)
  BY <1>1, <1>6, Words
<1> HIDE DEF x, y, p, q
<1>8. n = m + 1
  <2>1. ASSUME NEW k \in 1..Len(s)
        PROVE  /\ s[k].start \in Nat /\ s[k].start \in Addresses
               /\ \A c \in Addresses :
                    c \in Covers(s[k]) <=> s[k].start <= c /\ c < s[k].start + Span(s[k])
               /\ Span(s[k]) \in Nat \ {0}
    <3>1. s[k] \in Blocks
      BY <1>1
    <3>2. s[k].start \in Nat /\ s[k].start \in Addresses /\ Span(s[k]) \in Nat \ {0}
      BY <3>1, BlockType DEF Blocks
    <3>3. QED
      BY <3>2 DEF Covers, Span
  <2>2. ASSUME NEW j \in 1..Len(s), NEW k \in 1..Len(s), j < k
        PROVE  s[j].start <= s[k].start
    <3>1. ~Before(s[k], s[j])
      BY <1>1, <2>2 DEF Ordered
    <3>2. s[j].start \in Nat /\ s[k].start \in Nat
      BY <2>1
    <3>3. QED
      BY <3>1, <3>2 DEF Before
  <2>3. m \in 1..Len(s) /\ n \in 1..Len(s) /\ s[m].start < s[n].start
    BY <1>1
  <2>4. m < n
    <3> SUFFICES ASSUME n <= m PROVE FALSE
      BY <1>1, <2>3
    <3>1. n # m
      BY <1>2, <2>3
    <3>2. s[n].start <= s[m].start
      BY <1>1, <2>2, <2>3, <3>1
    <3>3. QED
      BY <2>1, <2>3, <3>2
  <2> SUFFICES ASSUME m + 1 < n PROVE FALSE
    BY <1>1, <2>3, <2>4
  <2> DEFINE k == m + 1
             a == s[k].start
  <2>5. k \in 1..Len(s) /\ m < k /\ k < n /\ k # m /\ k # n
    BY <1>1, <2>3, <2>4
  <2> HIDE DEF k
  <2>6. /\ a \in Nat /\ a \in Addresses /\ s[m].start <= a /\ a <= s[n].start
        /\ Span(s[k]) \in Nat \ {0} /\ s[m].start \in Nat /\ s[n].start \in Nat
    BY <2>1, <2>2, <2>3, <2>5
  <2>7. a \in Covers(s[k])
    <3>1. s[k].start <= a /\ a < s[k].start + Span(s[k])
      BY <2>6
    <3>2. QED
      BY <2>1, <2>5, <2>6, <3>1
  <2>8. s[n].start = s[m].start + Span(s[m]) /\ Span(s[n]) \in Nat \ {0}
    BY <1>2, <1>5
  <2>9. CASE a < s[n].start
    <3>1. a \in Covers(s[m])
      BY <2>1, <2>3, <2>6, <2>8, <2>9
    <3>2. QED
      BY <1>1, <2>3, <2>5, <2>7, <3>1 DEF Apart
  <2>10. CASE a = s[n].start
    <3>1. s[n].start <= a /\ a < s[n].start + Span(s[n]) /\ a \in Addresses
      BY <2>6, <2>8, <2>10
    <3> HIDE DEF a
    <3>2. a \in Covers(s[n])
      BY <2>1, <2>3, <3>1
    <3>3. QED
      BY <1>1, <2>3, <2>5, <2>7, <3>2 DEF Apart
  <2>11. QED
    BY <2>6, <2>9, <2>10
<1>9. Adjacent(b, other)
  <2>1. (b.start + Span(b)) % Wrap = other.start
    <3>1. other.start % Wrap = other.start
      BY <1>2, Division
    <3>2. QED
      BY <1>5, <3>1
  <2>2. QED
    BY <1>6, <1>7, <2>1 DEF Adjacent
<1>10. m \in 1..Len(s) /\ m < Len(s)
  BY <1>1, <1>8
<1>11. ParentSize(b) # 0 /\ b.start % ParentSize(b) # 0
  BY <1>8, <1>9, <1>10 DEF NoPair, Distinct
<1>12. QED
  BY <1>5, <1>7, <1>11

LEMMA InvMinimal ==
  ASSUME CidrInv
  PROVE  Minimal
<1> SUFFICES ASSUME pc = "done", Disjoint(input), NEW m \in DOMAIN blocks,
                    NEW n \in DOMAIN blocks, m # n, blocks[m].prefix = blocks[n].prefix,
                    blocks[m].start \div (2 ^ (W - blocks[m].prefix + 1))
                      = blocks[n].start \div (2 ^ (W - blocks[m].prefix + 1))
             PROVE  FALSE
  BY DEF Minimal
<1>1. /\ blocks \in Seq(Blocks) /\ Apart(blocks) /\ Ordered(blocks)
      /\ NoPair(blocks, Len(blocks))
  BY DEF CidrInv, Types, ApartInv, PassInv
<1>2. blocks[m] \in Blocks /\ blocks[n] \in Blocks
  BY <1>1
<1>3. /\ 2 ^ (W - blocks[m].prefix + 1) = 2 * Span(blocks[m])
      /\ Span(blocks[n]) = Span(blocks[m])
      /\ blocks[m].start \in Nat /\ blocks[n].start \in Nat /\ Span(blocks[m]) \in Nat \ {0}
  BY <1>2, BlockType, Powers DEF Span
<1>4. blocks[m].start # blocks[n].start
  <2> SUFFICES ASSUME blocks[m].start = blocks[n].start PROVE FALSE
    OBVIOUS
  <2>1. blocks[m].start \in Addresses
    BY <1>2 DEF Blocks
  <2>2. blocks[m].start \in Covers(blocks[m]) /\ blocks[m].start \in Covers(blocks[n])
    BY <1>3, <2>1 DEF Covers, Span
  <2>3. QED
    BY <1>1, <2>2 DEF Apart
<1>5. blocks[m].start \div (2 * Span(blocks[m])) = blocks[n].start \div (2 * Span(blocks[m]))
  BY <1>3
<1>6. CASE blocks[m].start < blocks[n].start
  BY <1>1, <1>5, <1>6, NoHalves
<1>7. CASE blocks[n].start < blocks[m].start
  <2>1. blocks[n].start \div (2 * Span(blocks[n])) = blocks[m].start \div (2 * Span(blocks[n]))
    BY <1>3, <1>5
  <2>2. QED
    BY <1>1, <1>7, <2>1, NoHalves
<1>8. QED
  BY <1>3, <1>4, <1>6, <1>7

\* The only parent size that wraps to zero is that of a half of the space.
LEMMA WholeSpace ==
  ASSUME NEW b \in Blocks, NEW other \in Blocks, Adjacent(b, other), ParentSize(b) = 0
  PROVE  Covers(b) \cup Covers(other) = Addresses
<1>1. b.prefix = 1 /\ other.prefix = 1 /\ Span(other) = Span(b)
      /\ (b.start + Span(b)) % Wrap = other.start
  <2>1. b.prefix # 0 /\ other.prefix = b.prefix
    BY DEF Adjacent
  <2>2. Size(b.prefix) = Span(b) /\ Span(b) \in Nat \ {0}
        /\ ParentSize(b) = IF b.prefix = 1 THEN 0 ELSE 2 * Span(b)
    BY <2>1, Words, BlockType
  <2>3. QED
    BY <2>1, <2>2 DEF Adjacent, Span
<1>2. /\ Span(b) \in Nat \ {0} /\ Wrap = 2 * Span(b)
      /\ b.start \in Nat /\ b.start < Wrap /\ b.start % Span(b) = 0
      /\ other.start \in Nat
  BY <1>1, BlockType, Whole
<1> DEFINE x == Span(b)
           p == b.start
           q == other.start
<1>3. p = 0 \/ p = x
  <2>1. p = x * (p \div x) /\ p \div x \in Nat
    BY SMTT(20), <1>2, Division
  <2> DEFINE d == p \div x
  <2> HIDE DEF d, p, x
  <2>2. d < 2
    BY <1>2, <2>1 DEF p, x, d
  <2>3. QED
    BY <1>2, <2>1, <2>2 DEF d, x
<1>4. p = 0 => q = x
  <2>1. Span(b) % Wrap = Span(b)
    BY <1>2, Division
  <2>2. p = 0 => p + x = x
    BY <1>2
  <2>3. QED
    BY <1>1, <2>1, <2>2
<1>5. p = x => q = 0
  <2>1. Wrap % Wrap = 0
    BY <1>2
  <2>2. QED
    BY <1>1, <1>2, <2>1
<1>6. /\ Covers(b) = {a \in Addresses : p <= a /\ a < p + x}
      /\ Covers(other) = {a \in Addresses : q <= a /\ a < q + x}
  BY <1>1 DEF Covers, Span
<1>7. \A a \in Addresses : a \in Nat /\ a < x + x
  BY <1>2 DEF Addresses
<1>8. x \in Nat /\ ((p = 0 /\ q = x) \/ (p = x /\ q = 0))
  BY <1>2, <1>3, <1>4, <1>5
<1> HIDE DEF p, q, x
<1>9. \A a \in Addresses : (p <= a /\ a < p + x) \/ (q <= a /\ a < q + x)
  BY <1>7, <1>8
<1>10. QED
  BY <1>6, <1>9

LEMMA InvPanic ==
  ASSUME CidrInv
  PROVE  PanicNeedsWhole
<1> SUFFICES ASSUME pc = "panic" PROVE Covered(input) = Addresses
  BY DEF PanicNeedsWhole
<1>1. /\ blocks \in Seq(Blocks) /\ i \in Nat \ {0} /\ i < Len(blocks)
      /\ Adjacent(blocks[i], blocks[i + 1]) /\ ParentSize(blocks[i]) = 0
      /\ Covered(Current) = Covered(input)
  BY DEF CidrInv, Types, PanicInv, CoverageKept
<1>2. i \in i..Len(blocks) /\ i + 1 \in i..Len(blocks)
      /\ blocks[i] \in Blocks /\ blocks[i + 1] \in Blocks
  BY <1>1
<1>3. Current = Range(merged) \cup Left(blocks, i)
  BY <1>1, RangeTail DEF Current
<1>4. blocks[i] \in Current /\ blocks[i + 1] \in Current
  BY <1>2, <1>3 DEF Left
<1>5. Covers(blocks[i]) \cup Covers(blocks[i + 1]) = Addresses
  BY <1>1, <1>2, WholeSpace
<1>6. Addresses \subseteq Covered(Current)
  BY <1>4, <1>5, CoveredBy
<1>7. Covered(Current) \subseteq Addresses
  BY DEF Covered, Covers
<1>8. QED
  BY <1>1, <1>6, <1>7

-----------------------------------------------------------------------------
(* Theorems. *)

\* The strengthening: the current list and what the pass has written stand for the
\* addresses of the argument, disjoint blocks stay disjoint, and a pass without a
\* change has looked at every two neighbours of a sorted list.
THEOREM CidrInvariant == Spec => []CidrInv
<1>1. Init => CidrInv
  BY InitInv
<1>2. CidrInv /\ [Next]_vars => CidrInv'
  <2> SUFFICES ASSUME CidrInv, [Next]_vars PROVE CidrInv'
    OBVIOUS
  <2>1. Types'
    BY StepTypes DEF CidrInv
  <2>2. CoverageKept'
    BY <2>1, StepCoverage DEF CidrInv
  <2>3. ApartInv' /\ PassInv' /\ PanicInv' /\ CountInv'
    BY StepApart, StepPass, StepPanic, StepCount DEF CidrInv
  <2>4. QED
    BY <2>1, <2>2, <2>3 DEF CidrInv
<1>3. QED
  BY <1>1, <1>2, PTL DEF Spec

\* summarizeIPv4CIDRs keeps the set of addresses at every point of every pass, for
\* addresses of any width and any list of routes, overlapping ones included.
THEOREM AddressesKept == Spec => []CoverageKept
<1>1. CidrInv => CoverageKept
  BY DEF CidrInv
<1>2. QED
  BY <1>1, CidrInvariant, PTL

\* canMerge divides by zero only for an argument that covers every address, for
\* addresses of any width: the two routes of domestic_direct are the case.
THEOREM PanicOnlyOnWhole == Spec => []PanicNeedsWhole
<1>1. CidrInv => PanicNeedsWhole
  BY InvPanic
<1>2. QED
  BY <1>1, CidrInvariant, PTL

\* Passes over neighbours of the sorted list are enough: they end only when no
\* two halves of a block are left, wherever these stood in the list.
THEOREM SummaryMinimal == Spec => []Minimal
<1>1. CidrInv => Minimal
  BY InvMinimal
<1>2. QED
  BY <1>1, CidrInvariant, PTL

\* A pass that changes something shortens the list, so the loop of the passes ends
\* after at most as many of them as the argument has blocks.
THEOREM PassesEnd == Spec => PassesShrink
<1>1. CidrInv /\ [Next]_vars => [pc' = "sort" => Len(blocks') < Len(blocks)]_vars
  <2> SUFFICES ASSUME CidrInv, Next, pc' = "sort"
               PROVE  Len(blocks') < Len(blocks) \/ UNCHANGED vars
    OBVIOUS
  <2>1. EndPass /\ changed
    BY DEF CidrInv, Types, Next, Sort, DivideByZero, Merge, Keep, EndPass
  <2>2. /\ Len(merged) \in Nat /\ Len(blocks) \in Nat /\ i \in Nat
        /\ i = Len(blocks) + 1 /\ Len(merged) < i - 1 /\ blocks' = merged
    BY <2>1 DEF CidrInv, Types, CountInv, EndPass
  <2>3. QED
    BY <2>2
<1>2. QED
  BY <1>1, CidrInvariant, PTL DEF Spec, PassesShrink
=============================================================================
