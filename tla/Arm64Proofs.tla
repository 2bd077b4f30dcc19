---------------------------- MODULE Arm64Proofs ----------------------------
(***************************************************************************)
(* What the decoders and the jump of module Arm64 do, for every width of   *)
(* addresses from 28 bits on and every instruction, register, immediate    *)
(* and destination.                                                        *)
(*                                                                         *)
(* A number is a sum of powers of two over the bits of a word, so the      *)
(* proofs need induction.  It is had from the least number of a set        *)
(* (module WellFoundedInduction), applied to the set of the numbers that   *)
(* do not have the property at hand.                                       *)
(***************************************************************************)
EXTENDS Arm64, FiniteSets, FiniteSetTheorems, WellFoundedInduction, TLAPS

-----------------------------------------------------------------------------
(* Induction, and powers of two.                                           *)

LEMMA Least ==
    ASSUME NEW S \in SUBSET Nat, S # {}
    PROVE  \E m \in S : \A k \in S : ~(k < m)
<1>1. \E m \in S : \A k \in S : ~(<<k, m>> \in OpToRel(<, Nat))
  BY NatLessThanWellFounded, WFMin
<1> QED
  BY <1>1 DEF OpToRel

LEMMA Induction ==
    ASSUME NEW S, 0 \in S, \A n \in Nat : n \in S => n + 1 \in S
    PROVE  Nat \subseteq S
<1> SUFFICES ASSUME Nat \ S # {} PROVE FALSE
  OBVIOUS
<1>1. PICK m \in Nat \ S : \A k \in Nat \ S : ~(k < m)
  BY Least
<1>2. m - 1 \in Nat \ S
  BY <1>1
<1> QED
  BY <1>1, <1>2

\* There are 2 ^ n subsets of 1 .. n, and twice as many of 1 .. n + 1.
LEMMA Subsets ==
    ASSUME NEW n \in Nat
    PROVE  IsFiniteSet(SUBSET (1 .. n)) /\ 2 ^ n = Cardinality(SUBSET (1 .. n))
<1>1. IsFiniteSet(1 .. n) /\ Cardinality(1 .. n) = n
  BY FS_Interval
<1> QED
  BY <1>1, FS_SUBSET

LEMMA Power ==
    ASSUME NEW n \in Nat
    PROVE  2 ^ n \in Nat /\ 2 ^ (n + 1) = 2 * 2 ^ n
<1> DEFINE A == SUBSET (1 .. n)
           B == {a \union {n + 1} : a \in A}
<1>1. IsFiniteSet(A) /\ Cardinality(A) = 2 ^ n /\ Cardinality(A) \in Nat
  BY Subsets, FS_CardinalityType
<1>2. SUBSET (1 .. n + 1) = A \union B
  <2>1. ASSUME NEW s \in SUBSET (1 .. n + 1) PROVE s \in A \union B
    <3>1. CASE n + 1 \in s
      <4>1. s \ {n + 1} \in A /\ s = (s \ {n + 1}) \union {n + 1}
        BY <3>1
      <4> QED
        BY <4>1
    <3>2. CASE n + 1 \notin s
      BY <3>2
    <3> QED
      BY <3>1, <3>2
  <2>2. ASSUME NEW a \in A
        PROVE  a \in SUBSET (1 .. n + 1) /\ a \union {n + 1} \in SUBSET (1 .. n + 1)
    OBVIOUS
  <2>3. ASSUME NEW b \in B PROVE b \in SUBSET (1 .. n + 1)
    <3>1. PICK a \in A : b = a \union {n + 1}
      OBVIOUS
    <3> QED
      BY <2>2, <3>1
  <2>4. SUBSET (1 .. n + 1) \subseteq A \union B
    BY <2>1
  <2>5. A \subseteq SUBSET (1 .. n + 1)
    BY <2>2
  <2> QED
    BY <2>3, <2>4, <2>5, Zenon
<1>3. A \intersect B = {}
  OBVIOUS
<1>4. IsFiniteSet(B) /\ Cardinality(B) = Cardinality(A)
  <2> DEFINE f == [a \in A |-> a \union {n + 1}]
  <2>1. f \in Bijection(A, B)
    <3>1. \A a \in A : f[a] \ {n + 1} = a
      OBVIOUS
    <3>2. f \in [A -> B] /\ \A b \in B : \E a \in A : f[a] = b
      OBVIOUS
    <3> HIDE DEF f, A, B
    <3>3. \A a, b \in A : f[a] = f[b] => a = b
      BY <3>1, Zenon
    <3> QED
      BY <3>2, <3>3 DEF Bijection, Injection, Surjection, IsInjective
  <2> HIDE DEF f, A, B
  <2>2. ExistsBijection(A, B)
    BY <2>1 DEF ExistsBijection
  <2> QED
    BY <1>1, <2>2, FS_Bijection
<1>5. Cardinality(A \union B) = Cardinality(A) + Cardinality(B)
  <2>1. Cardinality(A \intersect B) = 0
    BY <1>3, FS_EmptySet
  <2>2. Cardinality(A \union B) = Cardinality(A) + Cardinality(B) - Cardinality(A \intersect B)
    BY <1>1, <1>4, FS_Union, Zenon
  <2> QED
    BY <1>1, <1>4, <2>1, <2>2
<1>6. 2 ^ (n + 1) = Cardinality(SUBSET (1 .. n + 1))
  <2>1. n + 1 \in Nat
    OBVIOUS
  <2> QED
    BY <2>1, Subsets, Zenon
<1>7. Cardinality(SUBSET (1 .. n + 1)) = Cardinality(A \union B)
  BY <1>2, Zenon
<1> HIDE DEF A, B
<1> QED
  BY <1>1, <1>4, <1>5, <1>6, <1>7

LEMMA SmallPowers == /\ 2 ^ 0 = 1 /\ 2 ^ 1 = 2 /\ 2 ^ 2 = 4 /\ 2 ^ 3 = 8 /\ 2 ^ 4 = 16
                     /\ 2 ^ 12 = 4096
OBVIOUS

LEMMA PowerGrows ==
    ASSUME NEW m \in Nat, NEW n \in Nat
    PROVE  2 ^ m >= 1 /\ 2 ^ m <= 2 ^ (m + n)
<1> DEFINE S == {k \in Nat : 2 ^ k >= 1}
           T == {k \in Nat : 2 ^ m <= 2 ^ (m + k)}
<1>1. Nat \subseteq S
  <2>1. 0 \in S
    BY SmallPowers
  <2>2. \A k \in Nat : k \in S => k + 1 \in S
    BY Power
  <2> HIDE DEF S
  <2> QED
    BY <2>1, <2>2, Induction
<1>2. Nat \subseteq T
  <2>1. 0 \in T
    BY Power
  <2>2. ASSUME NEW k \in Nat, k \in T PROVE k + 1 \in T
    <3>1. 2 ^ (m + k) \in Nat /\ 2 ^ ((m + k) + 1) = 2 * 2 ^ (m + k)
      BY Power
    <3>2. 2 ^ m \in Nat /\ m + (k + 1) = (m + k) + 1
      BY Power
    <3> QED
      BY <2>2, <3>1, <3>2
  <2> HIDE DEF T
  <2> QED
    BY <2>1, <2>2, Induction
<1> QED
  BY <1>1, <1>2

LEMMA PowerOrder ==
    ASSUME NEW m \in Nat, NEW n \in Nat, m <= n
    PROVE  2 ^ m <= 2 ^ n
<1>1. n - m \in Nat /\ m + (n - m) = n
  OBVIOUS
<1>2. 2 ^ m <= 2 ^ (m + (n - m))
  BY <1>1, PowerGrows
<1> QED
  BY <1>1, <1>2

LEMMA PowerSum ==
    ASSUME NEW m \in Nat, NEW n \in Nat
    PROVE  2 ^ (m + n) = 2 ^ m * 2 ^ n
<1> DEFINE S == {k \in Nat : 2 ^ (m + k) = 2 ^ m * 2 ^ k}
<1>1. 0 \in S
  BY Power, SmallPowers
<1>2. ASSUME NEW k \in Nat, k \in S PROVE k + 1 \in S
  <2>1. 2 ^ ((m + k) + 1) = 2 * 2 ^ (m + k) /\ 2 ^ (k + 1) = 2 * 2 ^ k /\ m + (k + 1) = (m + k) + 1
    BY Power
  <2>2. 2 ^ m \in Nat /\ 2 ^ k \in Nat /\ 2 ^ (m + k) = 2 ^ m * 2 ^ k
    BY <1>2, Power
  <2>3. ASSUME NEW x \in Nat, NEW y \in Nat PROVE 2 * (x * y) = x * (2 * y)
    OBVIOUS
  <2> QED
    BY <2>1, <2>2, <2>3
<1>3. Nat \subseteq S
  <2> HIDE DEF S
  <2> QED
    BY <1>1, <1>2, Induction
<1> QED
  BY <1>3

-----------------------------------------------------------------------------
(* The number that a set of bits is.                                       *)

Term(bits, n) == IF n \in bits THEN 2 ^ n ELSE 0
IsSum(s, bits, m) == s = [n \in 0 .. m |-> IF n = 0 THEN 0 ELSE s[n - 1] + Term(bits, n - 1)]

LEMMA SumExists == ASSUME NEW bits, NEW m \in Nat PROVE \E s : IsSum(s, bits, m)
<1> DEFINE S == {k \in Nat : \E s : IsSum(s, bits, k)}
<1>1. 0 \in S
  <2> DEFINE s == [n \in 0 .. 0 |-> 0]
  <2>1. IsSum(s, bits, 0)
    BY DEF IsSum
  <2> QED
    BY <2>1
<1>2. ASSUME NEW k \in Nat, k \in S PROVE k + 1 \in S
  <2>1. PICK s : IsSum(s, bits, k)
    BY <1>2
  <2> DEFINE t == [n \in 0 .. k + 1 |-> IF n = k + 1 THEN s[k] + Term(bits, k) ELSE s[n]]
  <2>2. t = [n \in 0 .. k + 1 |-> IF n = 0 THEN 0 ELSE t[n - 1] + Term(bits, n - 1)]
    <3>1. ASSUME NEW n \in 0 .. k + 1
          PROVE  t[n] = IF n = 0 THEN 0 ELSE t[n - 1] + Term(bits, n - 1)
      <4>1. CASE n = k + 1
        <5>1. t[n - 1] = s[k] /\ n # 0 /\ n - 1 = k /\ t[n] = s[k] + Term(bits, k)
          BY <4>1
        <5> QED
          BY <5>1
      <4>2. CASE n = 0
        <5>1. t[n] = s[n] /\ s[n] = 0
          BY <2>1, <4>2 DEF IsSum
        <5> QED
          BY <4>2, <5>1
      <4>3. CASE n \in 1 .. k
        <5>1. t[n] = s[n] /\ t[n - 1] = s[n - 1]
          BY <4>3
        <5>2. s[n] = s[n - 1] + Term(bits, n - 1)
          BY <2>1, <4>3 DEF IsSum
        <5> QED
          BY <4>3, <5>1, <5>2
      <4> QED
        BY <4>1, <4>2, <4>3
    <3> QED
      BY <3>1
  <2> HIDE DEF t
  <2>3. IsSum(t, bits, k + 1)
    BY <2>2 DEF IsSum
  <2> QED
    BY <2>3
<1>3. Nat \subseteq S
  <2> HIDE DEF S
  <2> QED
    BY <1>1, <1>2, Induction
<1> QED
  BY <1>3

LEMMA Recurrence ==
    ASSUME NEW bits
    PROVE  /\ Sums(bits)[0] = 0
           /\ \A n \in 0 .. Width - 1 :
                 Sums(bits)[n + 1] = Sums(bits)[n] + Term(bits, n)
<1>0. Width \in Nat
  BY WidthAssumption
<1>1. Sums(bits) = CHOOSE s : IsSum(s, bits, Width)
  BY DEF Sums, IsSum, Term
<1>2. IsSum(Sums(bits), bits, Width)
  <2>1. \E s : IsSum(s, bits, Width)
    BY <1>0, SumExists
  <2> QED
    BY <1>1, <2>1, Zenon
<1>3. Sums(bits)[0] = 0
  BY <1>0, <1>2 DEF IsSum
<1>4. ASSUME NEW n \in 0 .. Width - 1
      PROVE  Sums(bits)[n + 1] = Sums(bits)[n] + Term(bits, n)
  <2>1. n + 1 \in 0 .. Width /\ n + 1 # 0 /\ (n + 1) - 1 = n
    BY <1>0
  <2> QED
    BY <1>2, <2>1 DEF IsSum
<1> QED
  BY <1>3, <1>4

LEMMA TermType == ASSUME NEW bits, NEW n \in Nat PROVE Term(bits, n) \in {0, 2 ^ n}
BY DEF Term

\* The low n bits are a number below 2 ^ n.
LEMMA SumRange ==
    ASSUME NEW bits, NEW n \in 0 .. Width
    PROVE  Sums(bits)[n] \in Nat /\ Sums(bits)[n] < 2 ^ n
<1>0. Width \in Nat /\ n \in Nat
  BY WidthAssumption
<1> DEFINE S == {k \in Nat : k <= Width => Sums(bits)[k] \in Nat /\ Sums(bits)[k] < 2 ^ k}
<1>1. 0 \in S
  BY Recurrence, SmallPowers
<1>2. ASSUME NEW k \in Nat, k \in S PROVE k + 1 \in S
  <2> SUFFICES ASSUME k + 1 <= Width
               PROVE  Sums(bits)[k + 1] \in Nat /\ Sums(bits)[k + 1] < 2 ^ (k + 1)
    OBVIOUS
  <2>1. Sums(bits)[k] \in Nat /\ Sums(bits)[k] < 2 ^ k
    BY <1>0, <1>2
  <2>2. k \in 0 .. Width - 1
    BY <1>0
  <2>3. Sums(bits)[k + 1] = Sums(bits)[k] + Term(bits, k)
    BY <2>2, Recurrence
  <2> QED
    BY <2>1, <2>3, Power, TermType
<1>3. Nat \subseteq S
  <2> HIDE DEF S
  <2> QED
    BY <1>1, <1>2, Induction
<1>4. n \in S
  BY <1>0, <1>3, Zenon
<1> QED
  BY <1>0, <1>4

\* They depend on the low n bits only.
LEMMA SumLocal ==
    ASSUME NEW a, NEW b, NEW n \in 0 .. Width, \A k \in 0 .. n - 1 : k \in a <=> k \in b
    PROVE  Sums(a)[n] = Sums(b)[n]
<1>0. Width \in Nat /\ n \in Nat
  BY WidthAssumption
<1> DEFINE S == {k \in Nat : k <= n => Sums(a)[k] = Sums(b)[k]}
<1>1. 0 \in S
  BY Recurrence
<1>2. ASSUME NEW k \in Nat, k \in S PROVE k + 1 \in S
  <2> SUFFICES ASSUME k + 1 <= n PROVE Sums(a)[k + 1] = Sums(b)[k + 1]
    OBVIOUS
  <2>1. Sums(a)[k] = Sums(b)[k]
    BY <1>0, <1>2
  <2>2. k \in 0 .. Width - 1 /\ Term(a, k) = Term(b, k)
    BY <1>0 DEF Term
  <2> QED
    BY <2>1, <2>2, Recurrence
<1>3. Nat \subseteq S
  <2> HIDE DEF S
  <2> QED
    BY <1>1, <1>2, Induction
<1>4. n \in S
  BY <1>0, <1>3, Zenon
<1> QED
  BY <1>0, <1>4

\* Bits above the highest one add nothing.
LEMMA ValueOfLow ==
    ASSUME NEW bits, NEW n \in 0 .. Width, bits \intersect (n .. Width - 1) = {}
    PROVE  Value(bits) = Sums(bits)[n]
<1>0. Width \in Nat /\ n \in Nat
  BY WidthAssumption
<1> DEFINE S == {k \in Nat : n + k <= Width => Sums(bits)[n + k] = Sums(bits)[n]}
<1>1. 0 \in S
  BY <1>0
<1>2. ASSUME NEW k \in Nat, k \in S PROVE k + 1 \in S
  <2> SUFFICES ASSUME n + (k + 1) <= Width PROVE Sums(bits)[n + (k + 1)] = Sums(bits)[n]
    OBVIOUS
  <2>1. Sums(bits)[n + k] = Sums(bits)[n]
    BY <1>0, <1>2
  <2>2. n + k \in 0 .. Width - 1 /\ n + (k + 1) = (n + k) + 1 /\ Term(bits, n + k) = 0
    BY <1>0 DEF Term
  <2>3. Sums(bits)[(n + k) + 1] = Sums(bits)[n + k] + Term(bits, n + k)
    BY <2>2, Recurrence
  <2>4. Sums(bits)[n + k] \in Nat
    <3>1. n + k \in 0 .. Width
      BY <1>0, <2>2
    <3> QED
      BY <3>1, SumRange
  <2> QED
    BY <2>1, <2>2, <2>3, <2>4
<1>3. Nat \subseteq S
  <2> HIDE DEF S
  <2> QED
    BY <1>1, <1>2, Induction
<1>4. Width - n \in S
  <2>1. Width - n \in Nat
    BY <1>0
  <2> QED
    BY <2>1, <1>3, Zenon
<1> QED
  BY <1>0, <1>4 DEF Value

\* A shift by k multiplies by 2 ^ k.
LEMMA SumShift ==
    ASSUME NEW bits \in SUBSET Nat, NEW k \in Nat, NEW n \in Nat, n + k <= Width
    PROVE  Sums(Put(bits, k))[n + k] = Sums(bits)[n] * 2 ^ k
<1>0. Width \in Nat
  BY WidthAssumption
<1> DEFINE moved == Put(bits, k)
<1>1. ASSUME NEW j \in Nat PROVE /\ j < k => Term(moved, j) = 0
                                 /\ j + k \in moved <=> j \in bits
  BY DEF Put, Term
<1> HIDE DEF moved
<1>2. Sums(moved)[k] = 0
  <2>1. k \in 0 .. Width /\ \A j \in 0 .. k - 1 : j \in moved <=> j \in {}
    <3> SUFFICES ASSUME NEW j \in 0 .. k - 1, j \in moved PROVE FALSE
      BY <1>0
    <3> QED
      BY DEF Put, moved
  <2>2. Sums(moved)[k] = Sums({})[k]
    BY <2>1, SumLocal
  <2>3. {} \intersect (0 .. Width - 1) = {} /\ {} \intersect (k .. Width - 1) = {}
    OBVIOUS
  <2>4. Value({}) = Sums({})[0] /\ Value({}) = Sums({})[k]
    BY <1>0, <2>1, <2>3, ValueOfLow
  <2> QED
    BY <2>2, <2>4, Recurrence
<1> DEFINE S == {j \in Nat : j + k <= Width => Sums(moved)[j + k] = Sums(bits)[j] * 2 ^ k}
<1>3. 0 \in S
  BY <1>2, Recurrence, Power
<1>4. ASSUME NEW j \in Nat, j \in S PROVE j + 1 \in S
  <2> SUFFICES ASSUME (j + 1) + k <= Width
               PROVE  Sums(moved)[(j + 1) + k] = Sums(bits)[j + 1] * 2 ^ k
    OBVIOUS
  <2>1. Sums(moved)[j + k] = Sums(bits)[j] * 2 ^ k
    BY <1>0, <1>4
  <2>2. j \in 0 .. Width - 1 /\ j + k \in 0 .. Width - 1 /\ (j + 1) + k = (j + k) + 1
    BY <1>0
  <2>3. /\ Sums(bits)[j + 1] = Sums(bits)[j] + Term(bits, j)
        /\ Sums(moved)[(j + k) + 1] = Sums(moved)[j + k] + Term(moved, j + k)
    BY <2>2, Recurrence
  <2>4. Term(moved, j + k) = Term(bits, j) * 2 ^ k
    <3>1. 2 ^ (j + k) = 2 ^ j * 2 ^ k /\ 2 ^ k \in Nat
      BY PowerSum, Power
    <3>2. j + k \in moved <=> j \in bits
      BY <1>1
    <3> QED
      BY <3>1, <3>2 DEF Term
  <2>5. Sums(bits)[j] \in Nat /\ Term(bits, j) \in Nat /\ 2 ^ k \in Nat
    <3>1. j \in 0 .. Width /\ 2 ^ j \in Nat /\ 2 ^ k \in Nat
      BY <1>0, <2>2, Power
    <3>2. Term(bits, j) \in Nat
      BY <3>1 DEF Term
    <3> QED
      BY <3>1, <3>2, SumRange
  <2>6. ASSUME NEW x \in Nat, NEW y \in Nat, NEW z \in Nat PROVE x * z + y * z = (x + y) * z
    OBVIOUS
  <2> QED
    BY <2>1, <2>2, <2>3, <2>4, <2>5, <2>6
<1>5. Nat \subseteq S
  <2> HIDE DEF S
  <2> QED
    BY <1>3, <1>4, Induction
<1>6. n \in S
  BY <1>5, Zenon
<1> QED
  BY <1>6 DEF moved

LEMMA SumOfNone ==
    ASSUME NEW bits, NEW n \in 0 .. Width, bits \intersect (0 .. n - 1) = {}
    PROVE  Sums(bits)[n] = 0
<1>0. Width \in Nat
  BY WidthAssumption
<1>1. Sums(bits)[n] = Sums({})[n]
  BY SumLocal
<1>2. Value({}) = Sums({})[0] /\ Value({}) = Sums({})[n]
  BY <1>0, ValueOfLow
<1> QED
  BY <1>1, <1>2, Recurrence

LEMMA Mod == ASSUME NEW W \in Nat \ {0}, NEW a \in 0 .. W - 1 PROVE a % W = a
OBVIOUS

LEMMA ModBelow == ASSUME NEW W \in Nat \ {0}, NEW a \in -W .. -1 PROVE a % W = a + W
OBVIOUS

LEMMA LimitFacts == /\ Width \in Nat /\ Width - 1 \in Nat /\ Limit \in Nat \ {0}
                    /\ Limit = 2 * 2 ^ (Width - 1) /\ Limit \div 2 = 2 ^ (Width - 1)
                    /\ 2 ^ (Width - 1) \in Nat
<1>1. Width \in Nat /\ Width - 1 \in Nat /\ (Width - 1) + 1 = Width
  BY WidthAssumption
<1>2. 2 ^ (Width - 1) \in Nat /\ 2 ^ ((Width - 1) + 1) = 2 * 2 ^ (Width - 1) /\ 2 ^ (Width - 1) >= 1
  BY <1>1, Power, PowerGrows
<1>3. ASSUME NEW x \in Nat PROVE (2 * x) \div 2 = x
  OBVIOUS
<1> QED
  BY <1>1, <1>2, <1>3 DEF Limit

\* RorkHookArm64SignExtend is two's complement, for every width.
LEMMA SignExtendIsTwosComplement ==
    ASSUME NEW value, NEW w \in 1 .. Width
    PROVE  /\ SignExtend(value, w) = TwosComplement(value, w)
           /\ TwosComplement(value, w) \in -(2 ^ (w - 1)) .. 2 ^ (w - 1) - 1
<1>0. /\ w \in 0 .. Width /\ w - 1 \in 0 .. Width - 1 /\ w - 1 \in Nat /\ w - 1 \in 0 .. Width
      /\ w > 0 /\ w <= Width /\ (w - 1) + 1 = w
  BY LimitFacts
<1> DEFINE p == 2 ^ (w - 1)
           x == Sums(value)[w - 1]
<1>1. x \in Nat /\ p \in Nat /\ x < p /\ p <= 2 ^ (Width - 1)
  BY <1>0, LimitFacts, SumRange, Power, PowerOrder
<1>2. TwosComplement(value, w) = x - (IF w - 1 \in value THEN p ELSE 0)
  <2> DEFINE low == value \intersect (0 .. w - 2)
  <2>1. /\ low \intersect (w - 1 .. Width - 1) = {}
        /\ \A k \in 0 .. (w - 1) - 1 : k \in low <=> k \in value
    BY <1>0
  <2> HIDE DEF low
  <2>2. Value(low) = x
    BY <1>0, <2>1, ValueOfLow, SumLocal
  <2> QED
    BY <2>2 DEF TwosComplement, low
<1>3. CASE w = Width
  <2>1. Value(value) = x + Term(value, w - 1)
    BY <1>0, <1>3, Recurrence DEF Value
  <2>2. SignExtend(value, w) = Signed(Value(value))
    BY <1>0, <1>3 DEF SignExtend
  <2> HIDE DEF p, x
  <2>3. Value(value) = x + (IF w - 1 \in value THEN p ELSE 0)
    BY <2>1 DEF Term, p
  <2>4. Limit \div 2 = p /\ Limit = 2 * p
    BY <1>3, LimitFacts DEF p
  <2>5. Signed(Value(value)) = x - (IF w - 1 \in value THEN p ELSE 0)
    BY <1>1, <2>3, <2>4 DEF Signed
  <2> QED
    BY <1>1, <1>2, <2>2, <2>5 DEF p
<1>4. CASE w # Width
  <2> DEFINE masked == value \intersect (0 .. w - 1)
             signBit == {w - 1}
             flipped == (masked \ signBit) \union (signBit \ masked)
  <2>1. SignExtend(value, w) = Signed((Value(flipped) - Value(signBit)) % Limit)
    <3>1. ~(w <= 0 \/ w > Width) /\ ~(w = Width)
      BY <1>0, <1>4, LimitFacts
    <3> QED
      BY <3>1, Zenon DEF SignExtend
  <2>2. /\ flipped \intersect (w .. Width - 1) = {}
        /\ \A k \in 0 .. (w - 1) - 1 : k \in flipped <=> k \in value
        /\ w - 1 \in flipped <=> w - 1 \notin value
    BY <1>0
  <2>3. /\ signBit \intersect (w .. Width - 1) = {}
        /\ signBit \intersect (0 .. (w - 1) - 1) = {}
        /\ w - 1 \in signBit
    BY <1>0
  <2> HIDE DEF masked, signBit, flipped, p, x
  <2>4. Value(flipped) = x + (IF w - 1 \in value THEN 0 ELSE p)
    <3>1. Value(flipped) = Sums(flipped)[w]
      BY <1>0, <2>2, ValueOfLow
    <3>2. Sums(flipped)[(w - 1) + 1] = Sums(flipped)[w - 1] + Term(flipped, w - 1)
      BY <1>0, Recurrence
    <3>3. Sums(flipped)[w - 1] = x
      BY <1>0, <2>2, SumLocal DEF x
    <3> QED
      BY <1>0, <2>2, <3>1, <3>2, <3>3 DEF Term, p
  <2>5. Value(signBit) = p
    <3>1. Value(signBit) = Sums(signBit)[w]
      BY <1>0, <2>3, ValueOfLow
    <3>2. Sums(signBit)[(w - 1) + 1] = Sums(signBit)[w - 1] + Term(signBit, w - 1)
      BY <1>0, Recurrence
    <3>3. Sums(signBit)[w - 1] = 0
      BY <1>0, <2>3, SumOfNone
    <3> QED
      BY <1>0, <1>1, <2>3, <3>1, <3>2, <3>3 DEF Term, p
  <2>6. Limit \in Nat \ {0} /\ Limit \div 2 >= p /\ Limit = 2 * (Limit \div 2) /\ Limit \div 2 \in Nat
    BY <1>1, LimitFacts
  <2>7. CASE w - 1 \in value
    <3>1. (Value(flipped) - Value(signBit)) \in -Limit .. -1 /\ Value(flipped) - Value(signBit) = x - p
      BY <1>1, <2>4, <2>5, <2>6, <2>7
    <3>2. (x - p) % Limit = (x - p) + Limit
      BY <2>6, <3>1, ModBelow
    <3> QED
      BY <1>1, <1>2, <2>1, <2>6, <2>7, <3>1, <3>2 DEF Signed, p
  <2>8. CASE w - 1 \notin value
    <3>1. (Value(flipped) - Value(signBit)) \in 0 .. Limit - 1 /\ Value(flipped) - Value(signBit) = x
      BY <1>1, <2>4, <2>5, <2>6, <2>8
    <3>2. x % Limit = x
      BY <2>6, <3>1, Mod
    <3> QED
      BY <1>1, <1>2, <2>1, <2>6, <2>8, <3>1, <3>2 DEF Signed, p
  <2> QED
    BY <2>7, <2>8
<1> QED
  BY <1>3, <1>4

-----------------------------------------------------------------------------
(* The bits of an instruction.                                             *)

LEMMA RegisterValue == ASSUME NEW r \in Registers PROVE Value(BitsOf(r)) = r
<1> DEFINE bits == BitsOf(r)
<1>1. 5 \in 0 .. Width /\ \A k \in {0, 1, 2, 3, 4} : k \in 0 .. Width - 1
  BY WidthAssumption
<1>2. bits \intersect (5 .. Width - 1) = {}
  BY WidthAssumption DEF BitsOf
<1>3. Value(bits) = Sums(bits)[5]
  BY <1>1, <1>2, ValueOfLow
<1>4. /\ Term(bits, 0) = r % 2 /\ Term(bits, 1) = 2 * ((r \div 2) % 2)
      /\ Term(bits, 2) = 4 * ((r \div 4) % 2) /\ Term(bits, 3) = 8 * ((r \div 8) % 2)
      /\ Term(bits, 4) = 16 * ((r \div 16) % 2)
  BY SmallPowers DEF Term, BitsOf, Registers
<1> HIDE DEF bits
<1>5. /\ Sums(bits)[0 + 1] = Sums(bits)[0] + Term(bits, 0)
      /\ Sums(bits)[1 + 1] = Sums(bits)[1] + Term(bits, 1)
      /\ Sums(bits)[2 + 1] = Sums(bits)[2] + Term(bits, 2)
      /\ Sums(bits)[3 + 1] = Sums(bits)[3] + Term(bits, 3)
      /\ Sums(bits)[4 + 1] = Sums(bits)[4] + Term(bits, 4)
      /\ Sums(bits)[0] = 0
  BY <1>1, Recurrence
<1>6. Sums(bits)[5] = (r % 2) + 2 * ((r \div 2) % 2) + 4 * ((r \div 4) % 2)
                      + 8 * ((r \div 8) % 2) + 16 * ((r \div 16) % 2)
  BY <1>4, <1>5 DEF Registers
<1>7. ASSUME NEW n \in 0 .. 31
      PROVE  (n % 2) + 2 * ((n \div 2) % 2) + 4 * ((n \div 4) % 2)
                  + 8 * ((n \div 8) % 2) + 16 * ((n \div 16) % 2) = n
  OBVIOUS
<1> QED
  BY <1>3, <1>6, <1>7 DEF Registers, bits

LEMMA InBits == ASSUME NEW n, NEW b, b \in BitsOf(n) PROVE b \in 0 .. 4
BY DEF BitsOf

LEMMA InPut ==
    ASSUME NEW S \in SUBSET Int, NEW k \in Int, NEW b \in Int
    PROVE  b \in Put(S, k) <=> b - k \in S
BY DEF Put

LEMMA PutType == ASSUME NEW S \in SUBSET Int, NEW k \in Int PROVE Put(S, k) \in SUBSET Int
BY DEF Put

LEMMA InField ==
    ASSUME NEW word \in SUBSET Int, NEW low \in Int, NEW width \in Int, NEW b \in Int
    PROVE  b \in Field(word, low, width) <=> b \in 0 .. width - 1 /\ b + low \in word
BY DEF Field

LEMMA FieldType ==
    ASSUME NEW word \in SUBSET Int, NEW low \in Int, NEW width \in Int
    PROVE  Field(word, low, width) \in SUBSET (0 .. width - 1)
BY DEF Field

\* A field is what was put there.
LEMMA FieldIs ==
    ASSUME NEW word \in SUBSET Int, NEW low, low \in Int, NEW width, width \in Int,
           NEW S, \A b \in S : b \in Int /\ 0 <= b /\ b < width,
           \A b \in Int : 0 <= b /\ b < width => (b + low \in word <=> b \in S)
    PROVE  Field(word, low, width) = S
<1>1. ASSUME NEW b \in Int PROVE b \in Field(word, low, width) <=> b \in S
  BY InField
<1>2. Field(word, low, width) \subseteq Int /\ S \subseteq Int
  BY FieldType
<1> QED
  BY <1>1, <1>2

ADRs == {"ADRP", "ADR"}
ADDs == {"ADD", "ADDS", "SUB", "ADDW"}
LDRs == {"LDR", "STR", "LDRW"}
LDURs == {"LDUR", "STUR", "LDRpost", "LDTR", "LDRpre"}
MOVs == {"MOVZ", "MOVK", "MOVN", "MOVZW"}
Bs == {"B", "BL"}

LEMMA Operations == DOMAIN Opcode = ADRs \union ADDs \union LDRs \union LDURs \union MOVs \union Bs \union {"Bcond"}
BY DEF Opcode, ADRs, ADDs, LDRs, LDURs, MOVs, Bs

LEMMA OpcodeBits == ASSUME NEW op \in DOMAIN Opcode PROVE Opcode[op] \in SUBSET Bits32
BY Operations DEF Opcode, ADRs, ADDs, LDRs, LDURs, MOVs, Bs, Bits32

LEMMA BitsOfADR ==
    ASSUME NEW i \in Instructions, i.op \in ADRs
    PROVE  /\ Assemble(i) \in SUBSET Int
           /\ \A b \in Int : b \in Assemble(i) <=>
                 \/ b \in Opcode[i.op] \/ b \in BitsOf(i.rd)
                 \/ b - 29 \in {0, 1} /\ b - 29 \in i.imm
                 \/ b - 3 \notin {0, 1} /\ b - 3 \in i.imm
<1>1. i.imm \in SUBSET (0 .. 20) /\ i.rd \in Registers /\ i.op \in DOMAIN Opcode
  BY InstructionsAssumption DEF ImmWidth, ADRs
<1>2. Opcode[i.op] \in SUBSET Int /\ BitsOf(i.rd) \in SUBSET Int
  BY <1>1, OpcodeBits, InBits DEF Bits32
<1>3. /\ Put(i.imm \intersect {0, 1}, 29) \in SUBSET Int /\ Put(i.imm \ {0, 1}, 3) \in SUBSET Int
      /\ \A b \in Int : /\ b \in Put(i.imm \intersect {0, 1}, 29) <=> b - 29 \in i.imm \intersect {0, 1}
                        /\ b \in Put(i.imm \ {0, 1}, 3) <=> b - 3 \in i.imm \ {0, 1}
  BY <1>1, InPut, PutType
<1>4. Assemble(i) = Opcode[i.op] \union
          (BitsOf(i.rd) \union Put(i.imm \intersect {0, 1}, 29) \union Put(i.imm \ {0, 1}, 3))
  BY Zenon DEF Assemble, ADRs
<1> QED
  BY <1>2, <1>3, <1>4

LEMMA BitsOfADD ==
    ASSUME NEW i \in Instructions, i.op \in ADDs
    PROVE  /\ Assemble(i) \in SUBSET Int
           /\ \A b \in Int : b \in Assemble(i) <=>
                 \/ b \in Opcode[i.op] \/ b \in BitsOf(i.rd) \/ b - 5 \in BitsOf(i.rn)
                 \/ b - 10 \in i.imm \/ b - 22 \in BitsOf(i.sh)
<1>1. i.imm \in SUBSET (0 .. 11) /\ i.op \in DOMAIN Opcode
  BY InstructionsAssumption DEF ImmWidth, ADDs
<1>2. /\ Opcode[i.op] \in SUBSET Int /\ BitsOf(i.rd) \in SUBSET Int
      /\ BitsOf(i.rn) \in SUBSET Int /\ BitsOf(i.sh) \in SUBSET Int
  BY <1>1, OpcodeBits, InBits DEF Bits32
<1>3. /\ Put(BitsOf(i.rn), 5) \in SUBSET Int /\ Put(i.imm, 10) \in SUBSET Int
      /\ Put(BitsOf(i.sh), 22) \in SUBSET Int
      /\ \A b \in Int : /\ b \in Put(BitsOf(i.rn), 5) <=> b - 5 \in BitsOf(i.rn)
                        /\ b \in Put(i.imm, 10) <=> b - 10 \in i.imm
                        /\ b \in Put(BitsOf(i.sh), 22) <=> b - 22 \in BitsOf(i.sh)
  BY <1>1, <1>2, InPut, PutType
<1>4. Assemble(i) = Opcode[i.op] \union
          (BitsOf(i.rd) \union Put(BitsOf(i.rn), 5) \union Put(i.imm, 10) \union Put(BitsOf(i.sh), 22))
  <2>1. i.op \notin ADRs
    BY DEF ADRs, ADDs
  <2> QED
    BY <2>1 DEF Assemble, ADRs, ADDs
<1> QED
  BY <1>2, <1>3, <1>4

LEMMA BitsOfLDR ==
    ASSUME NEW i \in Instructions, i.op \in LDRs
    PROVE  /\ Assemble(i) \in SUBSET Int
           /\ \A b \in Int : b \in Assemble(i) <=>
                 \/ b \in Opcode[i.op] \/ b \in BitsOf(i.rd) \/ b - 5 \in BitsOf(i.rn)
                 \/ b - 10 \in i.imm
<1>1. i.imm \in SUBSET (0 .. 11) /\ i.op \in DOMAIN Opcode
  BY InstructionsAssumption DEF ImmWidth, LDRs
<1>2. /\ Opcode[i.op] \in SUBSET Int /\ BitsOf(i.rd) \in SUBSET Int
      /\ BitsOf(i.rn) \in SUBSET Int
  BY <1>1, OpcodeBits, InBits DEF Bits32
<1>3. /\ Put(BitsOf(i.rn), 5) \in SUBSET Int /\ Put(i.imm, 10) \in SUBSET Int
      /\ \A b \in Int : /\ b \in Put(BitsOf(i.rn), 5) <=> b - 5 \in BitsOf(i.rn)
                        /\ b \in Put(i.imm, 10) <=> b - 10 \in i.imm
  BY <1>1, <1>2, InPut, PutType
<1>4. Assemble(i) = Opcode[i.op] \union
          (BitsOf(i.rd) \union Put(BitsOf(i.rn), 5) \union Put(i.imm, 10))
  <2>1. i.op \notin ADRs /\ i.op \notin ADDs
    BY DEF ADRs, ADDs, LDRs
  <2> QED
    BY <2>1 DEF Assemble, ADRs, ADDs, LDRs
<1> QED
  BY <1>2, <1>3, <1>4

LEMMA BitsOfLDUR ==
    ASSUME NEW i \in Instructions, i.op \in LDURs
    PROVE  /\ Assemble(i) \in SUBSET Int
           /\ \A b \in Int : b \in Assemble(i) <=>
                 \/ b \in Opcode[i.op] \/ b \in BitsOf(i.rd) \/ b - 5 \in BitsOf(i.rn)
                 \/ b - 12 \in i.imm
<1>1. i.imm \in SUBSET (0 .. 8) /\ i.op \in DOMAIN Opcode
  BY InstructionsAssumption DEF ImmWidth, LDURs
<1>2. /\ Opcode[i.op] \in SUBSET Int /\ BitsOf(i.rd) \in SUBSET Int
      /\ BitsOf(i.rn) \in SUBSET Int
  BY <1>1, OpcodeBits, InBits DEF Bits32
<1>3. /\ Put(BitsOf(i.rn), 5) \in SUBSET Int /\ Put(i.imm, 12) \in SUBSET Int
      /\ \A b \in Int : /\ b \in Put(BitsOf(i.rn), 5) <=> b - 5 \in BitsOf(i.rn)
                        /\ b \in Put(i.imm, 12) <=> b - 12 \in i.imm
  BY <1>1, <1>2, InPut, PutType
<1>4. Assemble(i) = Opcode[i.op] \union
          (BitsOf(i.rd) \union Put(BitsOf(i.rn), 5) \union Put(i.imm, 12))
  <2>1. i.op \notin ADRs /\ i.op \notin ADDs /\ i.op \notin LDRs
    BY DEF ADRs, ADDs, LDRs, LDURs
  <2> QED
    BY <2>1 DEF Assemble, ADRs, ADDs, LDRs, LDURs
<1> QED
  BY <1>2, <1>3, <1>4

LEMMA BitsOfMOV ==
    ASSUME NEW i \in Instructions, i.op \in MOVs
    PROVE  /\ Assemble(i) \in SUBSET Int
           /\ \A b \in Int : b \in Assemble(i) <=>
                 \/ b \in Opcode[i.op] \/ b \in BitsOf(i.rd)
                 \/ b - 5 \in i.imm \/ b - 21 \in BitsOf(i.sh)
<1>1. i.imm \in SUBSET (0 .. 15) /\ i.op \in DOMAIN Opcode
  BY InstructionsAssumption DEF ImmWidth, MOVs
<1>2. /\ Opcode[i.op] \in SUBSET Int /\ BitsOf(i.rd) \in SUBSET Int
      /\ BitsOf(i.sh) \in SUBSET Int
  BY <1>1, OpcodeBits, InBits DEF Bits32
<1>3. /\ Put(BitsOf(i.sh), 21) \in SUBSET Int /\ Put(i.imm, 5) \in SUBSET Int
      /\ \A b \in Int : /\ b \in Put(BitsOf(i.sh), 21) <=> b - 21 \in BitsOf(i.sh)
                        /\ b \in Put(i.imm, 5) <=> b - 5 \in i.imm
  BY <1>1, <1>2, InPut, PutType
<1>4. Assemble(i) = Opcode[i.op] \union
          (BitsOf(i.rd) \union Put(i.imm, 5) \union Put(BitsOf(i.sh), 21))
  <2>1. i.op \notin ADRs /\ i.op \notin ADDs /\ i.op \notin LDRs /\ i.op \notin LDURs
    BY DEF ADRs, ADDs, LDRs, LDURs, MOVs
  <2> QED
    BY <2>1 DEF Assemble, ADRs, ADDs, LDRs, LDURs, MOVs
<1> QED
  BY <1>2, <1>3, <1>4

LEMMA BitsOfB ==
    ASSUME NEW i \in Instructions, i.op \in Bs \union {"Bcond"}
    PROVE  /\ Assemble(i) \in SUBSET Int
           /\ \A b \in Int : b \in Assemble(i) <=>
                 \/ b \in Opcode[i.op]
                 \/ i.op \in Bs /\ b \in i.imm
                 \/ i.op = "Bcond" /\ (b - 5 \in i.imm \/ b = 0)
<1>0. i.op \notin ADRs /\ i.op \notin ADDs /\ i.op \notin LDRs /\ i.op \notin LDURs /\ i.op \notin MOVs
  BY DEF ADRs, ADDs, LDRs, LDURs, MOVs, Bs
<1>1. i.op \in DOMAIN Opcode /\ Opcode[i.op] \in SUBSET Int
  BY InstructionsAssumption, OpcodeBits DEF Bits32
<1>2. CASE i.op \in Bs
  <2>1. i.imm \in SUBSET (0 .. 25)
    BY <1>2, InstructionsAssumption DEF ImmWidth, Bs
  <2>2. Assemble(i) = Opcode[i.op] \union i.imm
    BY <1>0, <1>2 DEF Assemble, ADRs, ADDs, LDRs, LDURs, MOVs, Bs
  <2> QED
    BY <1>1, <1>2, <2>1, <2>2 DEF Bs
<1>3. CASE i.op = "Bcond"
  <2>1. i.imm \in SUBSET (0 .. 18)
    BY <1>3, InstructionsAssumption DEF ImmWidth
  <2>2. Assemble(i) = Opcode[i.op] \union (Put(i.imm, 5) \union {0})
    BY <1>0, <1>3 DEF Assemble, ADRs, ADDs, LDRs, LDURs, MOVs, Bs
  <2>3. Put(i.imm, 5) \in SUBSET Int /\ \A b \in Int : b \in Put(i.imm, 5) <=> b - 5 \in i.imm
    BY <2>1, InPut, PutType
  <2> QED
    BY <1>1, <1>3, <2>1, <2>2, <2>3 DEF Bs
<1> QED
  BY <1>2, <1>3

\* The bits that no register and no immediate reaches are those of the opcode.
Fixed(op) == CASE op \in ADRs -> (24 .. 28) \union {31}
               [] op \in ADDs \union MOVs -> 23 .. 31
               [] op \in LDRs -> 22 .. 31
               [] op \in LDURs -> (21 .. 31) \union {10, 11}
               [] op \in Bs -> 26 .. 31
               [] op = "Bcond" -> 24 .. 31

LEMMA SmallShift == ASSUME NEW n \in 0 .. 3, NEW b \in BitsOf(n) PROVE b \in {0, 1} /\ (n < 2 => b = 0)
<1>1. 2 \notin BitsOf(n) /\ 3 \notin BitsOf(n) /\ 4 \notin BitsOf(n)
  BY SmallPowers DEF BitsOf
<1>2. 1 \in BitsOf(n) => n >= 2
  BY SmallPowers DEF BitsOf
<1> QED
  BY <1>1, <1>2, InBits

LEMMA FixedAre ==
    ASSUME NEW op
    PROVE  /\ op \in ADRs => Fixed(op) = (24 .. 28) \union {31}
           /\ op \in ADDs \union MOVs => Fixed(op) = 23 .. 31
           /\ op \in LDRs => Fixed(op) = 22 .. 31
           /\ op \in LDURs => Fixed(op) = (21 .. 31) \union {10, 11}
           /\ op \in Bs => Fixed(op) = 26 .. 31
           /\ op = "Bcond" => Fixed(op) = 24 .. 31
BY DEF Fixed, ADRs, ADDs, LDRs, LDURs, MOVs, Bs

LEMMA FixedBits ==
    ASSUME NEW i \in Instructions, NEW b \in Fixed(i.op)
    PROVE  b \in Int /\ (b \in Assemble(i) <=> b \in Opcode[i.op])
<1>1. /\ i.op \in DOMAIN Opcode /\ i.imm \subseteq 0 .. ImmWidth(i.op) - 1
      /\ i.sh \in 0 .. (IF i.op \in {"MOVZ", "MOVK", "MOVN"} THEN 3 ELSE 1)
  BY InstructionsAssumption
<1>2. CASE i.op \in ADRs
  <2>1. i.imm \subseteq 0 .. 20 /\ b \in (24 .. 28) \union {31}
    BY <1>1, <1>2, FixedAre DEF ImmWidth, ADRs, ADDs, LDRs, LDURs, MOVs, Bs
  <2> QED
    BY <1>2, <2>1, BitsOfADR, InBits
<1>3. CASE i.op \in ADDs
  <2>1. i.imm \subseteq 0 .. 11 /\ b \in 23 .. 31 /\ i.sh \in 0 .. 1
    BY <1>1, <1>3, FixedAre DEF ImmWidth, ADRs, ADDs, LDRs, LDURs, MOVs, Bs
  <2>2. b - 22 \notin BitsOf(i.sh)
    BY <2>1, SmallShift
  <2> QED
    BY <1>3, <2>1, <2>2, BitsOfADD, InBits
<1>4. CASE i.op \in LDRs
  <2>1. i.imm \subseteq 0 .. 11 /\ b \in 22 .. 31
    BY <1>1, <1>4, FixedAre DEF ImmWidth, ADRs, ADDs, LDRs, LDURs, MOVs, Bs
  <2> QED
    BY <1>4, <2>1, BitsOfLDR, InBits
<1>5. CASE i.op \in LDURs
  <2>1. i.imm \subseteq 0 .. 8 /\ b \in (21 .. 31) \union {10, 11}
    BY <1>1, <1>5, FixedAre DEF ImmWidth, ADRs, ADDs, LDRs, LDURs, MOVs, Bs
  <2> QED
    BY <1>5, <2>1, BitsOfLDUR, InBits
<1>6. CASE i.op \in MOVs
  <2>1. i.imm \subseteq 0 .. 15 /\ b \in 23 .. 31 /\ i.sh \in 0 .. 3
    BY <1>1, <1>6, FixedAre DEF ImmWidth, ADRs, ADDs, LDRs, LDURs, MOVs, Bs
  <2>2. b - 21 \notin BitsOf(i.sh)
    BY <2>1, SmallShift
  <2> QED
    BY <1>6, <2>1, <2>2, BitsOfMOV, InBits
<1>7. CASE i.op \in Bs
  <2>1. i.imm \subseteq 0 .. 25 /\ b \in 26 .. 31 /\ i.op # "Bcond"
    BY <1>1, <1>7, FixedAre DEF ImmWidth, ADRs, ADDs, LDRs, LDURs, MOVs, Bs
  <2> QED
    BY <1>7, <2>1, BitsOfB
<1>8. CASE i.op = "Bcond"
  <2>1. i.imm \subseteq 0 .. 18 /\ b \in 24 .. 31 /\ i.op \notin Bs
    BY <1>1, <1>8, FixedAre DEF ImmWidth, ADRs, ADDs, LDRs, LDURs, MOVs, Bs
  <2> QED
    BY <1>8, <2>1, BitsOfB
<1> QED
  BY <1>1, <1>2, <1>3, <1>4, <1>5, <1>6, <1>7, <1>8, Operations

\* Which kind of instruction a word is.
LEMMA Telling ==
    ASSUME NEW i \in Instructions
    PROVE  /\ 26 \in Assemble(i) <=> i.op \in Bs \union {"Bcond"}
           /\ 27 \in Assemble(i) <=> i.op \in LDRs \union LDURs
           /\ i.op \notin Bs =>
                 /\ 24 \in Assemble(i) <=> i.op \in ADDs \union LDRs
                 /\ 25 \in Assemble(i) <=> i.op \in MOVs
<1>1. i.op \in DOMAIN Opcode
  BY InstructionsAssumption
<1>2. /\ {26, 27} \subseteq Fixed(i.op)
      /\ i.op \notin Bs => {24, 25} \subseteq Fixed(i.op)
  BY <1>1, Operations, FixedAre DEF ADRs, ADDs, LDRs, LDURs, MOVs, Bs
<1>3. /\ 26 \in Opcode[i.op] <=> i.op \in Bs \union {"Bcond"}
      /\ 27 \in Opcode[i.op] <=> i.op \in LDRs \union LDURs
      /\ 24 \in Opcode[i.op] <=> i.op \in ADDs \union LDRs
      /\ 25 \in Opcode[i.op] <=> i.op \in MOVs
  BY <1>1, Operations DEF Opcode, ADRs, ADDs, LDRs, LDURs, MOVs, Bs
<1> QED
  BY <1>2, <1>3, FixedBits

LEMMA MatchesBits ==
    ASSUME NEW word, NEW mask, NEW opcode, Matches(word, mask, opcode)
    PROVE  \A b \in mask : b \in word <=> b \in opcode
BY DEF Matches

LEMMA MatchesItself ==
    ASSUME NEW i \in Instructions, NEW mask \in SUBSET Fixed(i.op), Opcode[i.op] \subseteq mask
    PROVE  Matches(Assemble(i), mask, Opcode[i.op])
BY FixedBits DEF Matches

\* Each mask and opcode of the source selects one instruction among all.
LEMMA MatchADRP ==
    ASSUME NEW i \in Instructions
    PROVE  Matches(Assemble(i), {31} \union (24 .. 28), {31, 28}) <=> i.op = "ADRP"
<1>0. i.op \in DOMAIN Opcode
  BY InstructionsAssumption
<1>1. ASSUME i.op = "ADRP" PROVE Matches(Assemble(i), {31} \union (24 .. 28), {31, 28})
  <2>1. Opcode[i.op] = {31, 28}
    BY <1>1 DEF Opcode
  <2>2. Fixed(i.op) = {31} \union (24 .. 28)
    BY <1>1, FixedAre DEF ADRs
  <2>3. Opcode[i.op] \subseteq Fixed(i.op)
    BY <2>1, <2>2
  <2> QED
    BY <2>1, <2>2, <2>3, MatchesItself
<1>2. ASSUME Matches(Assemble(i), {31} \union (24 .. 28), {31, 28}) PROVE i.op = "ADRP"
  <2>1. /\ 24 \notin Assemble(i) /\ 25 \notin Assemble(i) /\ 26 \notin Assemble(i)
        /\ 27 \notin Assemble(i) /\ 31 \in Assemble(i)
    BY <1>2, MatchesBits
  <2>2. i.op \in ADRs
    BY <1>0, <2>1, Telling, Operations
  <2>3. 31 \in Fixed(i.op)
    BY <2>2, FixedAre
  <2>4. 31 \in Opcode[i.op]
    BY <2>1, <2>3, FixedBits
  <2> QED
    BY <2>2, <2>4 DEF Opcode, ADRs
<1> QED
  BY <1>1, <1>2

LEMMA MatchADD ==
    ASSUME NEW i \in Instructions
    PROVE  Matches(Assemble(i), 23 .. 31, {31, 28, 24}) <=> i.op = "ADD"
<1>0. i.op \in DOMAIN Opcode
  BY InstructionsAssumption
<1>1. ASSUME i.op = "ADD" PROVE Matches(Assemble(i), 23 .. 31, {31, 28, 24})
  <2>1. Opcode[i.op] = {31, 28, 24}
    BY <1>1 DEF Opcode
  <2>2. Fixed(i.op) = 23 .. 31
    BY <1>1, FixedAre DEF ADDs
  <2>3. Opcode[i.op] \subseteq Fixed(i.op)
    BY <2>1, <2>2
  <2> QED
    BY <2>1, <2>2, <2>3, MatchesItself
<1>2. ASSUME Matches(Assemble(i), 23 .. 31, {31, 28, 24}) PROVE i.op = "ADD"
  <2>1. /\ 24 \in Assemble(i) /\ 26 \notin Assemble(i) /\ 27 \notin Assemble(i)
        /\ 29 \notin Assemble(i) /\ 30 \notin Assemble(i) /\ 31 \in Assemble(i)
    BY <1>2, MatchesBits
  <2>2. i.op \in ADDs
    BY <1>0, <2>1, Telling, Operations
  <2>3. {29, 30, 31} \subseteq Fixed(i.op)
    BY <2>2, FixedAre
  <2>4. 29 \notin Opcode[i.op] /\ 30 \notin Opcode[i.op] /\ 31 \in Opcode[i.op]
    BY <2>1, <2>3, FixedBits
  <2> QED
    BY <2>2, <2>4 DEF Opcode, ADDs
<1> QED
  BY <1>1, <1>2

LEMMA MatchLDR ==
    ASSUME NEW i \in Instructions
    PROVE  IsLDRUnsigned(Assemble(i)) <=> i.op = "LDR"
<1>0. i.op \in DOMAIN Opcode
  BY InstructionsAssumption
<1>1. ASSUME i.op = "LDR" PROVE IsLDRUnsigned(Assemble(i))
  <2>1. Opcode[i.op] = (27 .. 31) \union {24, 22}
    BY <1>1 DEF Opcode
  <2>2. Fixed(i.op) = 22 .. 31
    BY <1>1, FixedAre DEF LDRs
  <2>3. Opcode[i.op] \subseteq Fixed(i.op)
    BY <2>1, <2>2
  <2> QED
    BY <2>1, <2>2, <2>3, MatchesItself DEF IsLDRUnsigned
<1>2. ASSUME IsLDRUnsigned(Assemble(i)) PROVE i.op = "LDR"
  <2>0. \A b \in 22 .. 31 : b \in Assemble(i) <=> b \in (27 .. 31) \union {24, 22}
    BY <1>2, MatchesBits DEF IsLDRUnsigned
  <2>1. /\ 22 \in Assemble(i) /\ 24 \in Assemble(i) /\ 26 \notin Assemble(i)
        /\ 27 \in Assemble(i) /\ 30 \in Assemble(i)
    BY <2>0
  <2>2. i.op \in LDRs
    BY <1>0, <2>1, Telling, Operations DEF ADDs, LDRs, LDURs, Bs
  <2>3. {22, 30} \subseteq Fixed(i.op)
    BY <2>2, FixedAre
  <2>4. 22 \in Opcode[i.op] /\ 30 \in Opcode[i.op]
    BY <2>1, <2>3, FixedBits
  <2> QED
    BY <2>2, <2>4 DEF Opcode, LDRs
<1> QED
  BY <1>1, <1>2

LEMMA MatchLDRpre ==
    ASSUME NEW i \in Instructions
    PROVE  Matches(Assemble(i), (21 .. 31) \union {10, 11}, (27 .. 31) \union {22, 11, 10})
           <=> i.op = "LDRpre"
<1>0. i.op \in DOMAIN Opcode
  BY InstructionsAssumption
<1> DEFINE mask == (21 .. 31) \union {10, 11}
           opcode == (27 .. 31) \union {22, 11, 10}
<1>1. ASSUME i.op = "LDRpre" PROVE Matches(Assemble(i), mask, opcode)
  <2>1. Opcode[i.op] = opcode
    BY <1>1 DEF Opcode
  <2>2. Fixed(i.op) = mask
    BY <1>1, FixedAre DEF LDURs
  <2>3. Opcode[i.op] \subseteq Fixed(i.op)
    BY <2>1, <2>2
  <2> HIDE DEF mask, opcode
  <2> QED
    BY <2>1, <2>2, <2>3, MatchesItself
<1>2. ASSUME Matches(Assemble(i), mask, opcode) PROVE i.op = "LDRpre"
  <2>0. \A b \in mask : b \in Assemble(i) <=> b \in opcode
    BY <1>2, MatchesBits
  <2>1. /\ 10 \in Assemble(i) /\ 11 \in Assemble(i) /\ 24 \notin Assemble(i)
        /\ 26 \notin Assemble(i) /\ 27 \in Assemble(i)
    BY <2>0
  <2>2. i.op \in LDURs
    BY <1>0, <2>1, Telling, Operations DEF ADDs, LDRs, LDURs, Bs
  <2>3. {10, 11} \subseteq Fixed(i.op)
    BY <2>2, FixedAre
  <2>4. 10 \in Opcode[i.op] /\ 11 \in Opcode[i.op]
    BY <2>1, <2>3, FixedBits
  <2> QED
    BY <2>2, <2>4 DEF Opcode, LDURs
<1> QED
  BY <1>1, <1>2

LEMMA MatchLDUR ==
    ASSUME NEW i \in Instructions
    PROVE  Matches(Assemble(i), (21 .. 31) \union {10, 11}, (27 .. 31) \union {22})
           <=> i.op = "LDUR"
<1>0. i.op \in DOMAIN Opcode
  BY InstructionsAssumption
<1> DEFINE mask == (21 .. 31) \union {10, 11}
           opcode == (27 .. 31) \union {22}
<1>1. ASSUME i.op = "LDUR" PROVE Matches(Assemble(i), mask, opcode)
  <2>1. Opcode[i.op] = opcode
    BY <1>1 DEF Opcode
  <2>2. Fixed(i.op) = mask
    BY <1>1, FixedAre DEF LDURs
  <2>3. Opcode[i.op] \subseteq Fixed(i.op)
    BY <2>1, <2>2
  <2> QED
    BY <2>1, <2>2, <2>3, MatchesItself
<1>2. ASSUME Matches(Assemble(i), mask, opcode) PROVE i.op = "LDUR"
  <2>0. \A b \in mask : b \in Assemble(i) <=> b \in opcode
    BY <1>2, MatchesBits
  <2>1. /\ 10 \notin Assemble(i) /\ 11 \notin Assemble(i) /\ 22 \in Assemble(i)
        /\ 24 \notin Assemble(i) /\ 26 \notin Assemble(i) /\ 27 \in Assemble(i)
    BY <2>0
  <2>2. i.op \in LDURs
    BY <1>0, <2>1, Telling, Operations DEF ADDs, LDRs, LDURs, Bs
  <2>3. {10, 11, 22} \subseteq Fixed(i.op)
    BY <2>2, FixedAre
  <2>4. 10 \notin Opcode[i.op] /\ 11 \notin Opcode[i.op] /\ 22 \in Opcode[i.op]
    BY <2>1, <2>3, FixedBits
  <2> QED
    BY <2>2, <2>4 DEF Opcode, LDURs
<1> QED
  BY <1>1, <1>2

LEMMA MatchMOVZ ==
    ASSUME NEW i \in Instructions
    PROVE  Matches(Assemble(i), 23 .. 31, {31, 30, 28, 25, 23}) <=> i.op = "MOVZ"
<1>0. i.op \in DOMAIN Opcode
  BY InstructionsAssumption
<1>1. ASSUME i.op = "MOVZ" PROVE Matches(Assemble(i), 23 .. 31, {31, 30, 28, 25, 23})
  <2>1. Opcode[i.op] = {31, 30, 28, 25, 23}
    BY <1>1 DEF Opcode
  <2>2. Fixed(i.op) = 23 .. 31
    BY <1>1, FixedAre DEF MOVs
  <2>3. Opcode[i.op] \subseteq Fixed(i.op)
    BY <2>1, <2>2
  <2> QED
    BY <2>1, <2>2, <2>3, MatchesItself
<1>2. ASSUME Matches(Assemble(i), 23 .. 31, {31, 30, 28, 25, 23}) PROVE i.op = "MOVZ"
  <2>1. /\ 25 \in Assemble(i) /\ 26 \notin Assemble(i)
        /\ 29 \notin Assemble(i) /\ 30 \in Assemble(i) /\ 31 \in Assemble(i)
    BY <1>2, MatchesBits
  <2>2. i.op \in MOVs
    BY <1>0, <2>1, Telling, Operations
  <2>3. {29, 30, 31} \subseteq Fixed(i.op)
    BY <2>2, FixedAre
  <2>4. 29 \notin Opcode[i.op] /\ 30 \in Opcode[i.op] /\ 31 \in Opcode[i.op]
    BY <2>1, <2>3, FixedBits
  <2> QED
    BY <2>2, <2>4 DEF Opcode, MOVs
<1> QED
  BY <1>1, <1>2

LEMMA MatchB ==
    ASSUME NEW i \in Instructions
    PROVE  Matches(Assemble(i), 26 .. 31, {28, 26}) <=> i.op = "B"
<1>0. i.op \in DOMAIN Opcode
  BY InstructionsAssumption
<1>1. ASSUME i.op = "B" PROVE Matches(Assemble(i), 26 .. 31, {28, 26})
  <2>1. Opcode[i.op] = {28, 26}
    BY <1>1 DEF Opcode
  <2>2. Fixed(i.op) = 26 .. 31
    BY <1>1, FixedAre DEF Bs
  <2>3. Opcode[i.op] \subseteq Fixed(i.op)
    BY <2>1, <2>2
  <2> QED
    BY <2>1, <2>2, <2>3, MatchesItself
<1>2. ASSUME Matches(Assemble(i), 26 .. 31, {28, 26}) PROVE i.op = "B"
  <2>1. 26 \in Assemble(i) /\ 30 \notin Assemble(i) /\ 31 \notin Assemble(i)
    BY <1>2, MatchesBits
  <2>2. i.op \in Bs \union {"Bcond"}
    BY <2>1, Telling
  <2>3. {30, 31} \subseteq Fixed(i.op)
    BY <2>2, FixedAre
  <2>4. 30 \notin Opcode[i.op] /\ 31 \notin Opcode[i.op]
    BY <2>1, <2>3, FixedBits
  <2> QED
    BY <2>2, <2>4 DEF Opcode, Bs
<1> QED
  BY <1>1, <1>2

-----------------------------------------------------------------------------
(* The fields of an instruction.                                           *)

LEMMA RegisterField ==
    ASSUME NEW word \in SUBSET Int, NEW low \in Int, NEW r \in Registers,
           \A b \in 0 .. 4 : b + low \in word <=> b \in BitsOf(r)
    PROVE  Value(Field(word, low, 5)) = r
<1>1. /\ \A b \in BitsOf(r) : b \in Int /\ 0 <= b /\ b < 5
      /\ \A b \in Int : 0 <= b /\ b < 5 => (b + low \in word <=> b \in BitsOf(r))
  BY InBits
<1>2. Field(word, low, 5) = BitsOf(r)
  <2>1. 5 \in Int
    OBVIOUS
  <2> QED
    BY <1>1, <2>1, FieldIs, Zenon
<1> QED
  BY <1>2, RegisterValue

LEMMA FieldsOfADRP ==
    ASSUME NEW i \in Instructions, i.op = "ADRP"
    PROVE  /\ Value(Field(Assemble(i), 0, 5)) = i.rd
           /\ Put(Field(Assemble(i), 5, 19), 2) \union Field(Assemble(i), 29, 2) = i.imm
<1> DEFINE word == Assemble(i)
<1>1. i.imm \in SUBSET (0 .. 20) /\ i.rd \in Registers /\ i.op \in ADRs
  BY InstructionsAssumption DEF ImmWidth, ADRs
<1>2. Opcode[i.op] = {31, 28}
  BY DEF Opcode
<1>3. /\ word \in SUBSET Int
      /\ \A b \in Int : b \in word <=>
             \/ b \in {31, 28} \/ b \in BitsOf(i.rd)
             \/ b - 29 \in {0, 1} /\ b - 29 \in i.imm
             \/ b - 3 \notin {0, 1} /\ b - 3 \in i.imm
  BY <1>1, <1>2, BitsOfADR
<1> HIDE DEF word
<1>4. Value(Field(word, 0, 5)) = i.rd
  <2>1. \A b \in 0 .. 4 : b + 0 \in word <=> b \in BitsOf(i.rd)
    BY <1>1, <1>3
  <2> QED
    BY <1>1, <1>3, <2>1, RegisterField
<1>5. \A b \in Int : /\ b \in Field(word, 5, 19) <=> b \in 0 .. 18 /\ b + 5 \in word
                     /\ b \in Field(word, 29, 2) <=> b \in 0 .. 1 /\ b + 29 \in word
  BY <1>3, InField
<1>6. Field(word, 5, 19) \in SUBSET Int /\ Field(word, 29, 2) \in SUBSET Int
  BY DEF Field
<1>7. /\ Put(Field(word, 5, 19), 2) \in SUBSET Int
      /\ \A b \in Int : b \in Put(Field(word, 5, 19), 2) <=> b - 2 \in Field(word, 5, 19)
  BY <1>6, InPut, PutType
<1>8. ASSUME NEW b \in Int
      PROVE  b \in Put(Field(word, 5, 19), 2) \union Field(word, 29, 2) <=> b \in i.imm
  <2>1. b \in Put(Field(word, 5, 19), 2) <=> b \in 2 .. 20 /\ b + 3 \in word
    BY <1>5, <1>7
  <2>2. b \in 2 .. 20 => (b + 3 \in word <=> b \in i.imm)
    BY <1>1, <1>3, InBits
  <2>3. b \in 0 .. 1 => (b + 29 \in word <=> b \in i.imm)
    BY <1>1, <1>3, InBits
  <2> QED
    BY <1>1, <1>5, <2>1, <2>2, <2>3
<1> QED
  BY <1>1, <1>4, <1>6, <1>7, <1>8 DEF word

LEMMA FieldsOfADD ==
    ASSUME NEW i \in Instructions, i.op = "ADD"
    PROVE  /\ Value(Field(Assemble(i), 0, 5)) = i.rd
           /\ Value(Field(Assemble(i), 5, 5)) = i.rn
           /\ Field(Assemble(i), 10, 12) = i.imm
           /\ Value(Field(Assemble(i), 22, 2)) = i.sh
<1> DEFINE word == Assemble(i)
<1>1. /\ i.imm \in SUBSET (0 .. 11) /\ i.rd \in Registers /\ i.rn \in Registers /\ i.op \in ADDs
      /\ i.sh \in 0 .. 1
  BY InstructionsAssumption DEF ImmWidth, ADDs
<1>2. Opcode[i.op] = {31, 28, 24}
  BY DEF Opcode
<1>3. /\ word \in SUBSET Int
      /\ \A b \in Int : b \in word <=>
             \/ b \in {31, 28, 24} \/ b \in BitsOf(i.rd) \/ b - 5 \in BitsOf(i.rn)
             \/ b - 10 \in i.imm \/ b - 22 \in BitsOf(i.sh)
  BY <1>1, <1>2, BitsOfADD
<1>4. BitsOf(i.sh) \in SUBSET (0 .. 1) /\ BitsOf(i.sh) \subseteq {0}
  BY <1>1, SmallShift
<1> HIDE DEF word
<1>5. Value(Field(word, 0, 5)) = i.rd
  <2>1. \A b \in 0 .. 4 : b + 0 \in word <=> b \in BitsOf(i.rd)
    BY <1>1, <1>3, <1>4, InBits
  <2> QED
    BY <1>1, <1>3, <2>1, RegisterField
<1>6. Value(Field(word, 5, 5)) = i.rn
  <2>1. \A b \in 0 .. 4 : b + 5 \in word <=> b \in BitsOf(i.rn)
    BY <1>1, <1>3, <1>4, InBits
  <2> QED
    BY <1>1, <1>3, <2>1, RegisterField
<1>7. Field(word, 10, 12) = i.imm
  <2>1. \A b \in Int : 0 <= b /\ b < 12 => (b + 10 \in word <=> b \in i.imm)
    BY <1>1, <1>3, <1>4, InBits
  <2>2. \A b \in i.imm : b \in Int /\ 0 <= b /\ b < 12
    BY <1>1
  <2>3. \A b \in Int : b \in Field(word, 10, 12) <=> b \in 0 .. 12 - 1 /\ b + 10 \in word
    BY <1>3, InField
  <2>4. Field(word, 10, 12) \in SUBSET Int
    BY DEF Field
  <2> QED
    BY <2>1, <2>2, <2>3, <2>4
<1>8. Field(word, 22, 2) = BitsOf(i.sh)
  <2>1. \A b \in Int : 0 <= b /\ b < 2 => (b + 22 \in word <=> b \in BitsOf(i.sh))
    BY <1>1, <1>3, <1>4, InBits
  <2>2. \A b \in BitsOf(i.sh) : b \in Int /\ 0 <= b /\ b < 2
    BY <1>4
  <2>3. \A b \in Int : b \in Field(word, 22, 2) <=> b \in 0 .. 2 - 1 /\ b + 22 \in word
    BY <1>3, InField
  <2>4. Field(word, 22, 2) \in SUBSET Int
    BY DEF Field
  <2> QED
    BY <2>1, <2>2, <2>3, <2>4
<1>9. Value(BitsOf(i.sh)) = i.sh
  BY <1>1, RegisterValue DEF Registers
<1> QED
  BY <1>5, <1>6, <1>7, <1>8, <1>9 DEF word

LEMMA FieldsOfLDR ==
    ASSUME NEW i \in Instructions, i.op = "LDR"
    PROVE  Value(Field(Assemble(i), 5, 5)) = i.rn /\ Field(Assemble(i), 10, 12) = i.imm
<1> DEFINE word == Assemble(i)
<1>1. i.imm \in SUBSET (0 .. 11) /\ i.rn \in Registers /\ i.op \in LDRs
  BY InstructionsAssumption DEF ImmWidth, LDRs
<1>2. Opcode[i.op] = (27 .. 31) \union {24, 22}
  BY DEF Opcode
<1>3. /\ word \in SUBSET Int
      /\ \A b \in Int : b \in word <=>
             \/ b \in (27 .. 31) \union {24, 22} \/ b \in BitsOf(i.rd) \/ b - 5 \in BitsOf(i.rn)
             \/ b - 10 \in i.imm
  BY <1>1, <1>2, BitsOfLDR
<1> HIDE DEF word
<1>4. Value(Field(word, 5, 5)) = i.rn
  <2>1. \A b \in 0 .. 4 : b + 5 \in word <=> b \in BitsOf(i.rn)
    BY <1>1, <1>3, InBits
  <2> QED
    BY <1>1, <1>3, <2>1, RegisterField
<1>5. Field(word, 10, 12) = i.imm
  <2>1. \A b \in Int : 0 <= b /\ b < 12 => (b + 10 \in word <=> b \in i.imm)
    BY <1>1, <1>3, InBits
  <2>2. \A b \in i.imm : b \in Int /\ 0 <= b /\ b < 12
    BY <1>1
  <2>3. \A b \in Int : b \in Field(word, 10, 12) <=> b \in 0 .. 12 - 1 /\ b + 10 \in word
    BY <1>3, InField
  <2>4. Field(word, 10, 12) \in SUBSET Int
    BY DEF Field
  <2> QED
    BY <2>1, <2>2, <2>3, <2>4
<1> QED
  BY <1>4, <1>5 DEF word

LEMMA FieldsOfLDUR ==
    ASSUME NEW i \in Instructions, i.op \in {"LDUR", "LDRpre"}
    PROVE  Value(Field(Assemble(i), 5, 5)) = i.rn /\ Field(Assemble(i), 12, 9) = i.imm
<1> DEFINE word == Assemble(i)
<1>1. i.imm \in SUBSET (0 .. 8) /\ i.rn \in Registers /\ i.op \in LDURs
  BY InstructionsAssumption DEF ImmWidth, LDURs
<1>2. Opcode[i.op] \subseteq (27 .. 31) \union {22, 10, 11}
  BY DEF Opcode
<1>3. /\ word \in SUBSET Int
      /\ \A b \in Int : b \in word <=>
             \/ b \in Opcode[i.op] \/ b \in BitsOf(i.rd) \/ b - 5 \in BitsOf(i.rn)
             \/ b - 12 \in i.imm
  BY <1>1, BitsOfLDUR
<1> HIDE DEF word
<1>4. Value(Field(word, 5, 5)) = i.rn
  <2>1. \A b \in 0 .. 4 : b + 5 \in word <=> b \in BitsOf(i.rn)
    BY <1>1, <1>2, <1>3, InBits
  <2> QED
    BY <1>1, <1>3, <2>1, RegisterField
<1>5. Field(word, 12, 9) = i.imm
  <2>1. \A b \in Int : 0 <= b /\ b < 9 => (b + 12 \in word <=> b \in i.imm)
    BY <1>1, <1>2, <1>3, InBits
  <2>2. \A b \in i.imm : b \in Int /\ 0 <= b /\ b < 9
    BY <1>1
  <2>3. \A b \in Int : b \in Field(word, 12, 9) <=> b \in 0 .. 9 - 1 /\ b + 12 \in word
    BY <1>3, InField
  <2>4. Field(word, 12, 9) \in SUBSET Int
    BY DEF Field
  <2> QED
    BY <2>1, <2>2, <2>3, <2>4
<1> QED
  BY <1>4, <1>5 DEF word

LEMMA FieldsOfMOVZ ==
    ASSUME NEW i \in Instructions, i.op = "MOVZ"
    PROVE  Value(Field(Assemble(i), 21, 2)) = i.sh /\ Field(Assemble(i), 5, 16) = i.imm
<1> DEFINE word == Assemble(i)
<1>1. i.imm \in SUBSET (0 .. 15) /\ i.sh \in 0 .. 3 /\ i.op \in MOVs
  BY InstructionsAssumption DEF ImmWidth, MOVs
<1>2. Opcode[i.op] = {31, 30, 28, 25, 23}
  BY DEF Opcode
<1>3. /\ word \in SUBSET Int
      /\ \A b \in Int : b \in word <=>
             \/ b \in {31, 30, 28, 25, 23} \/ b \in BitsOf(i.rd)
             \/ b - 5 \in i.imm \/ b - 21 \in BitsOf(i.sh)
  BY <1>1, <1>2, BitsOfMOV
<1>4. BitsOf(i.sh) \in SUBSET (0 .. 1)
  BY <1>1, SmallShift
<1> HIDE DEF word
<1>5. Field(word, 5, 16) = i.imm
  <2>1. \A b \in Int : 0 <= b /\ b < 16 => (b + 5 \in word <=> b \in i.imm)
    BY <1>1, <1>3, <1>4, InBits
  <2>2. \A b \in i.imm : b \in Int /\ 0 <= b /\ b < 16
    BY <1>1
  <2>3. \A b \in Int : b \in Field(word, 5, 16) <=> b \in 0 .. 16 - 1 /\ b + 5 \in word
    BY <1>3, InField
  <2>4. Field(word, 5, 16) \in SUBSET Int
    BY DEF Field
  <2> QED
    BY <2>1, <2>2, <2>3, <2>4
<1>6. Field(word, 21, 2) = BitsOf(i.sh)
  <2>1. \A b \in Int : 0 <= b /\ b < 2 => (b + 21 \in word <=> b \in BitsOf(i.sh))
    BY <1>1, <1>3, <1>4, InBits
  <2>2. \A b \in BitsOf(i.sh) : b \in Int /\ 0 <= b /\ b < 2
    BY <1>4
  <2>3. \A b \in Int : b \in Field(word, 21, 2) <=> b \in 0 .. 2 - 1 /\ b + 21 \in word
    BY <1>3, InField
  <2>4. Field(word, 21, 2) \in SUBSET Int
    BY DEF Field
  <2> QED
    BY <2>1, <2>2, <2>3, <2>4
<1>7. Value(BitsOf(i.sh)) = i.sh
  BY <1>1, RegisterValue DEF Registers
<1> QED
  BY <1>5, <1>6, <1>7 DEF word

LEMMA FieldsOfB ==
    ASSUME NEW i \in Instructions, i.op = "B"
    PROVE  Field(Assemble(i), 0, 26) = i.imm
<1>1. i.imm \in SUBSET (0 .. 25) /\ i.op \in Bs \union {"Bcond"} /\ i.op \in Bs
  BY InstructionsAssumption DEF ImmWidth, Bs
<1>2. Opcode[i.op] = {28, 26}
  BY DEF Opcode
<1>3. /\ Assemble(i) \in SUBSET Int
      /\ \A b \in Int : b \in Assemble(i) <=> b \in {28, 26} \/ b \in i.imm
  BY <1>1, <1>2, BitsOfB
<1>4. \A b \in Int : 0 <= b /\ b < 26 => (b + 0 \in Assemble(i) <=> b \in i.imm)
  BY <1>3
<1>5. \A b \in i.imm : b \in Int /\ 0 <= b /\ b < 26
  BY <1>1
<1>6. \A b \in Int : b \in Field(Assemble(i), 0, 26) <=> b \in 0 .. 26 - 1 /\ b + 0 \in Assemble(i)
  BY <1>3, InField
<1>7. Field(Assemble(i), 0, 26) \in SUBSET Int
  BY DEF Field
<1> QED
  BY <1>4, <1>5, <1>6, <1>7

-----------------------------------------------------------------------------
(* Addresses.                                                              *)

\* RorkHookAddSignedOffset is exact, or refuses what leaves the address space.
LEMMA AddIsExact ==
    ASSUME NEW base \in Addresses, NEW offset \in Int
    PROVE  AddSignedOffset(base, offset) =
               IF base + offset \in Addresses THEN base + offset ELSE Refused
BY LimitFacts DEF AddSignedOffset, Addresses, Refused

LEMMA RefusedIsNoAddress == Refused \notin Addresses
BY LimitFacts DEF Refused, Addresses

LEMMA PageBase ==
    ASSUME NEW a \in Nat, NEW P \in Nat \ {0}
    PROVE  /\ a - (a % P) = (a \div P) * P
           /\ a % P \in 0 .. a /\ a \div P \in Nat
OBVIOUS

LEMMA ImmediateIs ==
    ASSUME NEW i \in Instructions, i.op \in {"ADRP", "LDUR", "LDRpre", "B"}
    PROVE  /\ SignExtend(i.imm, ImmWidth(i.op)) = Imm(i) /\ Imm(i) \in Int
           /\ i.op = "ADRP" => ImmWidth(i.op) = 21
           /\ i.op \in {"LDUR", "LDRpre"} => ImmWidth(i.op) = 9
           /\ i.op = "B" => ImmWidth(i.op) = 26
<1>1. /\ i.op = "ADRP" => ImmWidth(i.op) = 21
      /\ i.op \in {"LDUR", "LDRpre"} => ImmWidth(i.op) = 9
      /\ i.op = "B" => ImmWidth(i.op) = 26
  BY DEF ImmWidth
<1>2. ImmWidth(i.op) \in 1 .. Width /\ ImmWidth(i.op) - 1 \in Nat
  BY <1>1, WidthAssumption
<1>3. /\ SignExtend(i.imm, ImmWidth(i.op)) = TwosComplement(i.imm, ImmWidth(i.op))
      /\ TwosComplement(i.imm, ImmWidth(i.op)) \in
            -(2 ^ (ImmWidth(i.op) - 1)) .. 2 ^ (ImmWidth(i.op) - 1) - 1
      /\ 2 ^ (ImmWidth(i.op) - 1) \in Nat
  BY <1>2, SignExtendIsTwosComplement, Power
<1> QED
  BY <1>1, <1>3 DEF Imm

LEMMA DecoderCall ==
    ASSUME NEW c \in Calls, c.fn \in Decoders
    PROVE  /\ c.instruction \in Instructions /\ c.pc \in Addresses /\ c.pc \in Nat
           /\ c.base \in Registers /\ c.given \in SUBSET Outputs
BY CallsAssumption, LimitFacts DEF Decoders, Addresses

\* The page that RorkHookArm64DecodeADRP computes.
LEMMA PageIs ==
    ASSUME NEW c \in Calls, c.fn = "ADRP", c.instruction.op = "ADRP"
    PROVE  AddSignedOffset(c.pc - (c.pc % 2 ^ PageShift),
                           SignExtend(Put(Field(Assemble(c.instruction), 5, 19), 2)
                                      \union Field(Assemble(c.instruction), 29, 2), 21)
                           * 2 ^ PageShift)
               = IF Page(c) \in Addresses THEN Page(c) ELSE Refused
<1> DEFINE i == c.instruction
           P == 2 ^ PageShift
<1>1. i \in Instructions /\ c.pc \in Nat /\ c.pc \in Addresses
  BY DecoderCall DEF Decoders
<1>2. SignExtend(Put(Field(Assemble(i), 5, 19), 2) \union Field(Assemble(i), 29, 2), 21) = Imm(i)
      /\ Imm(i) \in Int
  BY <1>1, FieldsOfADRP, ImmediateIs
<1>3. P \in Nat \ {0}
  BY WidthAssumption, Power, PowerGrows
<1> HIDE DEF P, i
<1>4. /\ c.pc - (c.pc % P) = (c.pc \div P) * P /\ c.pc % P \in 0 .. c.pc /\ c.pc \div P \in Nat
  BY <1>1, <1>3, PageBase
<1>5. c.pc - (c.pc % P) \in Addresses /\ Imm(i) * P \in Int
  BY <1>1, <1>2, <1>3, <1>4, LimitFacts DEF Addresses
<1>6. c.pc - (c.pc % P) + Imm(i) * P = (c.pc \div P + Imm(i)) * P
  <2>1. ASSUME NEW x \in Int, NEW y \in Int, NEW z \in Int PROVE x * z + y * z = (x + y) * z
    OBVIOUS
  <2> QED
    BY <1>2, <1>3, <1>4, <2>1
<1>7. Page(c) = (c.pc \div P + Imm(i)) * P
  BY DEF Page, P, i
<1>8. AddSignedOffset(c.pc - (c.pc % P), Imm(i) * P) =
          IF Page(c) \in Addresses THEN Page(c) ELSE Refused
  BY <1>5, <1>6, <1>7, AddIsExact
<1> QED
  BY <1>2, <1>8 DEF P, i

\* The number that a shifted ADD immediate is.
LEMMA ShiftedImmediate ==
    ASSUME NEW i \in Instructions, i.op = "ADD"
    PROVE  Value(Put(i.imm, 12 * i.sh)) = IF i.sh = 1 THEN Value(i.imm) * 2 ^ 12 ELSE Value(i.imm)
<1>1. i.imm \in SUBSET (0 .. 11) /\ i.sh \in 0 .. 1 /\ i.imm \in SUBSET Nat
  BY InstructionsAssumption DEF ImmWidth
<1>2. CASE i.sh = 0
  <2>1. Put(i.imm, 12 * i.sh) = i.imm
    BY <1>1, <1>2 DEF Put
  <2> QED
    BY <1>2, <2>1
<1>3. CASE i.sh = 1
  <2>1. Sums(Put(i.imm, 12))[24] = Sums(i.imm)[12] * 2 ^ 12
    <3>1. \A m, n, k \in Nat : m = n + k /\ m <= Width =>
              Sums(Put(i.imm, k))[m] = Sums(i.imm)[n] * 2 ^ k
      BY <1>1, SumShift
    <3>2. 24 \in Nat /\ 12 \in Nat /\ 24 = 12 + 12 /\ 24 <= Width
      BY WidthAssumption
    <3> QED
      BY <3>1, <3>2, Zenon
  <2>2. Value(i.imm) = Sums(i.imm)[12]
    BY <1>1, WidthAssumption, ValueOfLow
  <2>3. Put(i.imm, 12) \intersect (24 .. Width - 1) = {}
    BY <1>1, WidthAssumption DEF Put
  <2>4. Value(Put(i.imm, 12)) = Sums(Put(i.imm, 12))[24]
    BY <2>3, WidthAssumption, ValueOfLow
  <2> QED
    BY <1>3, <2>1, <2>2, <2>4
<1> QED
  BY <1>1, <1>2, <1>3

-----------------------------------------------------------------------------
(* One call of a decoder.                                                  *)

Given(c) == Applies(c) /\ "value" \in c.given
ReadOnly == call' = call /\ pc' = "done" /\ UNCHANGED <<code, at, regs, target>>

LEMMA DecoderAnswers ==
    ASSUME call.fn \in Decoders \ {"FollowOneBranch"}, out = Blank,
           NEW refused, NEW values, IF refused THEN Refuse ELSE Give(values),
           refused <=> ~Given(call), ~refused => values = Effect(call)
    PROVE  DecodesWhatTheProcessorDoes' /\ ReadOnly
<1>1. ReadOnly
  BY DEF Refuse, Give, Return, ReadOnly
<1>2. /\ Given(call)' = Given(call) /\ Effect(call)' = Effect(call) /\ Blank' = Blank
      /\ Given(call) \in BOOLEAN
  BY <1>1 DEF ReadOnly, Given
<1>3. CASE refused
  <2>1. result' = FALSE /\ out' = Blank /\ ~Given(call)
    BY <1>3 DEF Refuse, Return
  <2> QED
    BY <1>1, <1>2, <2>1 DEF DecodesWhatTheProcessorDoes, Given, ReadOnly
<1>4. CASE ~refused
  <2>1. result' = TRUE /\ out' = Over(Effect(call), Blank) /\ Given(call)
    BY <1>4 DEF Give, Return
  <2> QED
    BY <1>1, <1>2, <2>1 DEF DecodesWhatTheProcessorDoes, Given, ReadOnly
<1> QED
  BY <1>3, <1>4, <1>1

LEMMA ADRPAnswers ==
    ASSUME call \in Calls, out = Blank, DecodeADRP
    PROVE  DecodesWhatTheProcessorDoes' /\ ReadOnly
<1> DEFINE i == call.instruction
           decodedPage == AddSignedOffset(call.pc - (call.pc % 2 ^ PageShift),
                              SignExtend(Put(Field(Assemble(i), 5, 19), 2)
                                         \union Field(Assemble(i), 29, 2), 21) * 2 ^ PageShift)
           refused == \/ call.given # Outputs
                      \/ ~Matches(Assemble(i), {31} \union (24 .. 28), {31, 28})
                      \/ decodedPage = Refused
           values == [register |-> Value(Field(Assemble(i), 0, 5)), value |-> decodedPage]
<1>1. call.fn = "ADRP" /\ call.fn \in Decoders \ {"FollowOneBranch"}
  BY DEF DecodeADRP, Calling, Decoders
<1>2. IF refused THEN Refuse ELSE Give(values)
  BY Zenon DEF DecodeADRP, Instruction
<1>3. i \in Instructions
  BY <1>1, DecoderCall
<1>4. Given(call) <=> i.op = "ADRP" /\ Page(call) \in Addresses /\ call.given = Outputs
  BY <1>1 DEF Given, Applies, Outputs
<1>5. i.op = "ADRP" => decodedPage = IF Page(call) \in Addresses THEN Page(call) ELSE Refused
  BY <1>1, PageIs
<1>6. Effect(call) = [register |-> i.rd, value |-> Page(call)]
  BY <1>1 DEF Effect
<1> HIDE DEF decodedPage
<1>7. refused <=> ~Given(call)
  BY <1>3, <1>4, <1>5, MatchADRP, RefusedIsNoAddress
<1>8. ~refused => values = Effect(call)
  <2> SUFFICES ASSUME ~refused PROVE values = Effect(call)
    OBVIOUS
  <2>1. i.op = "ADRP" /\ Page(call) \in Addresses
    BY <1>4, <1>7
  <2>2. decodedPage = Page(call) /\ Value(Field(Assemble(i), 0, 5)) = i.rd
    BY <1>3, <1>5, <2>1, FieldsOfADRP
  <2> QED
    BY <1>6, <2>2
<1> HIDE DEF refused, values
<1> QED
  BY <1>1, <1>2, <1>7, <1>8, DecoderAnswers

LEMMA ADDAnswers ==
    ASSUME call \in Calls, out = Blank, DecodeADDImmediate
    PROVE  DecodesWhatTheProcessorDoes' /\ ReadOnly
<1> DEFINE i == call.instruction
           destination == Value(Field(Assemble(i), 0, 5))
           source == Value(Field(Assemble(i), 5, 5))
           imm12 == Value(Field(Assemble(i), 10, 12))
           shift == Value(Field(Assemble(i), 22, 2))
           refused == \/ "value" \notin call.given
                      \/ ~Matches(Assemble(i), 23 .. 31, {31, 28, 24})
                      \/ destination # call.base \/ source # call.base
           values == [value |-> IF shift = 1 THEN imm12 * 2 ^ 12 ELSE imm12]
<1>1. call.fn = "ADDImmediate" /\ call.fn \in Decoders \ {"FollowOneBranch"}
  BY DEF DecodeADDImmediate, Calling, Decoders
<1>2. IF refused THEN Refuse ELSE Give(values)
  BY Zenon DEF DecodeADDImmediate, Instruction
<1>3. i \in Instructions
  BY <1>1, DecoderCall
<1>4. Given(call) <=> i.op = "ADD" /\ {i.rd, i.rn} = {call.base} /\ "value" \in call.given
  BY <1>1 DEF Given, Applies
<1>5. i.op = "ADD" => /\ destination = i.rd /\ source = i.rn
                      /\ imm12 = Value(i.imm) /\ shift = i.sh
  BY <1>3, FieldsOfADD
<1>6. Effect(call) = [value |-> Value(Put(i.imm, 12 * i.sh))]
  BY <1>1 DEF Effect
<1> HIDE DEF destination, source, imm12, shift
<1>7. refused <=> ~Given(call)
  BY <1>3, <1>4, <1>5, MatchADD
<1>8. ~refused => values = Effect(call)
  <2> SUFFICES ASSUME ~refused PROVE values = Effect(call)
    OBVIOUS
  <2>1. i.op = "ADD"
    BY <1>4, <1>7
  <2>2. Value(Put(i.imm, 12 * i.sh)) = IF shift = 1 THEN imm12 * 2 ^ 12 ELSE imm12
    BY <1>3, <1>5, <2>1, ShiftedImmediate
  <2> QED
    BY <1>6, <2>2
<1> HIDE DEF refused, values
<1> QED
  BY <1>1, <1>2, <1>7, <1>8, DecoderAnswers

LEMMA ScaledOffsetIs ==
    ASSUME NEW i \in Instructions, i.op = "LDR"
    PROVE  ScaledOffset(Assemble(i)) = 8 * Value(i.imm)
<1>1. Value(i.imm) \in Nat
  BY WidthAssumption, SumRange, Power DEF Value
<1>2. Field(Assemble(i), 10, 12) = i.imm
  BY FieldsOfLDR
<1>3. ScaledOffset(Assemble(i)) = Value(i.imm) * 2 ^ 3
  BY <1>2 DEF ScaledOffset
<1> QED
  BY <1>1, <1>3, SmallPowers

LEMMA LDRAnswers ==
    ASSUME call \in Calls, out = Blank, DecodeLDRUnsigned64
    PROVE  DecodesWhatTheProcessorDoes' /\ ReadOnly
<1> DEFINE i == call.instruction
           base == Value(Field(Assemble(i), 5, 5))
           refused == \/ "value" \notin call.given \/ ~IsLDRUnsigned(Assemble(i))
                      \/ base # call.base
           values == [value |-> ScaledOffset(Assemble(i))]
<1>1. call.fn = "LDRUnsigned64" /\ call.fn \in Decoders \ {"FollowOneBranch"}
  BY DEF DecodeLDRUnsigned64, Calling, Decoders
<1>2. IF refused THEN Refuse ELSE Give(values)
  BY Zenon DEF DecodeLDRUnsigned64, Instruction
<1>3. i \in Instructions
  BY <1>1, DecoderCall
<1>4. Given(call) <=> i.op = "LDR" /\ i.rn = call.base /\ "value" \in call.given
  BY <1>1 DEF Given, Applies
<1>5. i.op = "LDR" => base = i.rn
  BY <1>3, FieldsOfLDR
<1>6. Effect(call) = [value |-> 8 * Value(i.imm)]
  BY <1>1 DEF Effect
<1> HIDE DEF base
<1>7. refused <=> ~Given(call)
  BY <1>3, <1>4, <1>5, MatchLDR DEF IsLDRUnsigned
<1>8. ~refused => values = Effect(call)
  BY <1>3, <1>4, <1>6, <1>7, ScaledOffsetIs
<1> HIDE DEF refused, values
<1> QED
  BY <1>1, <1>2, <1>7, <1>8, DecoderAnswers

LEMMA LDROffsetAnswers ==
    ASSUME call \in Calls, out = Blank, DecodeLDRUnsignedOffset64
    PROVE  DecodesWhatTheProcessorDoes' /\ ReadOnly
<1> DEFINE i == call.instruction
           refused == "value" \notin call.given \/ ~IsLDRUnsigned(Assemble(i))
           values == [value |-> ScaledOffset(Assemble(i))]
<1>1. call.fn = "LDRUnsignedOffset64" /\ call.fn \in Decoders \ {"FollowOneBranch"}
  BY DEF DecodeLDRUnsignedOffset64, Calling, Decoders
<1>2. IF refused THEN Refuse ELSE Give(values)
  BY Zenon DEF DecodeLDRUnsignedOffset64, Instruction
<1>3. i \in Instructions
  BY <1>1, DecoderCall
<1>4. Given(call) <=> i.op = "LDR" /\ "value" \in call.given
  BY <1>1 DEF Given, Applies
<1>6. Effect(call) = [value |-> 8 * Value(i.imm)]
  BY <1>1 DEF Effect
<1>7. refused <=> ~Given(call)
  BY <1>3, <1>4, MatchLDR DEF IsLDRUnsigned
<1>8. ~refused => values = Effect(call)
  BY <1>3, <1>4, <1>6, <1>7, ScaledOffsetIs
<1> HIDE DEF refused, values
<1> QED
  BY <1>1, <1>2, <1>7, <1>8, DecoderAnswers

LEMMA LDRPreIndexAnswers ==
    ASSUME call \in Calls, out = Blank, DecodeLDRSignedPreIndex64
    PROVE  DecodesWhatTheProcessorDoes' /\ ReadOnly
<1> DEFINE i == call.instruction
           matches == Matches(Assemble(i), (21 .. 31) \union {10, 11}, (27 .. 31) \union {22, 11, 10})
           offset == SignExtend(Field(Assemble(i), 12, 9), 9)
           refused == "value" \notin call.given \/ ~matches
           values == [value |-> offset]
<1>1. call.fn = "LDRSignedPreIndex64" /\ call.fn \in Decoders \ {"FollowOneBranch"}
  BY DEF DecodeLDRSignedPreIndex64, Calling, Decoders
<1>2. IF refused THEN Refuse ELSE Give(values)
  BY Zenon DEF DecodeLDRSignedPreIndex64, Instruction
<1>3. i \in Instructions
  BY <1>1, DecoderCall
<1>4. Given(call) <=> i.op = "LDRpre" /\ "value" \in call.given
  BY <1>1 DEF Given, Applies
<1>5. i.op = "LDRpre" => offset = Imm(i)
  BY <1>3, FieldsOfLDUR, ImmediateIs
<1>6. Effect(call) = [value |-> Imm(i)]
  BY <1>1 DEF Effect
<1>7. matches <=> i.op = "LDRpre"
  BY <1>3, MatchLDRpre
<1> HIDE DEF matches, offset
<1>8. refused <=> ~Given(call)
  BY <1>4, <1>7
<1>9. ~refused => values = Effect(call)
  BY <1>4, <1>5, <1>6, <1>8
<1> HIDE DEF refused, values
<1> QED
  BY <1>1, <1>2, <1>8, <1>9, DecoderAnswers

LEMMA LDURAnswers ==
    ASSUME call \in Calls, out = Blank, DecodeLDUR64
    PROVE  DecodesWhatTheProcessorDoes' /\ ReadOnly
<1> DEFINE i == call.instruction
           matches == Matches(Assemble(i), (21 .. 31) \union {10, 11}, (27 .. 31) \union {22})
           base == Value(Field(Assemble(i), 5, 5))
           offset == SignExtend(Field(Assemble(i), 12, 9), 9)
           refused == "value" \notin call.given \/ ~matches \/ base # call.base
           values == [value |-> offset]
<1>1. call.fn = "LDUR64" /\ call.fn \in Decoders \ {"FollowOneBranch"}
  BY DEF DecodeLDUR64, Calling, Decoders
<1>2. IF refused THEN Refuse ELSE Give(values)
  BY Zenon DEF DecodeLDUR64, Instruction
<1>3. i \in Instructions
  BY <1>1, DecoderCall
<1>4. Given(call) <=> i.op = "LDUR" /\ i.rn = call.base /\ "value" \in call.given
  BY <1>1 DEF Given, Applies
<1>5. i.op = "LDUR" => offset = Imm(i) /\ base = i.rn
  BY <1>3, FieldsOfLDUR, ImmediateIs
<1>6. Effect(call) = [value |-> Imm(i)]
  BY <1>1 DEF Effect
<1>7. matches <=> i.op = "LDUR"
  BY <1>3, MatchLDUR
<1> HIDE DEF matches, offset, base
<1>8. refused <=> ~Given(call)
  BY <1>4, <1>5, <1>7
<1>9. ~refused => values = Effect(call)
  BY <1>4, <1>5, <1>6, <1>8
<1> HIDE DEF refused, values
<1> QED
  BY <1>1, <1>2, <1>8, <1>9, DecoderAnswers

LEMMA MOVZAnswers ==
    ASSUME call \in Calls, out = Blank, DecodeMOVZImmediate
    PROVE  DecodesWhatTheProcessorDoes' /\ ReadOnly
<1> DEFINE i == call.instruction
           shift == Value(Field(Assemble(i), 21, 2))
           refused == \/ "value" \notin call.given
                      \/ ~Matches(Assemble(i), 23 .. 31, {31, 30, 28, 25, 23})
           values == [value |-> Put(Field(Assemble(i), 5, 16), shift * 16)]
<1>1. call.fn = "MOVZImmediate" /\ call.fn \in Decoders \ {"FollowOneBranch"}
  BY DEF DecodeMOVZImmediate, Calling, Decoders
<1>2. IF refused THEN Refuse ELSE Give(values)
  BY Zenon DEF DecodeMOVZImmediate, Instruction
<1>3. i \in Instructions /\ i.sh \in Int
  BY <1>1, DecoderCall, InstructionsAssumption
<1>4. Given(call) <=> i.op = "MOVZ" /\ "value" \in call.given
  BY <1>1 DEF Given, Applies
<1>5. i.op = "MOVZ" => shift = i.sh /\ Field(Assemble(i), 5, 16) = i.imm
  BY <1>3, FieldsOfMOVZ
<1>6. Effect(call) = [value |-> Put(i.imm, 16 * i.sh)]
  BY <1>1 DEF Effect
<1> HIDE DEF shift
<1>7. refused <=> ~Given(call)
  BY <1>3, <1>4, MatchMOVZ
<1>8. ~refused => values = Effect(call)
  <2>1. i.sh * 16 = 16 * i.sh
    BY <1>3
  <2> QED
    BY <1>4, <1>5, <1>6, <1>7, <2>1
<1> HIDE DEF refused, values
<1> QED
  BY <1>1, <1>2, <1>7, <1>8, DecoderAnswers

LEMMA BranchAnswers ==
    ASSUME call \in Calls, FollowOneBranch
    PROVE  FollowsTheBranch' /\ ReadOnly /\ call.fn = "FollowOneBranch"
<1> DEFINE i == call.instruction
           matches == Matches(Assemble(i), 26 .. 31, {28, 26})
           branch == AddSignedOffset(call.pc, SignExtend(Field(Assemble(i), 0, 26), 26) * 4)
           refused == call.pc = Null \/ ~matches \/ branch = Refused
<1>1. call.fn = "FollowOneBranch" /\ call.fn \in Decoders
  BY DEF FollowOneBranch, Calling, Decoders
<1>2. IF refused THEN Return(call.pc) ELSE Return(branch)
  BY Zenon DEF FollowOneBranch, Instruction
<1>3. i \in Instructions /\ call.pc \in Addresses /\ call.pc \in Int
  BY <1>1, DecoderCall
<1>4. matches <=> i.op = "B"
  BY <1>3, MatchB
<1>5. i.op = "B" => branch = IF Destination(call) \in Addresses THEN Destination(call) ELSE Refused
  <2> SUFFICES ASSUME i.op = "B"
               PROVE  branch = IF Destination(call) \in Addresses THEN Destination(call) ELSE Refused
    OBVIOUS
  <2>1. SignExtend(Field(Assemble(i), 0, 26), 26) = Imm(i) /\ Imm(i) \in Int
    BY <1>3, FieldsOfB, ImmediateIs
  <2>2. branch = AddSignedOffset(call.pc, Imm(i) * 4)
    BY <2>1
  <2>3. Imm(i) * 4 \in Int /\ call.pc + Imm(i) * 4 = Destination(call)
    BY <1>3, <2>1 DEF Destination
  <2> QED
    BY <1>3, <2>2, <2>3, AddIsExact
<1>6. Applies(call) <=> i.op = "B" /\ call.pc # Null /\ Destination(call) \in Addresses
  BY <1>1 DEF Applies
<1> HIDE DEF matches, branch
<1>7. refused <=> ~Applies(call)
  BY <1>4, <1>5, <1>6, RefusedIsNoAddress
<1>8. ReadOnly
  BY <1>2 DEF Return, ReadOnly
<1>9. result' = IF Applies(call) THEN Destination(call) ELSE call.pc
  BY <1>2, <1>5, <1>6, <1>7 DEF Return
<1>10. Applies(call)' = Applies(call) /\ Destination(call)' = Destination(call) /\ call.pc' = call.pc
  BY <1>8 DEF ReadOnly
<1> QED
  BY <1>1, <1>8, <1>9, <1>10 DEF FollowsTheBranch

LEMMA SignAnswers ==
    ASSUME call \in Calls, CallSignExtend
    PROVE  ExtendsTheSign' /\ ReadOnly /\ call.fn = "SignExtend"
<1>1. call.fn = "SignExtend" /\ call.bits \in Int
  BY CallsAssumption DEF CallSignExtend, Calling, Decoders
<1>2. ReadOnly /\ result' = SignExtend(call.value, call.bits)
  BY DEF CallSignExtend, Return, ReadOnly
<1>3. CASE call.bits \in 1 .. Width
  BY <1>1, <1>2, <1>3, SignExtendIsTwosComplement DEF ExtendsTheSign, ReadOnly
<1>4. CASE call.bits \notin 1 .. Width
  <2>1. call.bits <= 0 \/ call.bits > Width
    BY <1>1, <1>4, WidthAssumption
  <2>2. SignExtend(call.value, call.bits) = 0
    BY <2>1 DEF SignExtend
  <2>3. call' = call /\ result' = 0 /\ call'.bits \notin 1 .. Width
    BY <1>2, <1>4, <2>2 DEF ReadOnly
  <2>4. ExtendsTheSign'
    BY <2>3, Zenon DEF ExtendsTheSign
  <2> QED
    BY <1>1, <1>2, <2>4
<1> QED
  BY <1>1, <1>2, <1>3, <1>4

-----------------------------------------------------------------------------
(* The absolute jump.                                                      *)

\* The address the jump is to arrive at, and the register that is to hold it
\* once the first n lanes are loaded.
Raw(c) == c.destination \ PacBits
Loaded(c, n) == (Raw(c) \intersect (0 .. 16 * n - 1)) \union (c.stale \ (0 .. 16 * n - 1))

LEMMA JumpCall ==
    ASSUME NEW c \in Calls, c.fn = "BuildAbsoluteJump"
    PROVE  /\ c.build \in {"arm64", "arm64e", "x86_64"} /\ c.destination \in SUBSET Bits64
           /\ c.build # "arm64e" => c.destination \intersect PacBits = {}
           /\ c.capacity \in Nat /\ c.stale \in SUBSET Bits64 /\ Raw(c) \in SUBSET Bits64
BY CallsAssumption DEF Decoders, Raw

\* The words of the jump, read back.
LEMMA MOVKWord ==
    ASSUME NEW k \in 0 .. 3, NEW lane \in SUBSET (0 .. 15)
    PROVE  /\ IsMOVK(EncodeMOVK(16, lane, 16 * k)) /\ ~IsBR(EncodeMOVK(16, lane, 16 * k))
           /\ Value(Field(EncodeMOVK(16, lane, 16 * k), 21, 2)) = k
           /\ Value(Field(EncodeMOVK(16, lane, 16 * k), 0, 5)) = 16
           /\ Field(EncodeMOVK(16, lane, 16 * k), 5, 16) = lane
<1> DEFINE word == EncodeMOVK(16, lane, 16 * k)
<1>1. (16 * k) \div 16 = k
  OBVIOUS
<1>2. BitsOf(k) \in SUBSET (0 .. 1) /\ BitsOf(16) \in SUBSET (0 .. 4)
  BY SmallShift, InBits
<1>3. word = {31, 30, 29, 28, 25, 23} \union Put(BitsOf(k), 21) \union Put(lane, 5) \union BitsOf(16)
  BY <1>1 DEF EncodeMOVK
<1>4. /\ word \in SUBSET Int
      /\ \A b \in Int : b \in word <=>
             \/ b \in {31, 30, 29, 28, 25, 23} \/ b - 21 \in BitsOf(k)
             \/ b - 5 \in lane \/ b \in BitsOf(16)
  <2>1. BitsOf(k) \in SUBSET Int /\ lane \in SUBSET Int /\ BitsOf(16) \in SUBSET Int
    BY <1>2
  <2>2. \A b \in Int : /\ b \in Put(BitsOf(k), 21) <=> b - 21 \in BitsOf(k)
                       /\ b \in Put(lane, 5) <=> b - 5 \in lane
    BY <2>1, InPut
  <2>3. Put(BitsOf(k), 21) \in SUBSET Int /\ Put(lane, 5) \in SUBSET Int
    BY <2>1, PutType
  <2> HIDE DEF word
  <2> QED
    BY <1>3, <2>1, <2>2, <2>3
<1> HIDE DEF word
<1>5. IsMOVK(word)
  <2>1. \A b \in 23 .. 31 : b \in word <=> b \in {31, 30, 29, 28, 25, 23}
    BY <1>2, <1>4
  <2> QED
    BY <2>1 DEF IsMOVK, Matches, Opcode
<1>6. ~IsBR(word)
  <2>1. 29 \in word
    BY <1>4
  <2> QED
    BY <2>1 DEF IsBR, Matches
<1>7. Value(Field(word, 0, 5)) = 16
  <2>1. \A b \in 0 .. 4 : b + 0 \in word <=> b \in BitsOf(16)
    BY <1>2, <1>4
  <2>2. 16 \in Registers
    BY DEF Registers
  <2> QED
    BY <1>4, <2>1, <2>2, RegisterField
<1>8. Field(word, 5, 16) = lane
  <2>1. \A b \in Int : 0 <= b /\ b < 16 => (b + 5 \in word <=> b \in lane)
    BY <1>2, <1>4
  <2>2. \A b \in lane : b \in Int /\ 0 <= b /\ b < 16
    OBVIOUS
  <2>3. \A b \in Int : b \in Field(word, 5, 16) <=> b \in 0 .. 16 - 1 /\ b + 5 \in word
    BY <1>4, InField
  <2>4. Field(word, 5, 16) \in SUBSET Int
    BY DEF Field
  <2> QED
    <3>1. lane \in SUBSET Int
      OBVIOUS
    <3>2. \A b \in Int : b \in Field(word, 5, 16) <=> b \in lane
      BY <2>1, <2>2, <2>3
    <3> HIDE DEF word
    <3> QED
      BY <2>4, <3>1, <3>2
<1>9. Field(word, 21, 2) = BitsOf(k)
  <2>1. \A b \in Int : 0 <= b /\ b < 2 => (b + 21 \in word <=> b \in BitsOf(k))
    BY <1>2, <1>4
  <2>2. \A b \in BitsOf(k) : b \in Int /\ 0 <= b /\ b < 2
    BY <1>2
  <2>3. \A b \in Int : b \in Field(word, 21, 2) <=> b \in 0 .. 2 - 1 /\ b + 21 \in word
    BY <1>4, InField
  <2>4. Field(word, 21, 2) \in SUBSET Int
    BY DEF Field
  <2> QED
    BY <2>1, <2>2, <2>3, <2>4
<1>10. Value(BitsOf(k)) = k
  BY RegisterValue DEF Registers
<1> QED
  BY <1>5, <1>6, <1>7, <1>8, <1>9, <1>10 DEF word

LEMMA BRWord == /\ IsBR(EncodeBR(16)) /\ ~IsMOVK(EncodeBR(16))
                /\ Value(Field(EncodeBR(16), 5, 5)) = 16
<1> DEFINE word == EncodeBR(16)
<1>1. BitsOf(16) \in SUBSET (0 .. 4) /\ BitsOf(16) \in SUBSET Int
  BY InBits
<1>2. \A b \in Int : b \in Put(BitsOf(16), 5) <=> b - 5 \in BitsOf(16)
  BY <1>1, InPut
<1>3. Put(BitsOf(16), 5) \in SUBSET Int
  BY <1>1, PutType
<1>4. word = {31, 30, 28, 26, 25} \union (16 .. 20) \union Put(BitsOf(16), 5)
  BY DEF EncodeBR
<1> HIDE DEF word
<1>5. /\ word \in SUBSET Int
      /\ \A b \in Int : b \in word <=> b \in {31, 30, 28, 26, 25} \/ b \in 16 .. 20 \/ b - 5 \in BitsOf(16)
  BY <1>2, <1>3, <1>4
<1>6. IsBR(word)
  <2>1. \A b \in (0 .. 4) \union (10 .. 31) :
            b \in word <=> b \in {31, 30, 28, 26, 25} \union (16 .. 20)
    BY <1>1, <1>5
  <2> QED
    BY <2>1 DEF IsBR, Matches
<1>7. ~IsMOVK(word)
  <2>1. 29 \notin word
    BY <1>1, <1>5
  <2> QED
    BY <2>1 DEF IsMOVK, Matches, Opcode
<1>8. Value(Field(word, 5, 5)) = 16
  <2>1. \A b \in 0 .. 4 : b + 5 \in word <=> b \in BitsOf(16)
    BY <1>1, <1>5
  <2>2. 16 \in Registers
    BY DEF Registers
  <2> QED
    BY <1>5, <2>1, <2>2, RegisterField
<1> QED
  BY <1>6, <1>7, <1>8 DEF word

\* One MOVK moves one more lane of the address into the register.
LEMMA OneMoreLane ==
    ASSUME NEW c \in Calls, c.fn = "BuildAbsoluteJump", NEW k \in 0 .. 3
    PROVE  (Loaded(c, k) \ (k * 16 .. k * 16 + 15)) \union Put(Field(Raw(c), 16 * k, 16), k * 16)
               = Loaded(c, k + 1)
<1>1. /\ Raw(c) \in SUBSET Int /\ c.stale \in SUBSET Int
      /\ \A b \in Raw(c) : b >= 0
      /\ \A b \in c.stale : b >= 0
  BY JumpCall DEF Bits64
<1> DEFINE lane == Field(Raw(c), 16 * k, 16)
           put == Put(lane, k * 16)
<1>2. /\ lane \in SUBSET Int
      /\ \A b \in Int : b \in lane <=> b \in 0 .. 15 /\ b + 16 * k \in Raw(c)
  BY <1>1, InField, FieldType
<1> HIDE DEF lane
<1>3. put \in SUBSET Int /\ \A b \in Int : b \in put <=> b - k * 16 \in lane
  BY <1>2, InPut, PutType
<1> HIDE DEF put
<1>4. ASSUME NEW b \in Int PROVE b \in put <=> b \in k * 16 .. k * 16 + 15 /\ b \in Raw(c)
  <2>1. b \in put <=> b - k * 16 \in 0 .. 15 /\ (b - k * 16) + 16 * k \in Raw(c)
    BY <1>2, <1>3
  <2>2. (b - k * 16) + 16 * k = b /\ (b - k * 16 \in 0 .. 15 <=> b \in k * 16 .. k * 16 + 15)
    OBVIOUS
  <2> QED
    BY <2>1, <2>2
<1>5. (Loaded(c, k) \ (k * 16 .. k * 16 + 15)) \union put = Loaded(c, k + 1)
  <2> DEFINE new == (Loaded(c, k) \ (k * 16 .. k * 16 + 15)) \union put
  <2>1. Loaded(c, k) \in SUBSET Int /\ Loaded(c, k + 1) \in SUBSET Int
    BY <1>1 DEF Loaded
  <2>2. ASSUME NEW b \in Int
        PROVE  /\ b \in Loaded(c, k) <=> IF b \in 0 .. 16 * k - 1 THEN b \in Raw(c) ELSE b \in c.stale
               /\ b \in Loaded(c, k + 1) <=>
                     IF b \in 0 .. 16 * k + 15 THEN b \in Raw(c) ELSE b \in c.stale
    BY DEF Loaded
  <2>3. ASSUME NEW b \in Int PROVE b \in new <=> b \in Loaded(c, k + 1)
    BY <1>1, <1>4, <2>2
  <2>4. new \in SUBSET Int
    BY <1>3, <2>1
  <2> HIDE DEF new
  <2>5. new = Loaded(c, k + 1)
    BY <2>1, <2>3, <2>4
  <2> QED
    BY <2>5 DEF new
<1> QED
  BY <1>5 DEF put, lane

LEMMA AllLanes ==
    ASSUME NEW c \in Calls, c.fn = "BuildAbsoluteJump"
    PROVE  Loaded(c, 4) = Raw(c) /\ Loaded(c, 0) = c.stale
BY JumpCall DEF Loaded, Bits64

\* The words that RorkHookBuildAbsoluteJump writes.
IsJump(words, c) ==
    /\ \A k \in 1 .. 4 : words[k] = EncodeMOVK(16, Field(Raw(c), 16 * (k - 1), 16), 16 * (k - 1))
    /\ words[5] = EncodeBR(16)

\* Before the call, and in the jump.
Fresh == /\ out = Blank /\ code = [k \in 1 .. Capacity(call) |-> {}]
         /\ at = 1 /\ regs = [r \in Registers |-> Stale(call)]

Running ==
    /\ call.fn = "BuildAbsoluteJump" /\ result = JumpWords /\ at \in 1 .. JumpWords
    /\ IsJump(code, call)
    /\ DOMAIN regs = Registers /\ regs[16] = Loaded(call, at - 1)
    /\ \A r \in Registers \ {16} : regs[r] = call.stale

IInv == /\ call \in Calls /\ pc \in {"call", "run", "done"}
        /\ pc = "call" => Fresh
        /\ pc = "run" => Running
        /\ DecodesWhatTheProcessorDoes /\ FollowsTheBranch /\ ExtendsTheSign /\ JumpLands

LEMMA Starts == ASSUME Init PROVE IInv
BY DEF Init, IInv, Fresh, DecodesWhatTheProcessorDoes, FollowsTheBranch, ExtendsTheSign, JumpLands

\* A decoder's answer is the end of its call, and settles the four properties.
LEMMA DecoderEnds ==
    ASSUME call \in Calls, call.fn \in Decoders, ReadOnly,
           IF call.fn = "FollowOneBranch" THEN FollowsTheBranch' ELSE DecodesWhatTheProcessorDoes'
    PROVE  IInv'
<1>1. call' \in Calls /\ pc' = "done" /\ call'.fn = call.fn
  BY DEF ReadOnly
<1>2. call'.fn # "SignExtend" /\ call'.fn # "BuildAbsoluteJump"
  BY <1>1 DEF Decoders
<1>3. ExtendsTheSign' /\ JumpLands'
  BY <1>2 DEF ExtendsTheSign, JumpLands
<1>4. DecodesWhatTheProcessorDoes' /\ FollowsTheBranch'
  <2>1. CASE call.fn = "FollowOneBranch"
    BY <1>1, <2>1 DEF DecodesWhatTheProcessorDoes
  <2>2. CASE call.fn # "FollowOneBranch"
    BY <1>1, <2>2 DEF FollowsTheBranch
  <2> QED
    BY <2>1, <2>2
<1> QED
  BY <1>1, <1>3, <1>4 DEF IInv

LEMMA SignEnds == ASSUME IInv, CallSignExtend PROVE IInv'
<1>1. ExtendsTheSign' /\ ReadOnly /\ call.fn = "SignExtend"
  BY SignAnswers DEF IInv
<1>2. call' \in Calls /\ pc' = "done" /\ call'.fn = "SignExtend"
  BY <1>1 DEF ReadOnly, IInv
<1>3. DecodesWhatTheProcessorDoes' /\ FollowsTheBranch' /\ JumpLands'
  BY <1>2 DEF DecodesWhatTheProcessorDoes, FollowsTheBranch, JumpLands, Decoders
<1> QED
  BY <1>1, <1>2, <1>3 DEF IInv

\* In the jump and after it only JumpLands says anything.
LEMMA JumpState ==
    ASSUME call' \in Calls, call'.fn = "BuildAbsoluteJump", pc' \in {"run", "done"},
           pc' = "run" => Running', JumpLands'
    PROVE  IInv'
<1>1. DecodesWhatTheProcessorDoes' /\ FollowsTheBranch' /\ ExtendsTheSign'
  BY DEF DecodesWhatTheProcessorDoes, FollowsTheBranch, ExtendsTheSign, Decoders
<1> QED
  BY <1>1 DEF IInv

\* Every instruction of the jump is one the processor here knows.
LEMMA JumpIsKnown ==
    ASSUME NEW c \in Calls, c.fn = "BuildAbsoluteJump", NEW words, IsJump(words, c),
           NEW n \in 1 .. JumpWords
    PROVE  /\ n < JumpWords => /\ IsMOVK(words[n]) /\ ~IsBR(words[n])
                               /\ Value(Field(words[n], 21, 2)) = n - 1
                               /\ Value(Field(words[n], 0, 5)) = 16
                               /\ Field(words[n], 5, 16) = Field(Raw(c), 16 * (n - 1), 16)
           /\ n = JumpWords => /\ IsBR(words[n]) /\ ~IsMOVK(words[n])
                               /\ Value(Field(words[n], 5, 5)) = 16
<1>1. Raw(c) \in SUBSET Int
  BY JumpCall DEF Bits64
<1>2. CASE n < JumpWords
  <2>1. n \in 1 .. 4
    BY <1>2 DEF JumpWords
  <2> DEFINE k == n - 1
             lane == Field(Raw(c), 16 * k, 16)
  <2>2. lane \in SUBSET (0 .. 15)
    BY <1>1, <2>1, FieldType
  <2>3. words[n] = EncodeMOVK(16, lane, 16 * k)
    BY <2>1 DEF IsJump
  <2>4. k \in 0 .. 3
    BY <2>1
  <2> HIDE DEF k, lane
  <2>5. /\ IsMOVK(words[n]) /\ ~IsBR(words[n]) /\ Value(Field(words[n], 21, 2)) = k
        /\ Value(Field(words[n], 0, 5)) = 16 /\ Field(words[n], 5, 16) = lane
    BY <2>2, <2>3, <2>4, MOVKWord
  <2> QED
    BY <1>2, <2>5 DEF k, lane
<1>3. CASE n = JumpWords
  BY <1>3, BRWord DEF IsJump, JumpWords
<1> QED
  BY <1>2, <1>3 DEF JumpWords

LEMMA BuildKeeps == ASSUME IInv, BuildAbsoluteJump PROVE IInv'
<1> DEFINE refused == \/ call.build = "x86_64"
                      \/ call.destination = {} \/ ~call.buffer \/ call.capacity < JumpWords
<1>1. /\ call \in Calls /\ call.fn = "BuildAbsoluteJump" /\ Fresh
      /\ call' = call /\ UNCHANGED <<at, regs>>
  BY DEF IInv, BuildAbsoluteJump, Calling
<1>2. call'.fn = "BuildAbsoluteJump" /\ call' \in Calls
  BY <1>1
<1>3. CASE refused
  <2>1. pc' = "done" /\ result' = 0 /\ code' = code
    BY <1>3 DEF BuildAbsoluteJump
  <2>2. JumpLands'
    BY <1>1, <2>1 DEF JumpLands, JumpWords, Fresh
  <2> QED
    BY <1>2, <2>1, <2>2, JumpState
<1>4. CASE ~refused
  <2> DEFINE word(k) == EncodeMOVK(16, Field(Raw(call), 16 * (k - 1), 16), 16 * (k - 1))
  <2>1. Strip(call.destination) = Raw(call)
    BY <1>1, JumpCall DEF Strip, Raw
  <2>2. /\ pc' = "run" /\ result' = JumpWords
        /\ code' = [k \in DOMAIN code |->
                       IF k < JumpWords
                       THEN EncodeMOVK(16, Field(Strip(call.destination), 16 * (k - 1), 16), 16 * (k - 1))
                       ELSE IF k = JumpWords THEN EncodeBR(16) ELSE code[k]]
    BY <1>4, Zenon DEF BuildAbsoluteJump
  <2>3. code' = [k \in DOMAIN code |->
                    IF k < JumpWords THEN word(k)
                    ELSE IF k = JumpWords THEN EncodeBR(16) ELSE code[k]]
    BY <2>1, <2>2, Zenon
  <2>4. DOMAIN code = 1 .. call.capacity /\ call.capacity \in Nat /\ call.capacity >= 5
    BY <1>1, <1>4, JumpCall DEF Fresh, Capacity, JumpWords
  <2>5. \A k \in 1 .. 5 : k \in DOMAIN code
    BY <2>4
  <2> HIDE DEF word
  <2>6. (\A k \in 1 .. 4 : code'[k] = word(k)) /\ code'[5] = EncodeBR(16)
    BY <2>3, <2>5 DEF JumpWords
  <2>7. /\ at' = 1 /\ regs' = [r \in Registers |-> call.stale]
        /\ DOMAIN regs' = Registers /\ 16 \in Registers
    BY <1>1 DEF Fresh, Stale, Registers
  <2>8. regs'[16] = Loaded(call, at' - 1)
    BY <1>1, <2>7, AllLanes
  <2>9. Running'
    <3>1. IsJump(code', call')
      BY <1>1, <2>6 DEF word, IsJump
    <3>2. regs'[16] = Loaded(call', at' - 1)
      BY <1>1, <2>8
    <3> QED
      BY <1>1, <1>2, <2>2, <2>7, <3>1, <3>2 DEF Running, JumpWords
  <2>10. JumpLands'
    <3>1. IsMOVK(code'[at'])
      BY <1>2, <2>7, <2>9, JumpIsKnown DEF Running, JumpWords
    <3> QED
      BY <2>2, <3>1 DEF JumpLands
  <2> QED
    BY <1>2, <2>2, <2>9, <2>10, JumpState
<1> QED
  BY <1>3, <1>4

LEMMA MOVKKeeps == ASSUME IInv, ExecuteMOVK PROVE IInv'
<1>1. /\ call \in Calls /\ Running /\ call.fn = "BuildAbsoluteJump" /\ IsMOVK(code[at])
      /\ at' = at + 1 /\ UNCHANGED <<call, pc, result, code>> /\ pc' = "run"
  BY DEF IInv, ExecuteMOVK, Running
<1>2. at \in 1 .. JumpWords /\ IsJump(code, call)
  BY <1>1 DEF Running
<1>3. at < JumpWords /\ at \in 1 .. 4
  BY <1>1, <1>2, JumpIsKnown DEF JumpWords
<1> DEFINE k == at - 1
           lane == Field(Raw(call), 16 * k, 16)
<1>4. /\ Value(Field(code[at], 21, 2)) = k /\ Value(Field(code[at], 0, 5)) = 16
      /\ Field(code[at], 5, 16) = lane
  BY <1>1, <1>2, <1>3, JumpIsKnown
<1>5. regs' = [regs EXCEPT ![16] = (@ \ (k * 16 .. k * 16 + 15)) \union Put(lane, k * 16)]
  <2>1. regs' = [regs EXCEPT ![Value(Field(code[at], 0, 5))] =
                    (@ \ (Value(Field(code[at], 21, 2)) * 16 .. Value(Field(code[at], 21, 2)) * 16 + 15))
                    \union Put(Field(code[at], 5, 16), Value(Field(code[at], 21, 2)) * 16)]
    BY Zenon DEF ExecuteMOVK
  <2> HIDE DEF k, lane
  <2> QED
    BY <1>4, <2>1, Zenon
<1>6. k \in 0 .. 3 /\ at' - 1 = k + 1 /\ at' \in 1 .. JumpWords
  BY <1>1, <1>3 DEF JumpWords
<1>7. (Loaded(call, k) \ (k * 16 .. k * 16 + 15)) \union Put(lane, k * 16) = Loaded(call, k + 1)
  BY <1>1, <1>6, OneMoreLane
<1>8. DOMAIN regs = Registers /\ regs[16] = Loaded(call, k) /\ 16 \in Registers
      /\ \A r \in Registers \ {16} : regs[r] = call.stale
  BY <1>1 DEF Running, Registers
<1> HIDE DEF k, lane
<1>9. /\ DOMAIN regs' = Registers /\ regs'[16] = Loaded(call, k + 1)
      /\ \A r \in Registers \ {16} : regs'[r] = call.stale
  BY <1>5, <1>7, <1>8
<1>10. Running'
  <2>1. regs'[16] = Loaded(call', at' - 1) /\ IsJump(code', call') /\ result' = JumpWords
    BY <1>1, <1>2, <1>6, <1>9 DEF Running
  <2> QED
    BY <1>1, <1>6, <1>9, <2>1 DEF Running
<1>11. IsMOVK(code'[at']) \/ IsBR(code'[at'])
  BY <1>1, <1>2, <1>6, JumpIsKnown DEF JumpWords
<1>12. JumpLands'
  BY <1>1, <1>11 DEF JumpLands
<1> QED
  BY <1>1, <1>10, <1>12, JumpState

LEMMA BRKeeps == ASSUME IInv, ExecuteBR PROVE IInv'
<1>1. /\ call \in Calls /\ Running /\ call.fn = "BuildAbsoluteJump" /\ IsBR(code[at])
      /\ UNCHANGED <<call, result, regs>> /\ pc' = "done"
      /\ target' = regs[Value(Field(code[at], 5, 5))]
  BY DEF IInv, ExecuteBR, Running
<1>2. at \in 1 .. JumpWords /\ IsJump(code, call)
  BY <1>1 DEF Running
<1>3. at = JumpWords /\ at - 1 = 4
  BY <1>1, <1>2, JumpIsKnown DEF JumpWords
<1>4. Value(Field(code[at], 5, 5)) = 16
  BY <1>1, <1>2, <1>3, JumpIsKnown
<1>5. target' = Raw(call)
  BY <1>1, <1>3, <1>4, AllLanes DEF Running
<1>6. result' = JumpWords /\ \A r \in Registers \ {16} : regs'[r] = call.stale
  BY <1>1 DEF Running
<1>7. JumpLands'
  BY <1>1, <1>5, <1>6 DEF JumpLands, Raw
<1> QED
  BY <1>1, <1>7, JumpState

LEMMA Keeps == ASSUME IInv, [Next]_vars PROVE IInv'
<1>1. call \in Calls /\ (pc = "call" => out = Blank)
  BY DEF IInv, Fresh
<1>2. CASE DecodeADRP
  BY <1>1, <1>2, ADRPAnswers, DecoderEnds DEF DecodeADRP, Calling, Decoders
<1>3. CASE DecodeADDImmediate
  BY <1>1, <1>3, ADDAnswers, DecoderEnds DEF DecodeADDImmediate, Calling, Decoders
<1>4. CASE DecodeLDRUnsigned64
  BY <1>1, <1>4, LDRAnswers, DecoderEnds DEF DecodeLDRUnsigned64, Calling, Decoders
<1>5. CASE DecodeLDRUnsignedOffset64
  BY <1>1, <1>5, LDROffsetAnswers, DecoderEnds DEF DecodeLDRUnsignedOffset64, Calling, Decoders
<1>6. CASE DecodeLDRSignedPreIndex64
  BY <1>1, <1>6, LDRPreIndexAnswers, DecoderEnds DEF DecodeLDRSignedPreIndex64, Calling, Decoders
<1>7. CASE DecodeLDUR64
  BY <1>1, <1>7, LDURAnswers, DecoderEnds DEF DecodeLDUR64, Calling, Decoders
<1>8. CASE DecodeMOVZImmediate
  BY <1>1, <1>8, MOVZAnswers, DecoderEnds DEF DecodeMOVZImmediate, Calling, Decoders
<1>9. CASE FollowOneBranch
  BY <1>1, <1>9, BranchAnswers, DecoderEnds DEF Decoders
<1>10. CASE CallSignExtend
  BY <1>10, SignEnds
<1>11. CASE BuildAbsoluteJump
  BY <1>11, BuildKeeps
<1>12. CASE ExecuteMOVK
  BY <1>12, MOVKKeeps
<1>13. CASE ExecuteBR
  BY <1>13, BRKeeps
<1>14. CASE UNCHANGED vars
  BY <1>14 DEF vars, IInv, Fresh, Running, DecodesWhatTheProcessorDoes, FollowsTheBranch,
               ExtendsTheSign, JumpLands
<1> QED
  BY <1>2, <1>3, <1>4, <1>5, <1>6, <1>7, <1>8, <1>9, <1>10, <1>11, <1>12, <1>13, <1>14 DEF Next

LEMMA Always == Spec => []IInv
BY Starts, Keeps, PTL DEF Spec

\* Whatever the instruction, its registers and its immediate, a decoder of
\* RorkHookArm64.c answers exactly the instructions it is for and with what the
\* processor does with them, at every width of address from 28 bits on.
THEOREM DecodersAreRight == Spec => []DecodesWhatTheProcessorDoes
<1>1. IInv => DecodesWhatTheProcessorDoes
  BY DEF IInv
<1> QED
  BY Always, <1>1, PTL

\* RorkHookFollowOneBranch goes where an unconditional B goes from any address,
\* and stays for every other instruction and where the target does not exist.
THEOREM BranchesAreFollowed == Spec => []FollowsTheBranch
<1>1. IInv => FollowsTheBranch
  BY DEF IInv
<1> QED
  BY Always, <1>1, PTL

\* RorkHookArm64SignExtend, by its mask, exclusive or and subtraction modulo
\* the width, is two's complement for every value and every width.
THEOREM SignsAreExtended == Spec => []ExtendsTheSign
<1>1. IInv => ExtendsTheSign
  BY DEF IInv
<1> QED
  BY Always, <1>1, PTL

\* The five words of RorkHookBuildAbsoluteJump take the processor to the raw
\* address of any destination, from any registers, and write x16 only.
THEOREM JumpArrives == Spec => []JumpLands
<1>1. IInv => JumpLands
  BY DEF IInv
<1> QED
  BY Always, <1>1, PTL
=============================================================================
