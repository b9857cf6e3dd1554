------------------------------ MODULE Kit_proof ------------------------------
(***************************************************************************)
(* Of the kit's allocators: what a guest's pages (Buddy) and slabs (Slab)  *)
(* hold, whatever is asked for and given back, is proved of every range,   *)
(* sizes and requests.                                                     *)
(* First sequences and powers of two; then nodes, and tilings of the root  *)
(* by blocks; then the lists and the bits, which with a tiling make a tree *)
(* (TreeOK); then that each operation keeps it, and the pages' theorem.    *)
(* Over the same trees, the slabs: sums, classes, the lists through        *)
(* headers, and what a run holds; all of which (Sound) each step of a call *)
(* keeps; and the slabs' theorem.                                          *)
(***************************************************************************)
EXTENDS Buddy, Slab, Elements, FiniteSetTheorems
-----------------------------------------------------------------------------
\* Of numbers, some one is the least.
LEMMA LeastOf ==
  ASSUME NEW S, S \subseteq Nat, S # {}
  PROVE  \E x \in S : \A y \in S : x <= y
  <1> DEFINE R == OpToRel(<, Nat)
  <1>1. IsWellFoundedOn(R, Nat)
    BY NatLessThanWellFounded
  <1>2. \A x, y \in Nat : x < y => <<x, y>> \in R
    BY DEF OpToRel
  <1> HIDE DEF R
  <1>3. PICK x \in S : \A y \in S : ~ (<<y, x>> \in R)
    BY <1>1, WFMin
  <1>4. \A y \in S : ~ (y < x)
    BY <1>2, <1>3
  <1> QED BY <1>4

\* A sequence but its last element; and one taken out of a sequence.
LEMMA ButLast ==
  ASSUME NEW S, NEW s \in Seq(S), s # <<>>
  PROVE  /\ Front(s) \in Seq(S) /\ Len(s) \in Nat \ {0} /\ Len(Front(s)) = Len(s) - 1
         /\ \A i \in 1 .. Len(s) - 1 : Front(s)[i] = s[i]
  <1>1. Len(s) \in Nat \ {0} /\ \A i \in 1 .. Len(s) - 1 : s[i] \in S
    BY EmptySeq
  <1>2. 1 \in Int /\ Len(s) - 1 \in Int
    BY <1>1
  <1>3. /\ SubSeq(s, 1, Len(s) - 1) \in Seq(S)
        /\ Len(SubSeq(s, 1, Len(s) - 1)) = IF 1 <= Len(s) - 1 THEN Len(s) - 1 - 1 + 1 ELSE 0
        /\ \A i \in 1 .. Len(s) - 1 - 1 + 1 : SubSeq(s, 1, Len(s) - 1)[i] = s[1 + i - 1]
    BY <1>1, <1>2, SubSeqProperties
  <1> DEFINE f == SubSeq(s, 1, Len(s) - 1)
  <1> HIDE DEF f
  <1>4. Len(f) = Len(s) - 1 /\ f \in Seq(S)
    <2>1. Len(f) = (IF 1 <= Len(s) - 1 THEN Len(s) - 1 - 1 + 1 ELSE 0) /\ f \in Seq(S)
      BY ONLY <1>3 DEF f
    <2> HIDE DEF f
    <2>2. PICK n : n = Len(s)
      OBVIOUS
    <2>3. n \in Nat /\ n >= 1
      BY <1>1, <2>2
    <2>4. Len(f) = IF 1 <= n - 1 THEN n - 1 - 1 + 1 ELSE 0
      BY ONLY <2>1, <2>2
    <2>5. Len(f) = n - 1
      BY ONLY <2>3, <2>4
    <2> QED BY <2>1, <2>2, <2>5
  <1>5. ASSUME NEW i \in 1 .. Len(s) - 1 PROVE f[i] = s[i]
    <2>1. i \in 1 .. Len(s) - 1 - 1 + 1 /\ 1 + i - 1 = i
      BY <1>1
    <2> QED BY <1>3, <2>1 DEF f
  <1> QED BY <1>1, <1>4, <1>5 DEF Front, f

LEMMA TakenOut ==
  ASSUME NEW S, NEW s \in Seq(S), NEW e, \E i \in 1 .. Len(s) : s[i] = e
  PROVE  \E j \in 1 .. Len(s) :
           /\ s[j] = e
           /\ RemoveFirst(s, e) \in Seq(S) /\ Len(RemoveFirst(s, e)) = Len(s) - 1
           /\ \A i \in 1 .. Len(s) - 1 : RemoveFirst(s, e)[i] = IF i < j THEN s[i] ELSE s[i + 1]
  <1> DEFINE I == {i \in 1 .. Len(s) : s[i] = e}
  <1>0. I # {} /\ I \subseteq Nat
    OBVIOUS
  <1> HIDE DEF I
  <1>1. PICK j \in I : \A y \in I : j <= y
    BY <1>0, LeastOf
  <1> USE DEF I
  <1>2. j = Min(I)
    BY <1>0, <1>1 DEF Min
  <1>3. RemoveFirst(s, e) = RemoveAt(s, IF I # {} THEN Min(I) ELSE 0)
    BY DEF RemoveFirst, SelectInSeq
  <1>4. j \in 1 .. Len(s) /\ s[j] = e /\ Len(s) \in Nat
    BY <1>1
  <1> HIDE DEF I
  <1> DEFINE u == SubSeq(s, 1, j - 1)
             v == SubSeq(s, j + 1, Len(s))
  <1>5. RemoveFirst(s, e) = u \o v
    BY <1>0, <1>2, <1>3 DEF RemoveAt
  <1>6. /\ u \in Seq(S) /\ Len(u) = j - 1
        /\ \A i \in 1 .. j - 1 : u[i] = s[i]
    <2>1. 1 \in Int /\ j - 1 \in Int /\ \A i \in 1 .. j - 1 : s[i] \in S
      BY <1>4
    <2>2. /\ u \in Seq(S)
          /\ Len(u) = IF 1 <= j - 1 THEN (j - 1) - 1 + 1 ELSE 0
          /\ \A i \in 1 .. (j - 1) - 1 + 1 : u[i] = s[1 + i - 1]
      BY <2>1, SubSeqProperties
    <2> HIDE DEF u
    <2>3. \A i \in 1 .. j - 1 : i \in 1 .. (j - 1) - 1 + 1 /\ 1 + i - 1 = i
      BY <1>4
    <2> QED BY <1>4, <2>2, <2>3
  <1>7. /\ v \in Seq(S) /\ Len(v) = Len(s) - j
        /\ \A i \in 1 .. Len(s) - j : v[i] = s[j + i]
    <2>1. j + 1 \in Int /\ Len(s) \in Int /\ \A i \in j + 1 .. Len(s) : s[i] \in S
      BY <1>4
    <2>2. /\ v \in Seq(S)
          /\ Len(v) = IF j + 1 <= Len(s) THEN Len(s) - (j + 1) + 1 ELSE 0
          /\ \A i \in 1 .. Len(s) - (j + 1) + 1 : v[i] = s[(j + 1) + i - 1]
      BY <2>1, SubSeqProperties
    <2> HIDE DEF v
    <2>3. \A i \in 1 .. Len(s) - j : i \in 1 .. Len(s) - (j + 1) + 1 /\ (j + 1) + i - 1 = j + i
      BY <1>4
    <2> QED BY <1>4, <2>2, <2>3
  <1> HIDE DEF u, v
  <1>8. /\ u \o v \in Seq(S) /\ Len(u \o v) = Len(u) + Len(v)
        /\ \A i \in 1 .. Len(u) + Len(v) : (u \o v)[i] = IF i <= Len(u) THEN u[i] ELSE v[i - Len(u)]
    BY <1>6, <1>7, ConcatProperties
  <1>9. Len(u) + Len(v) = Len(s) - 1
    BY <1>4, <1>6, <1>7
  <1>10. ASSUME NEW i \in 1 .. Len(s) - 1
         PROVE  (u \o v)[i] = IF i < j THEN s[i] ELSE s[i + 1]
    <2>1. CASE i < j
      <3>1. i <= Len(u) /\ i \in 1 .. j - 1
        BY <1>4, <1>6, <2>1
      <3> QED BY <1>6, <1>8, <1>9, <2>1, <3>1
    <2>2. CASE ~ (i < j)
      <3>1. ~ (i <= Len(u)) /\ i - Len(u) \in 1 .. Len(s) - j /\ j + (i - Len(u)) = i + 1
        BY <1>4, <1>6, <2>2
      <3>2. v[i - Len(u)] = s[i + 1]
        BY <1>7, <3>1
      <3> QED BY <1>8, <1>9, <2>2, <3>1, <3>2
    <2> QED BY <2>1, <2>2
  <1> QED BY <1>4, <1>5, <1>8, <1>9, <1>10
-----------------------------------------------------------------------------
(* Powers of two, and nodes.                                               *)

LEMMA Powers ==
  ASSUME BuddyAssumption
  PROVE  /\ TwoTo[0] = 1
         /\ \A n \in 0 .. MaxLog2 : TwoTo[n] \in Nat \ {0}
         /\ \A n \in 1 .. MaxLog2 : TwoTo[n] = 2 * TwoTo[n - 1]
  <1>1. MaxLog2 \in Nat
    BY DEF BuddyAssumption
  <1> DEFINE S == Nat \ {0}
             step == [n \in 1 .. MaxLog2 |-> [x \in S |-> 2 * x]]
  <1>2. StepsOn(step, MaxLog2, S)
    <2>1. ASSUME NEW x \in S PROVE 2 * x \in S
      OBVIOUS
    <2> QED BY <2>1 DEF StepsOn
  <1>3. 1 \in S
    OBVIOUS
  <1> HIDE DEF step
  <1>4. PICK f : Follows(f, MaxLog2, S, 1, step)
    BY <1>1, <1>2, <1>3, Recursion
  <1>5. f \in [0 .. MaxLog2 -> S] /\ f[0] = 1
    BY <1>4 DEF Follows
  <1>6. ASSUME NEW n \in 1 .. MaxLog2 PROVE f[n] = 2 * f[n - 1]
    <2>1. f[n] = step[n][f[n - 1]]
      BY <1>4 DEF Follows
    <2>2. f[n - 1] \in S
      BY <1>1, <1>5
    <2> QED BY <2>1, <2>2 DEF step
  <1>7. f = [n \in 0 .. MaxLog2 |-> IF n = 0 THEN 1 ELSE 2 * f[n - 1]]
    <2>1. ASSUME NEW n \in 0 .. MaxLog2 PROVE f[n] = IF n = 0 THEN 1 ELSE 2 * f[n - 1]
      <3>1. CASE n = 0
        BY <1>5, <3>1
      <3>2. CASE n # 0
        <4>1. n \in 1 .. MaxLog2
          BY <1>1, <3>2
        <4> QED BY <1>6, <3>2, <4>1
      <3> QED BY <3>1, <3>2
    <2> QED BY <1>5, <2>1
  <1>8. PICK g : g = TwoTo
    OBVIOUS
  <1>9. g = [n \in 0 .. MaxLog2 |-> IF n = 0 THEN 1 ELSE 2 * g[n - 1]]
    BY <1>7, <1>8 DEF TwoTo
  <1>10. \A n \in 0 .. MaxLog2 : g[n] = IF n = 0 THEN 1 ELSE 2 * g[n - 1]
    BY <1>9
  <1>11. g[0] = 1
    BY <1>1, <1>10
  <1>12. ASSUME NEW n \in 1 .. MaxLog2 PROVE g[n] = 2 * g[n - 1]
    <2>1. n \in 0 .. MaxLog2 /\ n # 0
      BY <1>1
    <2> QED BY <1>10, <2>1
  <1> DEFINE P == {n \in Nat : n <= MaxLog2 => g[n] \in S}
  <1>13. 0 \in P
    BY <1>11
  <1>14. ASSUME NEW n \in 1 .. MaxLog2, n - 1 \in P PROVE n \in P
    <2>1. g[n - 1] \in S
      BY <1>1, <1>14
    <2>2. g[n] = 2 * g[n - 1]
      BY <1>12
    <2> QED BY <2>1, <2>2
  <1> HIDE DEF P
  <1>15. 0 .. MaxLog2 \subseteq P
    BY <1>1, <1>13, <1>14, UpTo
  <1>16. \A n \in 0 .. MaxLog2 : g[n] \in S
    BY <1>1, <1>15 DEF P
  <1> QED BY <1>8, <1>11, <1>12, <1>16

LEMMA PowersGrow ==
  ASSUME BuddyAssumption, NEW m \in 0 .. MaxLog2, NEW n \in 0 .. MaxLog2, m <= n
  PROVE  TwoTo[m] <= TwoTo[n]
  <1>1. MaxLog2 \in Nat
    BY DEF BuddyAssumption
  <1> DEFINE P == {i \in Nat : i \in m .. MaxLog2 => TwoTo[m] <= TwoTo[i]}
  <1>2. 0 \in P
    <2>1. 0 \in m .. MaxLog2 => 0 = m
      BY <1>1
    <2>2. TwoTo[m] \in Nat
      BY <1>1, Powers
    <2> QED BY <2>1, <2>2
  <1>3. ASSUME NEW i \in 1 .. MaxLog2, i - 1 \in P PROVE i \in P
    <2>1. CASE i = m
      <3>1. TwoTo[m] \in Nat
        BY <1>1, Powers
      <3> QED BY <2>1, <3>1
    <2>2. CASE i < m
      BY <2>2
    <2>3. CASE m < i
      <3>1. TwoTo[m] <= TwoTo[i - 1]
        BY <1>1, <1>3, <2>3
      <3>2. i - 1 \in 0 .. MaxLog2
        BY <1>1
      <3>3. TwoTo[i] = 2 * TwoTo[i - 1] /\ TwoTo[i - 1] \in Nat /\ TwoTo[m] \in Nat
        BY <3>2, Powers
      <3> QED BY <3>1, <3>3
    <2> QED BY <2>1, <2>2, <2>3
  <1> HIDE DEF P
  <1>4. 0 .. MaxLog2 \subseteq P
    BY <1>1, <1>2, <1>3, UpTo
  <1>5. n \in P
    BY <1>4
  <1>6. n \in m .. MaxLog2
    BY <1>1
  <1> QED BY <1>5, <1>6 DEF P

\* The sizes of the buckets' blocks; how many of each there may be.
LEMMA Sizes ==
  ASSUME BuddyAssumption
  PROVE  /\ Least \in Nat \ {0} /\ LinkBytes \in Nat \ {0}
         /\ \A b \in Buckets : SizeOf(b) \in Nat \ {0} /\ LinkBytes <= SizeOf(b) /\ TwoTo[b] \in Nat \ {0}
         /\ \A b \in Buckets : b # 0 => SizeOf(b - 1) = 2 * SizeOf(b) /\ TwoTo[b] = 2 * TwoTo[b - 1]
         /\ TwoTo[0] = 1
  <1>1. MinLog2 \in Nat /\ MaxLog2 \in Nat /\ MinLog2 < MaxLog2 /\ LinkBytes \in 1 .. TwoTo[MinLog2]
    BY DEF BuddyAssumption
  <1>2. Least \in Nat \ {0} /\ Least <= MaxLog2 /\ LinkBytes \in Nat \ {0}
    <2>1. TwoTo[MinLog2] \in Nat
      BY <1>1, Powers
    <2> QED BY <1>1, <2>1 DEF Least
  <1>3. ASSUME NEW b \in Buckets
        PROVE  SizeOf(b) \in Nat \ {0} /\ LinkBytes <= SizeOf(b) /\ TwoTo[b] \in Nat \ {0}
    <2>1. b \in 0 .. MaxLog2 /\ MaxLog2 - b \in 0 .. MaxLog2 /\ MinLog2 \in 0 .. MaxLog2 /\ MinLog2 <= MaxLog2 - b
      BY <1>1, <1>2 DEF Buckets, Least
    <2>2. TwoTo[b] \in Nat \ {0} /\ TwoTo[MaxLog2 - b] \in Nat \ {0} /\ TwoTo[MinLog2] \in Nat
      BY <2>1, Powers
    <2>3. TwoTo[MinLog2] <= TwoTo[MaxLog2 - b]
      BY <2>1, PowersGrow
    <2> QED BY <1>1, <2>2, <2>3 DEF SizeOf
  <1>4. ASSUME NEW b \in Buckets, b # 0
        PROVE  SizeOf(b - 1) = 2 * SizeOf(b) /\ TwoTo[b] = 2 * TwoTo[b - 1]
    <2>1. b \in 1 .. MaxLog2 /\ MaxLog2 - (b - 1) \in 1 .. MaxLog2 /\ (MaxLog2 - (b - 1)) - 1 = MaxLog2 - b
      BY <1>1, <1>2, <1>4 DEF Buckets
    <2>2. TwoTo[b] = 2 * TwoTo[b - 1]
      BY <2>1, Powers
    <2>3. TwoTo[MaxLog2 - (b - 1)] = 2 * TwoTo[(MaxLog2 - (b - 1)) - 1]
      BY <2>1, Powers
    <2>4. TwoTo[MaxLog2 - (b - 1)] = 2 * TwoTo[MaxLog2 - b]
      BY <2>1, <2>3
    <2> QED BY <2>2, <2>4 DEF SizeOf
  <1> QED BY <1>2, <1>3, <1>4, Powers
LEMMA Quotient ==
  ASSUME NEW c \in Nat \ {0}, NEW k \in Int
  PROVE  (k * c) \div c = k /\ (k * c) % c = 0
  <1> DEFINE x == k * c
  <1>1. x \in Int /\ x = c * k + 0
    OBVIOUS
  <1>2. x % c = 0
    <2>1. 0 \in 0 .. c - 1
      OBVIOUS
    <2>2. (c * k + 0) % c = 0
      BY <2>1, Remainder
    <2> QED BY <1>1, <2>2
  <1> HIDE DEF x
  <1>3. x = c * (x \div c) + (x % c) /\ x \div c \in Int
    BY <1>1, DivMod
  <1>4. k - (x \div c) \in Int /\ c * (k - (x \div c)) = 0
    BY <1>1, <1>2, <1>3
  <1>5. c * (k - (x \div c)) < c /\ -c < c * (k - (x \div c))
    BY <1>4
  <1>6. k - (x \div c) = 0
    BY <1>4, <1>5, Multiple
  <1> QED BY <1>2, <1>3, <1>6 DEF x

\* Where a block of a bucket may lie.
Spot(b, p) == b \in Buckets /\ \E k \in 0 .. TwoTo[b] - 1 : p = k * SizeOf(b)

LEMMA NodeAt ==
  ASSUME BuddyAssumption, NEW b \in Buckets, NEW k \in Int
  PROVE  /\ NodeForPtr(k * SizeOf(b), b) = k + TwoTo[b] - 1
         /\ PtrForNode(k + TwoTo[b] - 1, b) = k * SizeOf(b)
         /\ k * SizeOf(b) \in Int
         /\ (k * SizeOf(b)) % SizeOf(b) = 0
  <1>1. SizeOf(b) \in Nat \ {0} /\ TwoTo[b] \in Nat \ {0}
    BY Sizes
  <1>2. (k * SizeOf(b)) \div SizeOf(b) = k /\ (k * SizeOf(b)) % SizeOf(b) = 0
    BY <1>1, Quotient
  <1>3. k + TwoTo[b] - 1 + 1 - TwoTo[b] = k
    BY <1>1
  <1> QED BY <1>1, <1>2, <1>3 DEF NodeForPtr, PtrForNode

LEMMA SpotTypes ==
  ASSUME BuddyAssumption, NEW b, NEW p, Spot(b, p)
  PROVE  /\ b \in Buckets /\ p \in Nat /\ p % SizeOf(b) = 0
         /\ NodeForPtr(p, b) \in TwoTo[b] - 1 .. 2 * TwoTo[b] - 2
         /\ PtrForNode(NodeForPtr(p, b), b) = p
         /\ p = 0 <=> NodeForPtr(p, b) = TwoTo[b] - 1
  <1>1. PICK k \in 0 .. TwoTo[b] - 1 : p = k * SizeOf(b)
    BY DEF Spot
  <1>2. b \in Buckets /\ SizeOf(b) \in Nat \ {0} /\ TwoTo[b] \in Nat \ {0}
    BY Sizes DEF Spot
  <1>3. k \in Int /\ k \in Nat
    BY <1>1, <1>2
  <1>4. /\ NodeForPtr(p, b) = k + TwoTo[b] - 1 /\ PtrForNode(k + TwoTo[b] - 1, b) = p
        /\ p % SizeOf(b) = 0
    BY <1>1, <1>2, <1>3, NodeAt
  <1>5. p \in Nat
    BY <1>1, <1>2, <1>3
  <1>6. p = 0 <=> k = 0
    BY <1>1, <1>2, <1>3
  <1> QED BY <1>1, <1>2, <1>3, <1>4, <1>5, <1>6

LEMMA Kids ==
  ASSUME BuddyAssumption, NEW c, NEW q, Spot(c, q), c < Least
  PROVE  /\ Spot(c + 1, q) /\ NodeForPtr(q, c + 1) = 2 * NodeForPtr(q, c) + 1
         /\ Spot(c + 1, q + SizeOf(c + 1)) /\ NodeForPtr(q + SizeOf(c + 1), c + 1) = 2 * NodeForPtr(q, c) + 2
         /\ SizeOf(c) = 2 * SizeOf(c + 1) /\ SizeOf(c + 1) \in Nat \ {0} /\ c + 1 \in Buckets
  <1>1. PICK k \in 0 .. TwoTo[c] - 1 : q = k * SizeOf(c)
    BY DEF Spot
  <1>2. c \in Buckets /\ c + 1 \in Buckets /\ c + 1 # 0 /\ (c + 1) - 1 = c
    BY Sizes DEF Spot, Buckets
  <1>3. /\ SizeOf(c) \in Nat \ {0} /\ SizeOf(c + 1) \in Nat \ {0} /\ TwoTo[c] \in Nat \ {0} /\ TwoTo[c + 1] \in Nat \ {0}
        /\ SizeOf((c + 1) - 1) = 2 * SizeOf(c + 1) /\ TwoTo[c + 1] = 2 * TwoTo[(c + 1) - 1]
    BY <1>2, Sizes
  <1>4. SizeOf(c) = 2 * SizeOf(c + 1) /\ TwoTo[c + 1] = 2 * TwoTo[c]
    BY <1>2, <1>3
  <1>5. /\ 2 * k \in 0 .. TwoTo[c + 1] - 1 /\ 2 * k + 1 \in 0 .. TwoTo[c + 1] - 1
        /\ k \in Int /\ 2 * k \in Int /\ 2 * k + 1 \in Int
    BY <1>3, <1>4
  <1>6. q = (2 * k) * SizeOf(c + 1) /\ q + SizeOf(c + 1) = (2 * k + 1) * SizeOf(c + 1)
    BY <1>1, <1>3, <1>4, <1>5
  <1>7. Spot(c + 1, q) /\ Spot(c + 1, q + SizeOf(c + 1))
    BY <1>2, <1>5, <1>6 DEF Spot
  <1>8. NodeForPtr(q, c) = k + TwoTo[c] - 1
    BY <1>1, <1>2, <1>5, NodeAt
  <1>9. NodeForPtr(q, c + 1) = 2 * k + TwoTo[c + 1] - 1
    BY <1>2, <1>5, <1>6, NodeAt
  <1>10. NodeForPtr(q + SizeOf(c + 1), c + 1) = 2 * k + 1 + TwoTo[c + 1] - 1
    BY <1>2, <1>5, <1>6, NodeAt
  <1> QED BY <1>2, <1>3, <1>4, <1>5, <1>7, <1>8, <1>9, <1>10

\* Each node but the root is a child of one: its left, at the parent's address, or its right.
LEMMA ParentSpot ==
  ASSUME BuddyAssumption, NEW b, NEW p, Spot(b, p), b # 0
  PROVE  /\ b - 1 \in Buckets /\ b - 1 < Least /\ (b - 1) + 1 = b
         /\ \E q : Spot(b - 1, q) /\ (p = q \/ p = q + SizeOf(b))
  <1>1. PICK k \in 0 .. TwoTo[b] - 1 : p = k * SizeOf(b)
    BY DEF Spot
  <1>2. b \in Buckets /\ b - 1 \in Buckets /\ b - 1 < Least /\ (b - 1) + 1 = b
    BY Sizes DEF Spot, Buckets
  <1>3. /\ SizeOf(b) \in Nat \ {0} /\ SizeOf(b - 1) = 2 * SizeOf(b)
        /\ TwoTo[b] = 2 * TwoTo[b - 1] /\ TwoTo[b - 1] \in Nat \ {0}
    BY <1>2, Sizes
  <1>4. PICK h \in Int : k = 2 * h \/ k = 2 * h + 1
    <2>1. k \in Int /\ 2 \in Nat \ {0}
      BY <1>3
    <2>2. k = 2 * (k \div 2) + (k % 2) /\ k % 2 \in 0 .. 2 - 1 /\ k \div 2 \in Int
      BY <2>1, DivMod
    <2>3. k % 2 = 0 \/ k % 2 = 1
      BY <2>2
    <2> QED BY <2>2, <2>3
  <1>5. h \in 0 .. TwoTo[b - 1] - 1
    BY <1>3, <1>4
  <1>6. Spot(b - 1, h * SizeOf(b - 1))
    BY <1>2, <1>5 DEF Spot
  <1>7. p = h * SizeOf(b - 1) \/ p = h * SizeOf(b - 1) + SizeOf(b)
    BY <1>1, <1>3, <1>4
  <1> QED BY <1>2, <1>6, <1>7

\* A node is of one bucket and one address.
LEMMA NodesApart ==
  ASSUME BuddyAssumption, NEW b, NEW p, NEW c, NEW q, Spot(b, p), Spot(c, q), NodeForPtr(p, b) = NodeForPtr(q, c)
  PROVE  b = c /\ p = q
  <1>1. ASSUME NEW m \in Buckets, NEW n \in Buckets, m < n PROVE 2 * TwoTo[m] <= TwoTo[n]
    <2>1. m + 1 \in Buckets /\ m + 1 # 0 /\ (m + 1) - 1 = m /\ Least <= MaxLog2 /\ Least \in Nat /\ MaxLog2 \in Nat
      BY <1>1, Sizes DEF Buckets, Least, BuddyAssumption
    <2>2. m + 1 \in 0 .. MaxLog2 /\ n \in 0 .. MaxLog2 /\ m + 1 <= n
      BY <1>1, <2>1 DEF Buckets
    <2>3. TwoTo[m + 1] <= TwoTo[n] /\ TwoTo[m + 1] = 2 * TwoTo[(m + 1) - 1]
      BY <2>1, <2>2, PowersGrow, Sizes
    <2> QED BY <2>1, <2>3
  <1>2. /\ b \in Buckets /\ c \in Buckets /\ TwoTo[b] \in Nat \ {0} /\ TwoTo[c] \in Nat \ {0}
        /\ NodeForPtr(p, b) \in TwoTo[b] - 1 .. 2 * TwoTo[b] - 2
        /\ NodeForPtr(q, c) \in TwoTo[c] - 1 .. 2 * TwoTo[c] - 2
        /\ PtrForNode(NodeForPtr(p, b), b) = p /\ PtrForNode(NodeForPtr(q, c), c) = q
    BY SpotTypes, Sizes DEF Spot
  <1>3. ~ (b < c)
    <2>1. SUFFICES ASSUME b < c PROVE FALSE
      OBVIOUS
    <2>2. 2 * TwoTo[b] <= TwoTo[c]
      BY <1>1, <1>2, <2>1
    <2> QED BY <1>2, <2>2
  <1>4. ~ (c < b)
    <2>1. SUFFICES ASSUME c < b PROVE FALSE
      OBVIOUS
    <2>2. 2 * TwoTo[c] <= TwoTo[b]
      BY <1>1, <1>2, <2>1
    <2> QED BY <1>2, <2>2
  <1>5. b = c
    BY <1>2, <1>3, <1>4 DEF Buckets
  <1> QED BY <1>2, <1>5

LEMMA ParentNode ==
  ASSUME BuddyAssumption, NEW c, NEW q, Spot(c, q), c < Least
  PROVE  /\ Parent(NodeForPtr(q, c + 1)) = NodeForPtr(q, c)
         /\ Parent(NodeForPtr(q + SizeOf(c + 1), c + 1)) = NodeForPtr(q, c)
         /\ Sibling(NodeForPtr(q, c + 1)) = NodeForPtr(q + SizeOf(c + 1), c + 1)
         /\ Sibling(NodeForPtr(q + SizeOf(c + 1), c + 1)) = NodeForPtr(q, c + 1)
         /\ NodeForPtr(q, c + 1) # 0 /\ NodeForPtr(q + SizeOf(c + 1), c + 1) # 0
         /\ NodeForPtr(q, c) \in Nat
  <1>1. /\ NodeForPtr(q, c + 1) = 2 * NodeForPtr(q, c) + 1
        /\ NodeForPtr(q + SizeOf(c + 1), c + 1) = 2 * NodeForPtr(q, c) + 2
    BY Kids
  <1>2. NodeForPtr(q, c) \in Nat
    <2>1. NodeForPtr(q, c) \in TwoTo[c] - 1 .. 2 * TwoTo[c] - 2 /\ c \in Buckets
      BY SpotTypes
    <2>2. TwoTo[c] \in Nat \ {0}
      BY <2>1, Sizes
    <2> QED BY <2>1, <2>2
  <1>3. PICK n \in Nat : n = NodeForPtr(q, c)
    BY <1>2
  <1>4. (2 * n + 1 - 1) \div 2 = n /\ (2 * n + 2 - 1) \div 2 = n
    BY <1>3
  <1>5. (2 * n + 1) % 2 = 1 /\ (2 * n + 2) % 2 = 0
    BY <1>3
  <1> QED BY <1>1, <1>3, <1>4, <1>5 DEF Parent, Sibling
-----------------------------------------------------------------------------
(***************************************************************************)
(* Blocks as pairs of a bucket and an address.  They tile the root: each   *)
(* lies in it, apart from the others, and every byte is in one.            *)
(***************************************************************************)
EndOf(s) == s[2] + SizeOf(s[1])

Tiling(B, limit) ==
  /\ limit \in Buckets
  /\ \A s \in B : s \in Buckets \X Nat /\ Spot(s[1], s[2]) /\ limit <= s[1] /\ EndOf(s) <= SizeOf(limit)
  /\ \A s, u \in B : s # u => EndOf(s) <= u[2] \/ EndOf(u) <= s[2]
  /\ \A x \in 0 .. SizeOf(limit) - 1 : \E s \in B : s[2] <= x /\ x < EndOf(s)

\* A block gives way to its halves.
LEMMA TileSplit ==
  ASSUME BuddyAssumption, NEW B, NEW limit, Tiling(B, limit), NEW b, NEW p, <<b, p>> \in B, b < Least
  PROVE  /\ Tiling((B \ {<<b, p>>}) \cup {<<b + 1, p>>, <<b + 1, p + SizeOf(b + 1)>>}, limit)
         /\ <<b + 1, p>> \notin B /\ <<b + 1, p + SizeOf(b + 1)>> \notin B
  <1> DEFINE s0 == <<b, p>>
             l == <<b + 1, p>>
             r == <<b + 1, p + SizeOf(b + 1)>>
             C == (B \ {s0}) \cup {l, r}
  <1>1. /\ s0 \in B /\ s0[1] = b /\ s0[2] = p /\ l[1] = b + 1 /\ l[2] = p /\ r[1] = b + 1 /\ r[2] = p + SizeOf(b + 1)
        /\ l # r
    <2>1. Spot(b, p)
      BY DEF Tiling
    <2>2. SizeOf(b + 1) \in Nat \ {0} /\ p \in Nat
      BY <2>1, Kids, SpotTypes
    <2> QED BY <2>2
  <1>2. /\ b \in Buckets /\ p \in Nat /\ Spot(b, p) /\ limit <= b /\ limit \in Buckets
        /\ p + SizeOf(b) <= SizeOf(limit) /\ SizeOf(limit) \in Nat
    BY <1>1, Sizes DEF Tiling, EndOf
  <1>3. /\ Spot(b + 1, p) /\ Spot(b + 1, p + SizeOf(b + 1))
        /\ SizeOf(b) = 2 * SizeOf(b + 1) /\ SizeOf(b + 1) \in Nat \ {0} /\ b + 1 \in Buckets
    BY <1>2, Kids
  <1>4. PICK z \in Nat \ {0} : z = SizeOf(b + 1)
    BY <1>3
  <1>5. EndOf(l) = p + z /\ EndOf(r) = p + z + z /\ EndOf(s0) = p + z + z /\ r[2] = p + z /\ l[2] = p
    BY <1>1, <1>2, <1>3, <1>4 DEF EndOf
  <1>6. ASSUME NEW s \in B
        PROVE  s \in Buckets \X Nat /\ s[1] \in Buckets /\ s[2] \in Nat /\ SizeOf(s[1]) \in Nat \ {0} /\ EndOf(s) \in Nat /\ s[2] < EndOf(s)
    <2>1. s \in Buckets \X Nat
      BY DEF Tiling
    <2>2. s[1] \in Buckets /\ s[2] \in Nat
      BY <2>1
    <2>3. SizeOf(s[1]) \in Nat \ {0}
      BY <2>2, Sizes
    <2> QED BY <2>1, <2>2, <2>3 DEF EndOf
  <1>7. ASSUME NEW s \in B, s # s0 PROVE EndOf(s) <= p \/ p + z + z <= s[2]
    <2>1. EndOf(s) <= s0[2] \/ EndOf(s0) <= s[2]
      BY <1>1, <1>7 DEF Tiling
    <2> QED BY <1>1, <1>5, <2>1
  <1>8. l \notin B /\ r \notin B
    <2>1. l # s0 /\ r # s0
      BY <1>1, <1>2 DEF Buckets
    <2>2. ASSUME l \in B PROVE FALSE
      <3>1. EndOf(l) <= p \/ p + z + z <= l[2]
        BY <1>7, <2>1, <2>2
      <3> QED BY <1>2, <1>5, <3>1
    <2>3. ASSUME r \in B PROVE FALSE
      <3>1. EndOf(r) <= p \/ p + z + z <= r[2]
        BY <1>7, <2>1, <2>3
      <3> QED BY <1>2, <1>5, <3>1
    <2> QED BY <2>2, <2>3
  <1> HIDE DEF s0, l, r
  <1>9. ASSUME NEW s \in C
        PROVE  s \in Buckets \X Nat /\ Spot(s[1], s[2]) /\ limit <= s[1] /\ EndOf(s) <= SizeOf(limit)
    <2>1. CASE s \in B
      BY <2>1 DEF Tiling
    <2>2. CASE s = l
      <3>1. l \in Buckets \X Nat
        BY <1>2, <1>3 DEF l
      <3>2. limit <= b + 1
        BY <1>2, <1>3 DEF Buckets
      <3>3. EndOf(l) <= SizeOf(limit)
        BY <1>2, <1>3, <1>4, <1>5
      <3> QED BY <1>1, <1>3, <2>2, <3>1, <3>2, <3>3
    <2>3. CASE s = r
      <3>1. r \in Buckets \X Nat
        BY <1>2, <1>3 DEF r
      <3>2. limit <= b + 1
        BY <1>2, <1>3 DEF Buckets
      <3>3. EndOf(r) <= SizeOf(limit)
        BY <1>2, <1>3, <1>4, <1>5
      <3> QED BY <1>1, <1>3, <2>3, <3>1, <3>2, <3>3
    <2> QED BY <2>1, <2>2, <2>3
  <1>10. ASSUME NEW s \in C, NEW u \in C, s # u PROVE EndOf(s) <= u[2] \/ EndOf(u) <= s[2]
    <2>1. CASE s \in B /\ u \in B
      BY <1>10, <2>1 DEF Tiling
    <2>2. ASSUME NEW x \in B, x # s0, NEW y \in {l, r} PROVE EndOf(x) <= y[2] \/ EndOf(y) <= x[2]
      <3>1. EndOf(x) <= p \/ p + z + z <= x[2]
        BY <1>7, <2>2
      <3>2. x[2] \in Nat /\ EndOf(x) \in Nat
        BY <1>6
      <3> QED BY <1>2, <1>5, <3>1, <3>2
    <2>3. CASE s \in {l, r} /\ u \in {l, r}
      BY <1>2, <1>5, <1>10, <2>3
    <2> QED BY <1>10, <2>1, <2>2, <2>3
  <1>11. ASSUME NEW x \in 0 .. SizeOf(limit) - 1 PROVE \E s \in C : s[2] <= x /\ x < EndOf(s)
    <2>1. PICK s \in B : s[2] <= x /\ x < EndOf(s)
      BY DEF Tiling
    <2>2. CASE s # s0
      BY <2>1, <2>2
    <2>3. CASE s = s0
      <3>1. x < p + z \/ p + z <= x
        BY <1>2
      <3>2. p <= x /\ x < p + z + z
        BY <1>1, <1>5, <2>1, <2>3
      <3> QED BY <1>5, <3>1, <3>2
    <2> QED BY <2>2, <2>3
  <1>12. Tiling(C, limit)
    BY <1>2, <1>9, <1>10, <1>11 DEF Tiling
  <1> QED BY <1>8, <1>12 DEF s0, l, r

\* Two halves give way to their parent.
LEMMA TileMerge ==
  ASSUME BuddyAssumption, NEW B, NEW limit, Tiling(B, limit), NEW c, NEW q, Spot(c, q), c < Least, limit <= c,
         <<c + 1, q>> \in B, <<c + 1, q + SizeOf(c + 1)>> \in B
  PROVE  /\ Tiling((B \ {<<c + 1, q>>, <<c + 1, q + SizeOf(c + 1)>>}) \cup {<<c, q>>}, limit)
         /\ <<c, q>> \notin B
  <1> DEFINE s0 == <<c, q>>
             l == <<c + 1, q>>
             r == <<c + 1, q + SizeOf(c + 1)>>
             C == (B \ {l, r}) \cup {s0}
  <1>1. s0[1] = c /\ s0[2] = q /\ l[1] = c + 1 /\ l[2] = q /\ r[1] = c + 1 /\ r[2] = q + SizeOf(c + 1)
    OBVIOUS
  <1>2. /\ c \in Buckets /\ q \in Nat /\ limit \in Buckets /\ SizeOf(limit) \in Nat
        /\ SizeOf(c) = 2 * SizeOf(c + 1) /\ SizeOf(c + 1) \in Nat \ {0} /\ c + 1 \in Buckets
    BY Kids, SpotTypes, Sizes DEF Tiling
  <1>4. PICK z \in Nat \ {0} : z = SizeOf(c + 1)
    BY <1>2
  <1>5. EndOf(l) = q + z /\ EndOf(r) = q + z + z /\ EndOf(s0) = q + z + z /\ r[2] = q + z /\ l[2] = q
    BY <1>1, <1>2, <1>4 DEF EndOf
  <1>6. ASSUME NEW s \in B
        PROVE  s \in Buckets \X Nat /\ s[1] \in Buckets /\ s[2] \in Nat /\ SizeOf(s[1]) \in Nat \ {0} /\ EndOf(s) \in Nat /\ s[2] < EndOf(s)
    <2>1. s \in Buckets \X Nat
      BY DEF Tiling
    <2>2. s[1] \in Buckets /\ s[2] \in Nat
      BY <2>1
    <2>3. SizeOf(s[1]) \in Nat \ {0}
      BY <2>2, Sizes
    <2> QED BY <2>1, <2>2, <2>3 DEF EndOf
  <1>7. ASSUME NEW s \in B, s # l, s # r PROVE EndOf(s) <= q \/ q + z + z <= s[2]
    <2>1. EndOf(s) <= l[2] \/ EndOf(l) <= s[2]
      BY <1>7 DEF Tiling
    <2>2. EndOf(s) <= r[2] \/ EndOf(r) <= s[2]
      BY <1>7 DEF Tiling
    <2>3. s[2] \in Nat /\ EndOf(s) \in Nat /\ s[2] < EndOf(s)
      BY <1>6
    <2> QED BY <1>2, <1>5, <2>1, <2>2, <2>3
  <1>8. s0 \notin B
    <2>1. s0 # l /\ s0 # r
      BY <1>1, <1>2 DEF Buckets
    <2>2. ASSUME s0 \in B PROVE FALSE
      <3>1. EndOf(s0) <= q \/ q + z + z <= s0[2]
        BY <1>7, <2>1, <2>2
      <3> QED BY <1>1, <1>2, <1>5, <3>1
    <2> QED BY <2>2
  <1>9. EndOf(r) <= SizeOf(limit)
    BY DEF Tiling
  <1> HIDE DEF s0, l, r
  <1>10. ASSUME NEW s \in C
        PROVE  s \in Buckets \X Nat /\ Spot(s[1], s[2]) /\ limit <= s[1] /\ EndOf(s) <= SizeOf(limit)
    <2>1. CASE s \in B
      BY <2>1 DEF Tiling
    <2>2. CASE s = s0
      <3>1. s0 \in Buckets \X Nat
        BY <1>2 DEF s0
      <3>2. EndOf(s0) <= SizeOf(limit)
        BY <1>5, <1>9
      <3> QED BY <1>1, <2>2, <3>1, <3>2
    <2> QED BY <2>1, <2>2
  <1>11. ASSUME NEW s \in C, NEW u \in C, s # u PROVE EndOf(s) <= u[2] \/ EndOf(u) <= s[2]
    <2>1. CASE s \in B /\ u \in B
      BY <1>11, <2>1 DEF Tiling
    <2>2. ASSUME NEW x \in B, x # l, x # r PROVE EndOf(x) <= s0[2] \/ EndOf(s0) <= x[2]
      BY <1>1, <1>5, <1>7, <2>2
    <2> QED BY <1>11, <2>1, <2>2
  <1>12. ASSUME NEW x \in 0 .. SizeOf(limit) - 1 PROVE \E s \in C : s[2] <= x /\ x < EndOf(s)
    <2>1. PICK s \in B : s[2] <= x /\ x < EndOf(s)
      BY DEF Tiling
    <2>2. CASE s # l /\ s # r
      BY <2>1, <2>2
    <2>3. CASE s = l \/ s = r
      <3>1. q <= x /\ x < q + z + z
        BY <1>2, <1>5, <2>1, <2>3
      <3> QED BY <1>1, <1>5, <3>1
    <2> QED BY <2>2, <2>3
  <1>13. Tiling(C, limit)
    BY <1>2, <1>10, <1>11, <1>12 DEF Tiling
  <1> QED BY <1>8, <1>13 DEF s0, l, r

\* What lies in a tiling, in numbers.
LEMMA TileTypes ==
  ASSUME BuddyAssumption, NEW B, NEW limit, Tiling(B, limit), NEW s \in B
  PROVE  /\ s \in Buckets \X Nat /\ s = <<s[1], s[2]>> /\ s[1] \in limit .. Least /\ s[1] \in Buckets /\ s[2] \in Nat
         /\ SizeOf(s[1]) \in Nat \ {0} /\ EndOf(s) \in Nat /\ s[2] < EndOf(s)
         /\ limit \in Buckets /\ SizeOf(limit) \in Nat \ {0}
  <1>1. s \in Buckets \X Nat /\ limit \in Buckets /\ limit <= s[1]
    BY DEF Tiling
  <1>2. s[1] \in Buckets /\ s[2] \in Nat /\ s = <<s[1], s[2]>>
    BY <1>1
  <1>3. SizeOf(s[1]) \in Nat \ {0} /\ SizeOf(limit) \in Nat \ {0}
    BY <1>1, <1>2, Sizes
  <1>4. s[1] \in limit .. Least
    BY <1>1, <1>2, Sizes DEF Buckets
  <1> QED BY <1>1, <1>2, <1>3, <1>4 DEF EndOf

\* Two blocks at one address are one.
LEMMA TileOnce ==
  ASSUME BuddyAssumption, NEW B, NEW limit, Tiling(B, limit), NEW s \in B, NEW u \in B, s[2] = u[2]
  PROVE  s = u
  <1>1. SUFFICES ASSUME s # u PROVE FALSE
    OBVIOUS
  <1>2. EndOf(s) <= u[2] \/ EndOf(u) <= s[2]
    BY <1>1 DEF Tiling
  <1>3. s[2] \in Nat /\ u[2] \in Nat /\ EndOf(s) \in Nat /\ EndOf(u) \in Nat /\ s[2] < EndOf(s) /\ u[2] < EndOf(u)
    BY TileTypes
  <1> QED BY <1>2, <1>3

\* The whole root in one block: it is the only one, and so is a wider one.
LEMMA TileFree ==
  ASSUME BuddyAssumption, NEW B, NEW limit, Tiling(B, limit), <<limit, 0>> \in B, limit # 0
  PROVE  /\ B = {<<limit, 0>>}
         /\ Tiling({<<limit - 1, 0>>}, limit - 1)
  <1> DEFINE root == <<limit, 0>>
             wide == <<limit - 1, 0>>
  <1>1. /\ limit \in Buckets /\ limit - 1 \in Buckets /\ SizeOf(limit) \in Nat \ {0} /\ SizeOf(limit - 1) \in Nat \ {0}
        /\ TwoTo[limit - 1] \in Nat \ {0} /\ limit <= Least /\ Least \in Nat
    BY Sizes DEF Tiling, Buckets
  <1>2. EndOf(root) = SizeOf(limit) /\ EndOf(wide) = SizeOf(limit - 1)
    BY <1>1 DEF EndOf
  <1>3. ASSUME NEW s \in B PROVE s = root
    <2>1. SUFFICES ASSUME s # root PROVE FALSE
      OBVIOUS
    <2>2. (EndOf(s) <= root[2] \/ EndOf(root) <= s[2]) /\ EndOf(s) <= SizeOf(limit)
      BY <2>1 DEF Tiling
    <2>3. s[2] \in Nat /\ EndOf(s) \in Nat /\ s[2] < EndOf(s) /\ root[2] = 0
      BY TileTypes
    <2> QED BY <1>1, <1>2, <2>2, <2>3
  <1>4. Spot(limit - 1, 0)
    <2>1. 0 \in 0 .. TwoTo[limit - 1] - 1 /\ 0 = 0 * SizeOf(limit - 1)
      BY <1>1
    <2> QED BY <1>1, <2>1 DEF Spot
  <1>5. wide[1] = limit - 1 /\ wide[2] = 0 /\ wide \in Buckets \X Nat /\ limit - 1 <= limit - 1
    <2>1. limit - 1 <= limit - 1
      BY <1>1 DEF Buckets
    <2>2. <<limit - 1, 0>> \in Buckets \X Nat
      BY <1>1
    <2> QED BY <2>1, <2>2
  <1> HIDE DEF wide
  <1>6. Tiling({wide}, limit - 1)
    <2>1. ASSUME NEW x \in 0 .. SizeOf(limit - 1) - 1 PROVE wide[2] <= x /\ x < EndOf(wide)
      BY <1>1, <1>2, <1>5
    <2>2. \A s \in {wide} : s \in Buckets \X Nat /\ Spot(s[1], s[2]) /\ limit - 1 <= s[1] /\ EndOf(s) <= SizeOf(limit - 1)
      BY <1>1, <1>2, <1>4, <1>5
    <2> QED BY <1>1, <2>1, <2>2 DEF Tiling
  <1> QED BY <1>3, <1>6 DEF wide

\* The root beside its new buddy.
LEMMA TileUsed ==
  ASSUME BuddyAssumption, NEW B, NEW limit, Tiling(B, limit), limit # 0
  PROVE  /\ Tiling(B \cup {<<limit, SizeOf(limit)>>}, limit - 1)
         /\ <<limit, SizeOf(limit)>> \notin B
  <1> DEFINE r == <<limit, SizeOf(limit)>>
             C == B \cup {r}
  <1>1. /\ limit \in Buckets /\ limit - 1 \in Buckets /\ SizeOf(limit) \in Nat \ {0} /\ SizeOf(limit - 1) = 2 * SizeOf(limit)
        /\ TwoTo[limit] = 2 * TwoTo[limit - 1] /\ TwoTo[limit - 1] \in Nat \ {0}
    BY Sizes DEF Tiling, Buckets
  <1>2. r[1] = limit /\ r[2] = SizeOf(limit) /\ r \in Buckets \X Nat /\ EndOf(r) = SizeOf(limit - 1)
    BY <1>1 DEF EndOf
  <1>3. Spot(limit, SizeOf(limit))
    <2>1. 1 \in 0 .. TwoTo[limit] - 1 /\ SizeOf(limit) = 1 * SizeOf(limit)
      BY <1>1
    <2> QED BY <1>1, <2>1 DEF Spot
  <1> HIDE DEF r
  <1>4. ASSUME NEW s \in B
        PROVE  /\ EndOf(s) <= r[2] /\ s[2] < r[2]
               /\ s \in Buckets \X Nat /\ Spot(s[1], s[2]) /\ limit - 1 <= s[1] /\ EndOf(s) <= SizeOf(limit - 1)
    <2>1. s \in Buckets \X Nat /\ Spot(s[1], s[2]) /\ limit <= s[1] /\ EndOf(s) <= SizeOf(limit)
      BY DEF Tiling
    <2>2. s[1] \in limit .. Least /\ EndOf(s) \in Nat /\ s[2] \in Nat /\ s[2] < EndOf(s)
      BY TileTypes
    <2> QED BY <1>1, <1>2, <2>1, <2>2 DEF Buckets
  <1>5. r \notin B
    <2>1. SUFFICES ASSUME r \in B PROVE FALSE
      OBVIOUS
    <2>2. r[2] < r[2]
      BY <1>4, <2>1
    <2> QED BY <1>1, <1>2, <2>2
  <1>6. ASSUME NEW s \in C
        PROVE  s \in Buckets \X Nat /\ Spot(s[1], s[2]) /\ limit - 1 <= s[1] /\ EndOf(s) <= SizeOf(limit - 1)
    <2>1. limit - 1 <= limit /\ SizeOf(limit - 1) <= SizeOf(limit - 1)
      BY <1>1 DEF Buckets
    <2> QED BY <1>2, <1>3, <1>4, <2>1
  <1>7. ASSUME NEW s \in C, NEW u \in C, s # u PROVE EndOf(s) <= u[2] \/ EndOf(u) <= s[2]
    <2>1. CASE s \in B /\ u \in B
      BY <1>7, <2>1 DEF Tiling
    <2> QED BY <1>4, <1>7, <2>1
  <1>8. ASSUME NEW x \in 0 .. SizeOf(limit - 1) - 1 PROVE \E s \in C : s[2] <= x /\ x < EndOf(s)
    <2>1. CASE x < SizeOf(limit)
      <3>1. x \in 0 .. SizeOf(limit) - 1
        BY <1>1, <2>1
      <3>2. PICK s \in B : s[2] <= x /\ x < EndOf(s)
        BY <3>1 DEF Tiling
      <3> QED BY <3>2
    <2>2. CASE SizeOf(limit) <= x
      <3>1. r[2] <= x /\ x < EndOf(r)
        BY <1>1, <1>2, <2>2
      <3> QED BY <3>1
    <2> QED BY <1>1, <2>1, <2>2
  <1>9. Tiling(C, limit - 1)
    BY <1>1, <1>6, <1>7, <1>8 DEF Tiling
  <1> QED BY <1>5, <1>9 DEF r
-----------------------------------------------------------------------------
(***************************************************************************)
(* The bits.  A node is idle that is listed free; and the one beside the   *)
(* root, which is not there yet.  A parent's bit is set where exactly one  *)
(* of its children is idle.                                                *)
(***************************************************************************)
Idle(F, limit) == F \cup {<<limit, SizeOf(limit)>>}

BitsOK(I, split) ==
  /\ split \subseteq Nat
  /\ \A c, q : Spot(c, q) /\ c < Least =>
       (NodeForPtr(q, c) \in split <=> ~ (<<c + 1, q>> \in I <=> <<c + 1, q + SizeOf(c + 1)>> \in I))

\* One more idle, or one less, turns its parent's bit.
LEMMA BitTurned ==
  ASSUME BuddyAssumption, NEW I, NEW J, NEW split, BitsOK(I, split), NEW b, NEW p, Spot(b, p), b # 0,
         \A s : s # <<b, p>> => (s \in J <=> s \in I),
         <<b, p>> \in J <=> <<b, p>> \notin I
  PROVE  BitsOK(J, SymDiff(split, {Parent(NodeForPtr(p, b))}))
  <1>1. b - 1 \in Buckets /\ b - 1 < Least /\ (b - 1) + 1 = b /\ b \in Buckets
    BY ParentSpot DEF Spot
  <1>2. PICK d : Spot(b - 1, d) /\ (p = d \/ p = d + SizeOf(b))
    BY ParentSpot
  <1>3. Parent(NodeForPtr(p, b)) = NodeForPtr(d, b - 1) /\ NodeForPtr(d, b - 1) \in Nat
    <2>1. /\ Parent(NodeForPtr(d, b)) = NodeForPtr(d, b - 1) /\ NodeForPtr(d, b - 1) \in Nat
          /\ Parent(NodeForPtr(d + SizeOf(b), b)) = NodeForPtr(d, b - 1)
      BY <1>1, <1>2, ParentNode
    <2> QED BY <1>2, <2>1
  <1>4. PICK n : n = NodeForPtr(d, b - 1)
    OBVIOUS
  <1>5. PICK T : T = SymDiff(split, {n})
    OBVIOUS
  <1>6. T \subseteq Nat /\ \A m : m \in T <=> (m \in split <=> m # n)
    BY <1>3, <1>4, <1>5 DEF SymDiff, BitsOK
  <1>7. SizeOf(b) \in Nat \ {0} /\ d \in Nat
    BY <1>1, <1>2, Sizes, SpotTypes
  <1>8. ASSUME NEW c, NEW q, Spot(c, q), c < Least
        PROVE  NodeForPtr(q, c) \in T <=> ~ (<<c + 1, q>> \in J <=> <<c + 1, q + SizeOf(c + 1)>> \in J)
    <2>1. NodeForPtr(q, c) \in split <=> ~ (<<c + 1, q>> \in I <=> <<c + 1, q + SizeOf(c + 1)>> \in I)
      BY <1>8 DEF BitsOK
    <2>2. CASE c = b - 1 /\ q = d
      <3>1. NodeForPtr(q, c) = n /\ c + 1 = b
        BY <1>1, <1>4, <2>2
      <3>2. <<b, d>> # <<b, d + SizeOf(b)>>
        BY <1>7
      <3>3. (<<b, d>> \in J <=> <<b, d + SizeOf(b)>> \in J) <=> ~ (<<b, d>> \in I <=> <<b, d + SizeOf(b)>> \in I)
        BY <1>2, <3>2
      <3> QED BY <1>6, <2>1, <2>2, <3>1, <3>3
    <2>3. CASE ~ (c = b - 1 /\ q = d)
      <3>1. NodeForPtr(q, c) # n
        BY <1>2, <1>4, <1>8, <2>3, NodesApart
      <3>2. <<c + 1, q>> # <<b, p>> /\ <<c + 1, q + SizeOf(c + 1)>> # <<b, p>>
        <4>1. c \in Buckets /\ q \in Nat
          BY <1>8, SpotTypes
        <4>2. CASE c + 1 # b
          BY <4>2
        <4>3. CASE c + 1 = b
          <5>1. c = b - 1
            BY <1>1, <4>1, <4>3 DEF Buckets
          <5>2. NodeForPtr(q, c + 1) = 2 * NodeForPtr(q, c) + 1 /\ NodeForPtr(q + SizeOf(c + 1), c + 1) = 2 * NodeForPtr(q, c) + 2
            BY <1>8, Kids
          <5>3. NodeForPtr(d, b) = 2 * NodeForPtr(d, b - 1) + 1 /\ NodeForPtr(d + SizeOf(b), b) = 2 * NodeForPtr(d, b - 1) + 2
            BY <1>1, <1>2, Kids
          <5>4. NodeForPtr(q, c) \in Nat
            BY <1>8, ParentNode
          <5>5. NodeForPtr(q, c + 1) # NodeForPtr(p, b) /\ NodeForPtr(q + SizeOf(c + 1), c + 1) # NodeForPtr(p, b)
            <6>1. PICK k \in Nat : k = NodeForPtr(q, c)
              BY <5>4
            <6>2. PICK h \in Nat : h = NodeForPtr(d, b - 1)
              BY <1>3
            <6>3. h # k
              BY <1>4, <3>1, <6>1, <6>2
            <6>4. NodeForPtr(p, b) = 2 * h + 1 \/ NodeForPtr(p, b) = 2 * h + 2
              BY <1>2, <5>3, <6>2
            <6> QED BY <5>2, <6>1, <6>3, <6>4
          <5> QED BY <4>3, <5>5
        <4> QED BY <4>2, <4>3
      <3> QED BY <1>6, <2>1, <3>1, <3>2
    <2> QED BY <2>2, <2>3
  <1>9. BitsOK(J, T)
    BY <1>6, <1>8 DEF BitsOK
  <1> QED BY <1>3, <1>4, <1>5, <1>9

\* No bit is of the whole range's.
LEMMA BitsOfRoot ==
  ASSUME BuddyAssumption, NEW I, NEW J, NEW split, BitsOK(I, split), \A s : s[1] # 0 => (s \in J <=> s \in I)
  PROVE  BitsOK(J, split)
  <1>1. ASSUME NEW c, NEW q, Spot(c, q), c < Least
        PROVE  NodeForPtr(q, c) \in split <=> ~ (<<c + 1, q>> \in J <=> <<c + 1, q + SizeOf(c + 1)>> \in J)
    <2>1. NodeForPtr(q, c) \in split <=> ~ (<<c + 1, q>> \in I <=> <<c + 1, q + SizeOf(c + 1)>> \in I)
      BY <1>1 DEF BitsOK
    <2>2. c + 1 # 0
      BY <1>1 DEF Spot, Buckets
    <2>3. <<c + 1, q>>[1] # 0 /\ <<c + 1, q + SizeOf(c + 1)>>[1] # 0
      BY <2>2
    <2> QED BY <2>1, <2>3
  <1> QED BY <1>1 DEF BitsOK

-----------------------------------------------------------------------------
(* The lists.                                                              *)

Trees == [lists : [Buckets -> Seq(Nat)], limit : Buckets, split : SUBSET Nat, max : LinkBytes .. EndAt]

\* Each address once in a list; and what the lists hold, as blocks.
NoTwice(s) == \A j, k \in 1 .. Len(s) : s[j] = s[k] => j = k
Once(t)    == \A b \in Buckets : NoTwice(t.lists[b])
FreeAt(t)  == {s \in Buckets \X Nat : \E k \in 1 .. Len(t.lists[s[1]]) : t.lists[s[1]][k] = s[2]}

\* One list put in a list's place.
WithList(t, b, l) == [t EXCEPT !.lists[b] = l]

Kept(u, t) == u \in Trees /\ Once(u) /\ u.limit = t.limit /\ u.split = t.split /\ u.max = t.max
Listing(u, t, b, l) ==
  /\ u.lists[b] = l
  /\ \A s \in Buckets \X Nat : s[1] # b => (s \in FreeAt(t) <=> s \in FreeAt(u))
  /\ \A p \in Nat : <<b, p>> \in FreeAt(u) <=> \E k \in 1 .. Len(l) : l[k] = p

LEMMA ListSet ==
  ASSUME NEW t \in Trees, Once(t), NEW b \in Buckets, NEW l \in Seq(Nat), NoTwice(l)
  PROVE  Kept(WithList(t, b, l), t) /\ Listing(WithList(t, b, l), t, b, l)
  <1>0. PICK u : u = WithList(t, b, l)
    OBVIOUS
  <1>1. /\ u \in Trees /\ u.limit = t.limit /\ u.split = t.split /\ u.max = t.max /\ u.lists[b] = l
        /\ \A c \in Buckets : c # b => u.lists[c] = t.lists[c]
    BY <1>0 DEF Trees, WithList
  <1>2. Once(u)
    BY <1>1 DEF Once
  <1>3. ASSUME NEW s \in Buckets \X Nat, s[1] # b PROVE s \in FreeAt(t) <=> s \in FreeAt(u)
    <2>1. u.lists[s[1]] = t.lists[s[1]]
      BY <1>1, <1>3
    <2> QED BY <2>1 DEF FreeAt
  <1>4. ASSUME NEW p \in Nat PROVE <<b, p>> \in FreeAt(u) <=> \E k \in 1 .. Len(l) : l[k] = p
    <2>1. <<b, p>> \in Buckets \X Nat /\ <<b, p>>[1] = b /\ <<b, p>>[2] = p
      OBVIOUS
    <2> QED BY <1>1, <2>1 DEF FreeAt
  <1>5. Kept(u, t)
    BY <1>1, <1>2 DEF Kept
  <1>6. Listing(u, t, b, l)
    BY <1>1, <1>3, <1>4 DEF Listing
  <1> QED BY <1>0, <1>5, <1>6

\* A block in the lists, by its bucket's.
LEMMA FreeIn ==
  ASSUME NEW t \in Trees, NEW b \in Buckets, NEW p \in Nat
  PROVE  /\ <<b, p>> \in FreeAt(t) <=> \E k \in 1 .. Len(t.lists[b]) : t.lists[b][k] = p
         /\ \A s \in FreeAt(t) : s = <<s[1], s[2]>> /\ s[1] \in Buckets /\ s[2] \in Nat
         /\ t.lists[b] \in Seq(Nat) /\ Len(t.lists[b]) \in Nat
  <1>1. <<b, p>> \in Buckets \X Nat /\ <<b, p>>[1] = b /\ <<b, p>>[2] = p
    OBVIOUS
  <1>2. t.lists[b] \in Seq(Nat)
    BY DEF Trees
  <1> QED BY <1>1, <1>2 DEF FreeAt

LEMMA Pushed ==
  ASSUME NEW t \in Trees, Once(t), NEW b \in Buckets, NEW p \in Nat, <<b, p>> \notin FreeAt(t)
  PROVE  /\ Kept(ListPush(t, b, p), t) /\ FreeAt(ListPush(t, b, p)) = FreeAt(t) \cup {<<b, p>>}
         /\ ListPush(t, b, p).lists[b] # <<>>
  <1>1. PICK s : s = t.lists[b]
    OBVIOUS
  <1>2. s \in Seq(Nat) /\ NoTwice(s) /\ ~ \E k \in 1 .. Len(s) : s[k] = p
    BY <1>1, FreeIn DEF Once, Trees
  <1>3. PICK l : l = Append(s, p)
    OBVIOUS
  <1>4. l \in Seq(Nat) /\ Len(l) = Len(s) + 1 /\ Len(s) \in Nat /\ l[Len(s) + 1] = p /\ \A k \in 1 .. Len(s) : l[k] = s[k]
    BY <1>2, <1>3
  <1>5. \A k \in 1 .. Len(l) : k = Len(s) + 1 \/ k \in 1 .. Len(s)
    BY <1>4
  <1>6. NoTwice(l) /\ l \in Seq(Nat)
    BY <1>2, <1>4, <1>5 DEF NoTwice
  <1>7. PICK u : u = ListPush(t, b, p)
    OBVIOUS
  <1>8. Kept(u, t) /\ Listing(u, t, b, l)
    <2>1. u = WithList(t, b, l)
      BY <1>1, <1>3, <1>7 DEF ListPush, WithList
    <2> QED BY <1>6, <2>1, ListSet
  <1>9. ASSUME NEW d \in Nat PROVE <<b, d>> \in FreeAt(u) <=> <<b, d>> \in FreeAt(t) \/ d = p
    <2>1. <<b, d>> \in FreeAt(t) <=> \E k \in 1 .. Len(s) : s[k] = d
      BY <1>1, FreeIn
    <2>2. (\E k \in 1 .. Len(l) : l[k] = d) <=> (\E k \in 1 .. Len(s) : s[k] = d) \/ d = p
      BY <1>4, <1>5
    <2> QED BY <1>8, <2>1, <2>2 DEF Listing
  <1>10. FreeAt(u) = FreeAt(t) \cup {<<b, p>>}
    <2>1. ASSUME NEW c \in Buckets \X Nat PROVE c \in FreeAt(u) <=> c \in FreeAt(t) \/ c = <<b, p>>
      <3>1. c = <<c[1], c[2]>> /\ c[2] \in Nat
        OBVIOUS
      <3>2. CASE c[1] = b
        BY <1>9, <3>1, <3>2
      <3>3. CASE c[1] # b
        BY <1>8, <3>3 DEF Listing
      <3> QED BY <3>2, <3>3
    <2>2. FreeAt(u) \subseteq Buckets \X Nat /\ FreeAt(t) \subseteq Buckets \X Nat /\ <<b, p>> \in Buckets \X Nat
      BY DEF FreeAt
    <2> QED BY <2>1, <2>2
  <1>11. u.lists[b] # <<>>
    <2>1. l # <<>>
      BY <1>4
    <2> QED BY <1>8, <2>1 DEF Listing
  <1> QED BY <1>7, <1>8, <1>10, <1>11

\* One out of a list, the others as they were: what is left is the list without it.
Lacks(l, s, j) ==
  Len(l) = Len(s) - 1 /\ \A i \in 1 .. Len(s) - 1 : l[i] = IF i < j THEN s[i] ELSE s[i + 1]

LEMMA OneOut ==
  ASSUME NEW t \in Trees, Once(t), NEW b \in Buckets, NEW l \in Seq(Nat), NEW j \in 1 .. Len(t.lists[b]),
         Lacks(l, t.lists[b], j)
  PROVE  /\ Kept(WithList(t, b, l), t)
         /\ t.lists[b][j] \in Nat /\ <<b, t.lists[b][j]>> \in FreeAt(t)
         /\ FreeAt(WithList(t, b, l)) = FreeAt(t) \ {<<b, t.lists[b][j]>>}
  <1>1. PICK s : s = t.lists[b]
    OBVIOUS
  <1>2. PICK n : n = Len(s)
    OBVIOUS
  <1>3. s \in Seq(Nat) /\ NoTwice(s) /\ n \in Nat /\ j \in 1 .. n /\ \A k \in 1 .. n : s[k] \in Nat
    BY <1>1, <1>2 DEF Once, Trees
  <1>4. Len(l) = n - 1 /\ \A i \in 1 .. n - 1 : l[i] = IF i < j THEN s[i] ELSE s[i + 1]
    BY <1>1, <1>2 DEF Lacks
  <1>5. \A i, k \in 1 .. n : s[i] = s[k] => i = k
    BY <1>2, <1>3 DEF NoTwice
  <1>6. ASSUME NEW i \in 1 .. n - 1 PROVE \E k \in 1 .. n : k = (IF i < j THEN i ELSE i + 1) /\ s[k] = l[i]
    BY <1>3, <1>4
  <1>7. NoTwice(l)
    <2>1. ASSUME NEW i \in 1 .. n - 1, NEW k \in 1 .. n - 1, l[i] = l[k] PROVE i = k
      <3>1. PICK x \in 1 .. n : x = (IF i < j THEN i ELSE i + 1) /\ s[x] = l[i]
        BY <1>6
      <3>2. PICK y \in 1 .. n : y = (IF k < j THEN k ELSE k + 1) /\ s[y] = l[k]
        BY <1>6
      <3>3. x = y
        BY <1>5, <2>1, <3>1, <3>2
      <3> QED BY <1>3, <3>1, <3>2, <3>3
    <2> QED BY <1>4, <2>1 DEF NoTwice
  <1>0. PICK u : u = WithList(t, b, l)
    OBVIOUS
  <1>8. Kept(u, t) /\ Listing(u, t, b, l)
    BY <1>0, <1>7, ListSet
  <1>9. ASSUME NEW d \in Nat PROVE <<b, d>> \in FreeAt(u) <=> <<b, d>> \in FreeAt(t) /\ d # s[j]
    <2>1. <<b, d>> \in FreeAt(t) <=> \E k \in 1 .. n : s[k] = d
      BY <1>1, <1>2, FreeIn
    <2>2. ASSUME NEW i \in 1 .. n - 1 PROVE \E k \in 1 .. n : k # j /\ s[k] = l[i]
      <3>1. PICK k \in 1 .. n : k = (IF i < j THEN i ELSE i + 1) /\ s[k] = l[i]
        BY <1>6
      <3>2. k # j
        BY <1>3, <3>1
      <3> QED BY <3>1, <3>2
    <2>3. ASSUME NEW k \in 1 .. n, k # j PROVE \E i \in 1 .. n - 1 : l[i] = s[k]
      <3>1. CASE k < j
        <4>1. k \in 1 .. n - 1 /\ l[k] = s[k]
          BY <1>3, <1>4, <3>1
        <4> QED BY <4>1
      <3>2. CASE j < k
        <4>1. k - 1 \in 1 .. n - 1 /\ ~ (k - 1 < j) /\ (k - 1) + 1 = k
          BY <1>3, <3>2
        <4>2. l[k - 1] = s[k]
          BY <1>4, <4>1
        <4> QED BY <4>1, <4>2
      <3>3. k < j \/ j < k
        BY <1>3, <2>3
      <3> QED BY <3>1, <3>2, <3>3
    <2>4. (\E i \in 1 .. n - 1 : l[i] = d) <=> (\E k \in 1 .. n : k # j /\ s[k] = d)
      BY <2>2, <2>3
    <2>5. (\E k \in 1 .. n : k # j /\ s[k] = d) <=> (\E k \in 1 .. n : s[k] = d) /\ d # s[j]
      BY <1>3, <1>5
    <2>6. <<b, d>> \in FreeAt(u) <=> \E i \in 1 .. n - 1 : l[i] = d
      BY <1>4, <1>8 DEF Listing
    <2> QED BY <2>1, <2>4, <2>5, <2>6
  <1>10. <<b, s[j]>> \in FreeAt(t) /\ s[j] \in Nat
    BY <1>1, <1>2, <1>3, FreeIn
  <1>11. FreeAt(u) = FreeAt(t) \ {<<b, s[j]>>}
    <2>1. ASSUME NEW c \in Buckets \X Nat PROVE c \in FreeAt(u) <=> c \in FreeAt(t) /\ c # <<b, s[j]>>
      <3>1. c = <<c[1], c[2]>> /\ c[2] \in Nat
        OBVIOUS
      <3>2. CASE c[1] = b
        <4>1. c = <<b, s[j]>> <=> c[2] = s[j]
          BY <3>1, <3>2
        <4> QED BY <1>9, <3>1, <3>2, <4>1
      <3>3. CASE c[1] # b
        <4>1. c # <<b, s[j]>>
          BY <3>3
        <4> QED BY <1>8, <3>3, <4>1 DEF Listing
      <3> QED BY <3>2, <3>3
    <2>2. FreeAt(u) \subseteq Buckets \X Nat /\ FreeAt(t) \subseteq Buckets \X Nat
      BY DEF FreeAt
    <2> QED BY <2>1, <2>2
  <1> QED BY <1>0, <1>1, <1>8, <1>10, <1>11

LEMMA PoppedList ==
  ASSUME NEW t \in Trees, Once(t), NEW b \in Buckets, t.lists[b] # <<>>,
         NEW p, p = t.lists[b][Len(t.lists[b])], NEW u, u = [t EXCEPT !.lists[b] = Front(@)]
  PROVE  Kept(u, t) /\ p \in Nat /\ <<b, p>> \in FreeAt(t) /\ FreeAt(u) = FreeAt(t) \ {<<b, p>>}
  <1>1. PICK s : s = t.lists[b]
    OBVIOUS
  <1>2. s \in Seq(Nat) /\ s # <<>>
    BY <1>1 DEF Trees
  <1>3. /\ Front(s) \in Seq(Nat) /\ Len(s) \in Nat \ {0} /\ Len(Front(s)) = Len(s) - 1
        /\ \A i \in 1 .. Len(s) - 1 : Front(s)[i] = s[i]
    BY <1>2, ButLast
  <1>4. PICK n : n = Len(s)
    OBVIOUS
  <1>5. n \in 1 .. Len(s) /\ Lacks(Front(s), s, n)
    BY <1>3, <1>4 DEF Lacks
  <1>6. u = WithList(t, b, Front(s)) /\ p = s[n]
    BY <1>1, <1>4 DEF WithList
  <1>7. PICK l : l = Front(s)
    OBVIOUS
  <1>8. /\ Kept(WithList(t, b, l), t)
        /\ t.lists[b][n] \in Nat /\ <<b, t.lists[b][n]>> \in FreeAt(t)
        /\ FreeAt(WithList(t, b, l)) = FreeAt(t) \ {<<b, t.lists[b][n]>>}
    <2>1. l \in Seq(Nat) /\ n \in 1 .. Len(t.lists[b]) /\ Lacks(l, t.lists[b], n)
      BY <1>1, <1>3, <1>5, <1>7
    <2> QED BY <2>1, OneOut
  <1> QED BY <1>1, <1>6, <1>7, <1>8

LEMMA Removed ==
  ASSUME NEW t \in Trees, Once(t), NEW b \in Buckets, NEW p \in Nat, <<b, p>> \in FreeAt(t),
         \A s \in FreeAt(t) : s[2] = p => s = <<b, p>>
  PROVE  Kept(ListRemove(t, p), t) /\ FreeAt(ListRemove(t, p)) = FreeAt(t) \ {<<b, p>>}
  <1>1. PICK s : s = t.lists[b]
    OBVIOUS
  <1>2. s \in Seq(Nat) /\ \E i \in 1 .. Len(s) : s[i] = p
    BY <1>1, FreeIn DEF Trees
  <1>3. PICK j \in 1 .. Len(s) : s[j] = p /\ RemoveFirst(s, p) \in Seq(Nat) /\ Lacks(RemoveFirst(s, p), s, j)
    BY <1>2, TakenOut DEF Lacks
  <1>4. ASSUME NEW c \in Buckets, c # b PROVE RemoveFirst(t.lists[c], p) = t.lists[c]
    <2>1. ~ \E k \in 1 .. Len(t.lists[c]) : t.lists[c][k] = p
      <3>1. SUFFICES ASSUME \E k \in 1 .. Len(t.lists[c]) : t.lists[c][k] = p PROVE FALSE
        OBVIOUS
      <3>2. <<c, p>> \in FreeAt(t) /\ <<c, p>>[2] = p
        BY <3>1, FreeIn
      <3>3. <<c, p>> = <<b, p>>
        BY <3>2
      <3> QED BY <1>4, <3>3
    <2> QED BY <2>1 DEF RemoveFirst
  <1>5. PICK l : l = RemoveFirst(s, p)
    OBVIOUS
  <1>6. [c \in Buckets |-> RemoveFirst(t.lists[c], p)] = [t.lists EXCEPT ![b] = l]
    <2>1. t.lists \in [Buckets -> Seq(Nat)]
      BY DEF Trees
    <2> QED BY <1>1, <1>4, <1>5, <2>1
  <1>7. ListRemove(t, p) = WithList(t, b, l)
    BY <1>6 DEF ListRemove, WithList
  <1> QED BY <1>1, <1>3, <1>5, <1>7, OneOut

\* A list that holds nothing is the empty one.
LEMMA NoneListed ==
  ASSUME NEW t \in Trees, NEW b \in Buckets, \A p \in Nat : <<b, p>> \notin FreeAt(t)
  PROVE  t.lists[b] = <<>> /\ ListInit(t, b) = t
  <1>1. t.lists[b] \in Seq(Nat) /\ t.lists \in [Buckets -> Seq(Nat)]
    BY DEF Trees
  <1>2. t.lists[b] = <<>>
    <2>1. SUFFICES ASSUME t.lists[b] # <<>> PROVE FALSE
      OBVIOUS
    <2>2. 1 \in 1 .. Len(t.lists[b]) /\ t.lists[b][1] \in Nat
      BY <1>1, <2>1
    <2> QED BY <2>2, FreeIn
  <1>3. [t.lists EXCEPT ![b] = <<>>] = t.lists
    BY <1>1, <1>2
  <1> QED BY <1>2, <1>3 DEF ListInit, Trees

-----------------------------------------------------------------------------
(***************************************************************************)
(* A tree, beside the blocks in use: these and those listed free tile the  *)
(* root, the bits say which are idle, no two buddies are both free, and a  *)
(* free block's links lie in what is taken.                                *)
(***************************************************************************)
NoPairs(F) == \A c, q : Spot(c, q) /\ c < Least => ~ (<<c + 1, q>> \in F /\ <<c + 1, q + SizeOf(c + 1)>> \in F)

Linked(F, max) == \A s \in F : s[2] + LinkBytes <= max

TreeOK(t, X) ==
  /\ t \in Trees /\ Once(t)
  /\ FreeAt(t) \cap X = {}
  /\ Tiling(FreeAt(t) \cup X, t.limit)
  /\ BitsOK(Idle(FreeAt(t), t.limit), t.split)
  /\ NoPairs(FreeAt(t))
  /\ Linked(FreeAt(t), t.max)

LEMMA TreeTypes ==
  ASSUME NEW t \in Trees
  PROVE  /\ t = [lists |-> t.lists, limit |-> t.limit, split |-> t.split, max |-> t.max]
         /\ t.lists \in [Buckets -> Seq(Nat)] /\ t.limit \in Buckets /\ t.split \subseteq Nat /\ t.max \in LinkBytes .. EndAt
         /\ FreeAt(t) \subseteq Buckets \X Nat
  BY DEF Trees, FreeAt

\* A spot is the range's base, or lies its block's size from it.
LEMMA SpotFar ==
  ASSUME BuddyAssumption, NEW b, NEW p, Spot(b, p)
  PROVE  p = 0 \/ SizeOf(b) <= p
  <1>1. PICK k \in 0 .. TwoTo[b] - 1 : p = k * SizeOf(b)
    BY DEF Spot
  <1>2. SizeOf(b) \in Nat \ {0} /\ TwoTo[b] \in Nat \ {0}
    BY Sizes DEF Spot
  <1>3. CASE k = 0
    BY <1>1, <1>2, <1>3
  <1>4. CASE k # 0
    <2>1. k - 1 \in Nat /\ p = SizeOf(b) + (k - 1) * SizeOf(b)
      BY <1>1, <1>2, <1>4
    <2> QED BY <1>2, <2>1
  <1> QED BY <1>3, <1>4

\* The root's spot and its buddy's.
LEMMA RootSpots ==
  ASSUME BuddyAssumption, NEW b \in Buckets
  PROVE  /\ Spot(b, 0) /\ NodeForPtr(0, b) = TwoTo[b] - 1 /\ (NodeForPtr(0, b) # 0 <=> b # 0)
         /\ PtrForNode(NodeForPtr(0, b) + 1, b) = SizeOf(b) /\ 0 + SizeOf(b) = SizeOf(b)
         /\ b # 0 => /\ Spot(b, SizeOf(b)) /\ b - 1 \in Buckets /\ b - 1 < Least /\ (b - 1) + 1 = b
                     /\ Parent(NodeForPtr(0, b)) = NodeForPtr(0, b - 1)
                     /\ Parent(NodeForPtr(SizeOf(b), b)) = NodeForPtr(0, b - 1)
  <1>1. SizeOf(b) \in Nat \ {0} /\ TwoTo[b] \in Nat \ {0} /\ TwoTo[0] = 1
    BY Sizes
  <1>2. 0 \in 0 .. TwoTo[b] - 1 /\ 0 = 0 * SizeOf(b) /\ SizeOf(b) = 1 * SizeOf(b) /\ 0 \in Int /\ 1 \in Int
    BY <1>1
  <1>3. Spot(b, 0)
    BY <1>2 DEF Spot
  <1>4. NodeForPtr(0, b) = 0 + TwoTo[b] - 1
    BY <1>2, NodeAt
  <1>5. PtrForNode(1 + TwoTo[b] - 1, b) = SizeOf(b)
    BY <1>2, NodeAt
  <1>6. ASSUME b # 0
        PROVE  /\ Spot(b, SizeOf(b)) /\ b - 1 \in Buckets /\ b - 1 < Least /\ (b - 1) + 1 = b /\ TwoTo[b] > 1
               /\ Parent(NodeForPtr(0, b)) = NodeForPtr(0, b - 1)
               /\ Parent(NodeForPtr(SizeOf(b), b)) = NodeForPtr(0, b - 1)
    <2>1. b - 1 \in Buckets /\ b - 1 < Least /\ (b - 1) + 1 = b
      BY <1>6, Sizes DEF Buckets
    <2>2. TwoTo[b] = 2 * TwoTo[b - 1] /\ TwoTo[b - 1] \in Nat \ {0}
      BY <1>6, <2>1, Sizes
    <2>3. 1 \in 0 .. TwoTo[b] - 1
      BY <1>1, <2>2
    <2>4. Spot(b, SizeOf(b))
      BY <1>2, <2>3 DEF Spot
    <2>5. Spot(b - 1, 0)
      <3>1. TwoTo[b - 1] \in Nat \ {0} /\ SizeOf(b - 1) \in Nat \ {0}
        BY <2>1, Sizes
      <3>2. 0 \in 0 .. TwoTo[b - 1] - 1 /\ 0 = 0 * SizeOf(b - 1)
        BY <3>1
      <3> QED BY <2>1, <3>2 DEF Spot
    <2>6. /\ Parent(NodeForPtr(0, (b - 1) + 1)) = NodeForPtr(0, b - 1)
          /\ Parent(NodeForPtr(0 + SizeOf((b - 1) + 1), (b - 1) + 1)) = NodeForPtr(0, b - 1)
      BY <2>1, <2>5, ParentNode
    <2>7. 0 + SizeOf(b) = SizeOf(b)
      BY <1>1
    <2> QED BY <1>1, <2>1, <2>2, <2>4, <2>6, <2>7
  <1>7. NodeForPtr(0, b) + 1 = 1 + TwoTo[b] - 1 /\ NodeForPtr(0, b) = TwoTo[b] - 1
    BY <1>1, <1>4
  <1>8. b = 0 => NodeForPtr(0, b) = 0
    BY <1>1, <1>7
  <1>9. b # 0 => NodeForPtr(0, b) # 0
    BY <1>1, <1>6, <1>7
  <1> QED BY <1>1, <1>3, <1>5, <1>6, <1>7, <1>8, <1>9

\* A parent's bit, read at a child.
LEMMA BitAt ==
  ASSUME BuddyAssumption, NEW t, NEW I, BitsOK(I, t.split), NEW c, NEW q, Spot(c, q), c < Least
  PROVE  /\ IsSplit(t, NodeForPtr(q, c + 1)) <=> ~ (<<c + 1, q>> \in I <=> <<c + 1, q + SizeOf(c + 1)>> \in I)
         /\ IsSplit(t, NodeForPtr(q + SizeOf(c + 1), c + 1)) <=>
              ~ (<<c + 1, q>> \in I <=> <<c + 1, q + SizeOf(c + 1)>> \in I)
  <1>1. /\ Parent(NodeForPtr(q, c + 1)) = NodeForPtr(q, c)
        /\ Parent(NodeForPtr(q + SizeOf(c + 1), c + 1)) = NodeForPtr(q, c)
    BY ParentNode
  <1> QED BY <1>1 DEF IsSplit, BitsOK

\* The root and its buddy both idle, and no other node: no bit is set.
LEMMA RootPair ==
  ASSUME BuddyAssumption, NEW b \in Buckets, NEW c, NEW q, Spot(c, q), c < Least
  PROVE  <<c + 1, q>> \in Idle({<<b, 0>>}, b) <=> <<c + 1, q + SizeOf(c + 1)>> \in Idle({<<b, 0>>}, b)
  <1>1. (q = 0 \/ SizeOf(c) <= q) /\ SizeOf(c) = 2 * SizeOf(c + 1) /\ SizeOf(c + 1) \in Nat \ {0} /\ q \in Nat
    BY SpotFar, Kids, SpotTypes
  <1>2. CASE c + 1 = b
    <2>1. PICK z \in Nat \ {0} : z = SizeOf(b)
      BY <1>1, <1>2
    <2>2. q = 0 \/ 2 * z <= q
      BY <1>1, <1>2, <2>1
    <2>3. <<b, q>> \in Idle({<<b, 0>>}, b) <=> q = 0 \/ q = z
      BY <2>1 DEF Idle
    <2>4. <<b, q + z>> \in Idle({<<b, 0>>}, b) <=> q + z = 0 \/ q + z = z
      BY <2>1 DEF Idle
    <2>5. (q = 0 \/ q = z) <=> (q + z = 0 \/ q + z = z)
      BY <1>1, <2>1, <2>2
    <2> QED BY <1>2, <2>1, <2>3, <2>4, <2>5
  <1>3. CASE c + 1 # b
    BY <1>3 DEF Idle
  <1> QED BY <1>2, <1>3

\* What lies in a tree's lists, in numbers.
LEMMA FreeTypes ==
  ASSUME BuddyAssumption, NEW t, NEW X, TreeOK(t, X), NEW s \in FreeAt(t)
  PROVE  /\ s = <<s[1], s[2]>> /\ s[1] \in t.limit .. Least /\ s[1] \in Buckets /\ s[2] \in Nat /\ s \notin X
         /\ Spot(s[1], s[2]) /\ EndOf(s) <= SizeOf(t.limit) /\ s[2] + LinkBytes <= t.max
         /\ s # <<t.limit, SizeOf(t.limit)>>
  <1>1. s \in FreeAt(t) \cup X /\ Tiling(FreeAt(t) \cup X, t.limit) /\ s \notin X /\ s[2] + LinkBytes <= t.max
    BY DEF TreeOK, Linked
  <1>2. /\ s = <<s[1], s[2]>> /\ s[1] \in t.limit .. Least /\ s[1] \in Buckets /\ s[2] \in Nat
        /\ SizeOf(t.limit) \in Nat \ {0} /\ EndOf(s) \in Nat /\ s[2] < EndOf(s)
    BY <1>1, TileTypes
  <1>3. Spot(s[1], s[2]) /\ EndOf(s) <= SizeOf(t.limit)
    BY <1>1 DEF Tiling
  <1>4. s[2] # SizeOf(t.limit)
    BY <1>2, <1>3
  <1> QED BY <1>1, <1>2, <1>3, <1>4

\* The free root doubled.
LEMMA RootFreeOK ==
  ASSUME BuddyAssumption, NEW t, NEW X, TreeOK(t, X), t.limit # 0, ~ IsSplit(t, NodeForPtr(0, t.limit))
  PROVE  /\ <<t.limit, 0>> \in FreeAt(t)
         /\ TreeOK(RootFree(t), X) /\ RootFree(t).limit = t.limit - 1 /\ RootFree(t).max = t.max
  <1> DEFINE L == t.limit
             M == t.limit - 1
  <1>1. /\ t \in Trees /\ Once(t) /\ L \in Buckets /\ Tiling(FreeAt(t) \cup X, L)
        /\ t.max \in LinkBytes .. EndAt /\ LinkBytes \in Nat /\ EndAt \in Nat
    BY Sizes, TreeTypes DEF TreeOK, BuddyAssumption
  <1>2. M \in Buckets /\ M < Least /\ M + 1 = L /\ Spot(M, 0) /\ 0 + SizeOf(L) = SizeOf(L) /\ M < L
    <2>1. M \in Buckets /\ M < Least /\ M + 1 = L /\ 0 + SizeOf(L) = SizeOf(L) /\ M < L
      BY <1>1, RootSpots DEF Buckets
    <2> QED BY <2>1, RootSpots
  <1>3. <<L, 0>> \in FreeAt(t)
    <2>1. IsSplit(t, NodeForPtr(0, M + 1)) <=>
            ~ (<<M + 1, 0>> \in Idle(FreeAt(t), L) <=> <<M + 1, 0 + SizeOf(M + 1)>> \in Idle(FreeAt(t), L))
      BY <1>2, BitAt DEF TreeOK
    <2>2. <<L, SizeOf(L)>> \in Idle(FreeAt(t), L)
      BY DEF Idle
    <2>3. <<L, 0>> \in Idle(FreeAt(t), L)
      BY <1>2, <2>1, <2>2
    <2>4. SizeOf(L) # 0
      BY <1>1, Sizes
    <2> QED BY <2>3, <2>4 DEF Idle
  <1>4. FreeAt(t) = {<<L, 0>>} /\ X = {} /\ Tiling({<<M, 0>>}, M)
    <2>1. FreeAt(t) \cup X = {<<L, 0>>} /\ Tiling({<<M, 0>>}, M)
      BY <1>1, <1>3, TileFree
    <2>2. FreeAt(t) \cap X = {}
      BY DEF TreeOK
    <2> QED BY <1>3, <2>1, <2>2
  <1> HIDE DEF L, M
  <1>5. PICK u : u = ListRemove(t, 0)
    OBVIOUS
  <1>6. Kept(u, t) /\ FreeAt(u) = {}
    <2>1. 0 \in Nat /\ \A s \in FreeAt(t) : s[2] = 0 => s = <<L, 0>>
      BY <1>4
    <2>2. Kept(ListRemove(t, 0), t) /\ FreeAt(ListRemove(t, 0)) = FreeAt(t) \ {<<L, 0>>}
      BY <1>1, <1>3, <2>1, Removed
    <2> QED BY <1>4, <1>5, <2>2
  <1>7. PICK v : v = [u EXCEPT !.limit = @ - 1]
    OBVIOUS
  <1>8. v \in Trees /\ Once(v) /\ v.limit = M /\ v.split = t.split /\ v.max = t.max /\ FreeAt(v) = {}
    <2>1. u \in Trees /\ u.limit = L
      BY <1>6 DEF Kept, L
    <2>2. /\ v.lists = u.lists /\ v.limit = M /\ v.split = u.split /\ v.max = u.max
          /\ v \in Trees
      BY <1>2, <1>7, <2>1 DEF Trees, L, M
    <2> QED BY <1>6, <2>2 DEF Kept, Once, FreeAt
  <1>9. ListInit(v, M) = v
    BY <1>2, <1>8, NoneListed
  <1>10. PICK w : w = ListPush(v, M, 0)
    OBVIOUS
  <1>11. Kept(w, v) /\ FreeAt(w) = {<<M, 0>>}
    <2>1. 0 \in Nat /\ <<M, 0>> \notin FreeAt(v)
      BY <1>8
    <2> QED BY <1>2, <1>8, <1>10, <2>1, Pushed
  <1>12. w = RootFree(t)
    BY <1>5, <1>7, <1>9, <1>10 DEF RootFree, M
  <1>13. w \in Trees /\ Once(w) /\ w.limit = M /\ w.split = t.split /\ w.max = t.max
    BY <1>8, <1>11 DEF Kept
  <1>14. BitsOK(Idle({<<M, 0>>}, M), t.split)
    <2>1. BitsOK(Idle({<<L, 0>>}, L), t.split)
      BY <1>4 DEF TreeOK, L
    <2>2. ASSUME NEW c, NEW q, Spot(c, q), c < Least
          PROVE  NodeForPtr(q, c) \in t.split <=>
                   ~ (<<c + 1, q>> \in Idle({<<M, 0>>}, M) <=> <<c + 1, q + SizeOf(c + 1)>> \in Idle({<<M, 0>>}, M))
      <3>1. NodeForPtr(q, c) \in t.split <=>
              ~ (<<c + 1, q>> \in Idle({<<L, 0>>}, L) <=> <<c + 1, q + SizeOf(c + 1)>> \in Idle({<<L, 0>>}, L))
        BY <2>1, <2>2 DEF BitsOK
      <3>2. <<c + 1, q>> \in Idle({<<L, 0>>}, L) <=> <<c + 1, q + SizeOf(c + 1)>> \in Idle({<<L, 0>>}, L)
        BY <1>1, <2>2, RootPair DEF L
      <3>3. <<c + 1, q>> \in Idle({<<M, 0>>}, M) <=> <<c + 1, q + SizeOf(c + 1)>> \in Idle({<<M, 0>>}, M)
        BY <1>2, <2>2, RootPair
      <3> QED BY <3>1, <3>2, <3>3
    <2> QED BY <2>1, <2>2 DEF BitsOK
  <1>15. NoPairs({<<M, 0>>})
    <2>1. ASSUME NEW c, NEW q, Spot(c, q), c < Least
          PROVE  ~ (<<c + 1, q>> = <<M, 0>> /\ <<c + 1, q + SizeOf(c + 1)>> = <<M, 0>>)
      <3>1. SizeOf(c + 1) \in Nat \ {0} /\ q \in Nat
        BY <2>1, Kids, SpotTypes
      <3>2. q + SizeOf(c + 1) # 0
        BY <3>1
      <3> QED BY <3>2
    <2> QED BY <2>1 DEF NoPairs
  <1>16. Linked({<<M, 0>>}, t.max)
    <2>1. <<M, 0>>[2] = 0 /\ 0 + LinkBytes <= t.max
      BY <1>1
    <2> QED BY <2>1 DEF Linked
  <1>17. TreeOK(w, X)
    BY <1>4, <1>11, <1>13, <1>14, <1>15, <1>16 DEF TreeOK
  <1> QED BY <1>3, <1>12, <1>13, <1>17 DEF L, M

\* The root in use, and its buddy made beside it.
LEMMA RootUsedOK ==
  ASSUME BuddyAssumption, NEW t, NEW X, TreeOK(t, X), t.limit # 0, IsSplit(t, NodeForPtr(0, t.limit)),
         Reaches(PtrForNode(NodeForPtr(0, t.limit) + 1, t.limit) + LinkBytes)
  PROVE  /\ TreeOK(RootUsed(t), X) /\ RootUsed(t).limit = t.limit - 1 /\ t.max <= RootUsed(t).max
         /\ RootUsed(t).lists[t.limit] # <<>>
  <1> DEFINE L == t.limit
             M == t.limit - 1
             z == SizeOf(t.limit)
             F == FreeAt(t)
             to == z + LinkBytes
             max == IF to > t.max THEN to ELSE t.max
  <1>1. /\ t \in Trees /\ Once(t) /\ L \in Buckets /\ Tiling(F \cup X, L)
        /\ t.max \in LinkBytes .. EndAt /\ LinkBytes \in Nat /\ EndAt \in Nat /\ z \in Nat \ {0}
    BY Sizes, TreeTypes DEF TreeOK, BuddyAssumption
  <1>2. /\ M \in Buckets /\ M < Least /\ M + 1 = L /\ M < L /\ 0 + z = z /\ PtrForNode(NodeForPtr(0, L) + 1, L) = z
        /\ Spot(L, z) /\ Parent(NodeForPtr(0, L)) = NodeForPtr(0, M) /\ Spot(M, 0)
    <2>1. M \in Buckets /\ M < Least /\ M + 1 = L /\ 0 + z = z /\ M < L /\ PtrForNode(NodeForPtr(0, L) + 1, L) = z
          /\ Spot(L, z) /\ Parent(NodeForPtr(0, L)) = NodeForPtr(0, M)
      BY <1>1, RootSpots DEF Buckets
    <2> QED BY <2>1, RootSpots
  <1>3. to <= EndAt /\ max \in LinkBytes .. EndAt /\ t.max <= max /\ to <= max
    BY <1>1, <1>2 DEF Reaches
  <1>4. <<L, 0>> \notin F /\ <<L, z>> \notin F
    <2>1. ~ (<<M + 1, 0>> \in Idle(F, L) <=> <<M + 1, 0 + SizeOf(M + 1)>> \in Idle(F, L))
      BY <1>2, BitAt DEF TreeOK
    <2>2. <<L, z>> \in Idle(F, L)
      BY DEF Idle
    <2>3. <<L, 0>> \notin Idle(F, L)
      BY <1>2, <2>1, <2>2
    <2>4. <<L, z>> \notin F
      BY <1>1, TileUsed
    <2> QED BY <2>3, <2>4 DEF Idle
  <1>5. F \cap X = {} /\ BitsOK(Idle(F, L), t.split) /\ NoPairs(F) /\ Linked(F, t.max)
    BY DEF TreeOK
  <1>5a. ASSUME NEW s \in F PROVE s = <<s[1], s[2]>> /\ s[1] # M /\ s[2] \in Nat /\ s[2] + LinkBytes <= max
    <2>1. s = <<s[1], s[2]>> /\ s[1] \in L .. Least /\ s[2] \in Nat /\ s[2] + LinkBytes <= t.max
      BY FreeTypes
    <2> QED BY <1>1, <1>2, <1>3, <2>1 DEF Buckets
  <1>6. PICK G : G = F \cup {<<L, z>>}
    OBVIOUS
  <1>7. Tiling(G \cup X, M) /\ <<L, z>> \notin X
    <2>1. Tiling((F \cup X) \cup {<<L, z>>}, M) /\ <<L, z>> \notin F \cup X
      BY <1>1, TileUsed
    <2>2. G \cup X = (F \cup X) \cup {<<L, z>>}
      BY <1>6
    <2> QED BY <2>1, <2>2
  <1> HIDE DEF F, L, M, z, to, max
  <1>8. PICK u : u = Taken(t, to)
    OBVIOUS
  <1>9. u \in Trees /\ Once(u) /\ u.limit = L /\ u.split = t.split /\ u.max = max /\ FreeAt(u) = F
    <2>1. u.lists = t.lists /\ u.limit = L /\ u.split = t.split /\ u.max = max /\ u \in Trees
      BY <1>1, <1>3, <1>8 DEF Taken, Trees, L, max
    <2> QED BY <1>1, <2>1 DEF Once, FreeAt, F
  <1>10. PICK v : v = ListPush(u, L, z)
    OBVIOUS
  <1>11. Kept(v, u) /\ FreeAt(v) = G /\ v.lists[L] # <<>>
    BY <1>1, <1>4, <1>6, <1>9, <1>10, Pushed
  <1>12. PICK w : w = [v EXCEPT !.limit = @ - 1]
    OBVIOUS
  <1>13. /\ w \in Trees /\ Once(w) /\ w.limit = M /\ w.split = t.split /\ w.max = max /\ FreeAt(w) = G /\ w.lists[L] # <<>>
    <2>1. v \in Trees /\ Once(v) /\ v.limit = L /\ v.split = t.split /\ v.max = max
      BY <1>9, <1>11 DEF Kept
    <2>2. w.lists = v.lists /\ w.limit = M /\ w.split = v.split /\ w.max = v.max /\ w \in Trees
      BY <1>2, <1>12, <2>1 DEF Trees, L, M
    <2> QED BY <1>11, <2>1, <2>2 DEF Once, FreeAt
  <1>14. \A p : <<M, p>> \notin G
    <2>1. M # L
      BY <1>1, <1>2 DEF Buckets
    <2>2. ASSUME NEW p, <<M, p>> \in G PROVE FALSE
      <3>1. <<M, p>> \in F
        BY <1>6, <2>1, <2>2
      <3>2. <<M, p>>[1] # M
        BY <1>5a, <3>1
      <3> QED BY <3>2
    <2> QED BY <2>2
  <1>15. ListInit(w, M) = w
    BY <1>2, <1>13, <1>14, NoneListed
  <1>16. RootUsed(t) = IF Parent(NodeForPtr(0, L)) # 0 THEN Flip(w, Parent(NodeForPtr(0, L))) ELSE w
    BY <1>2, <1>8, <1>10, <1>12, <1>15 DEF RootUsed, L, M, z, to
  <1>17. NoPairs(G)
    <2>1. ASSUME NEW c, NEW q, Spot(c, q), c < Least, <<c + 1, q>> \in G, <<c + 1, q + SizeOf(c + 1)>> \in G
          PROVE  FALSE
      <3>1. ~ (<<c + 1, q>> \in F /\ <<c + 1, q + SizeOf(c + 1)>> \in F)
        BY <1>5, <2>1 DEF NoPairs
      <3>2. (q = 0 \/ SizeOf(c) <= q) /\ SizeOf(c) = 2 * SizeOf(c + 1) /\ SizeOf(c + 1) \in Nat \ {0} /\ q \in Nat
        BY <2>1, SpotFar, Kids, SpotTypes
      <3>3. CASE <<c + 1, q>> = <<L, z>>
        <4>1. c + 1 = L /\ q = z
          BY <3>3
        <4>2. SizeOf(c + 1) = z
          BY <4>1 DEF L, z
        <4> QED BY <1>1, <3>2, <4>1, <4>2
      <3>4. CASE <<c + 1, q + SizeOf(c + 1)>> = <<L, z>> /\ <<c + 1, q>> # <<L, z>>
        <4>1. c + 1 = L /\ q + SizeOf(c + 1) = z
          BY <3>4
        <4>2. SizeOf(c + 1) = z
          BY <4>1 DEF L, z
        <4>3. q = 0
          BY <1>1, <3>2, <4>1, <4>2
        <4>4. <<L, 0>> \in F
          BY <1>6, <2>1, <3>4, <4>1, <4>3
        <4> QED BY <1>4, <4>4
      <3> QED BY <1>6, <2>1, <3>1, <3>3, <3>4
    <2> QED BY <2>1 DEF NoPairs
  <1>18. Linked(G, max)
    <2>1. <<L, z>>[2] = z /\ z + LinkBytes <= max
      BY <1>1, <1>3 DEF to
    <2> QED BY <1>5a, <1>6, <2>1 DEF Linked
  <1>19. \A s : s # <<M, SizeOf(M)>> => (s \in Idle(G, M) <=> s \in Idle(F, L))
    BY <1>6 DEF Idle, z, L
  <1>20. <<M, SizeOf(M)>> \in Idle(G, M) /\ <<M, SizeOf(M)>> \notin Idle(F, L)
    <2>1. <<M, SizeOf(M)>> \notin F /\ M # L
      BY <1>1, <1>2, <1>6, <1>14 DEF Buckets
    <2> QED BY <2>1 DEF Idle
  <1>21. CASE M = 0
    <2>1. RootUsed(t) = w
      <3>1. NodeForPtr(0, M) = 0
        BY <1>2, <1>21, RootSpots
      <3> QED BY <1>2, <1>16, <3>1
    <2>2. \A s : s[1] # 0 => s # <<M, SizeOf(M)>>
      BY <1>21
    <2>3. BitsOK(Idle(G, M), t.split)
      BY <1>5, <1>19, <2>2, BitsOfRoot
    <2>4. TreeOK(w, X)
      BY <1>4, <1>5, <1>6, <1>7, <1>13, <1>17, <1>18, <2>3 DEF TreeOK
    <2> QED BY <1>3, <1>13, <2>1, <2>4 DEF L, M
  <1>22. CASE M # 0
    <2>1. /\ Spot(M, SizeOf(M)) /\ NodeForPtr(0, M) # 0
          /\ Parent(NodeForPtr(0, M)) = Parent(NodeForPtr(SizeOf(M), M))
      BY <1>2, <1>22, RootSpots
    <2>2. RootUsed(t) = Flip(w, NodeForPtr(0, M))
      BY <1>2, <1>16, <2>1
    <2>3. PICK split : split = SymDiff(t.split, {Parent(NodeForPtr(SizeOf(M), M))})
      OBVIOUS
    <2>4. BitsOK(Idle(G, M), split)
      BY <1>5, <1>19, <1>20, <1>22, <2>1, <2>3, BitTurned
    <2>5. PICK f : f = Flip(w, NodeForPtr(0, M))
      OBVIOUS
    <2>6. /\ f \in Trees /\ f.lists = w.lists /\ f.limit = M /\ f.split = split /\ f.max = max
      <3>1. split \in SUBSET Nat
        BY <2>4 DEF BitsOK
      <3>2. SymDiff(w.split, {Parent(NodeForPtr(0, M))}) = split
        BY <1>13, <2>1, <2>3
      <3>3. f = [w EXCEPT !.split = split]
        BY <2>5, <3>2 DEF Flip
      <3> QED BY <1>13, <3>1, <3>3 DEF Trees
    <2>7. Once(f) /\ FreeAt(f) = G /\ f.lists[L] # <<>>
      BY <1>13, <2>6 DEF Once, FreeAt
    <2>8. TreeOK(f, X)
      BY <1>4, <1>5, <1>6, <1>7, <1>17, <1>18, <2>4, <2>6, <2>7 DEF TreeOK
    <2> QED BY <1>3, <2>2, <2>5, <2>6, <2>7, <2>8 DEF L, M
  <1> QED BY <1>21, <1>22

LEMMA LoweredOnceOK ==
  ASSUME BuddyAssumption, NEW t, NEW X, TreeOK(t, X), NEW b \in Buckets
  PROVE  /\ TreeOK(LoweredOnce(t, b), X) /\ t.max <= LoweredOnce(t, b).max
         /\ \/ LoweredOnce(t, b) = t
            \/ /\ b < t.limit /\ LoweredOnce(t, b).limit = t.limit - 1
               /\ <<t.limit, 0>> \in FreeAt(t) \/ LoweredOnce(t, b).lists[t.limit] # <<>>
  <1>1. t.limit \in Buckets /\ t.max \in LinkBytes .. EndAt /\ LinkBytes \in Nat
    BY Sizes, TreeTypes DEF TreeOK
  <1>2. t.max <= t.max /\ (b < t.limit => t.limit # 0)
    BY <1>1 DEF Buckets
  <1>3. CASE b >= t.limit
    <2>1. ~ (b < t.limit)
      BY <1>1, <1>3 DEF Buckets
    <2>2. LoweredOnce(t, b) = t
      BY <1>3, <2>1 DEF LoweredOnce
    <2> QED BY <1>2, <2>2
  <1>4. CASE b < t.limit /\ ~ IsSplit(t, NodeForPtr(0, t.limit))
    <2>1. ~ (b >= t.limit)
      BY <1>1, <1>4 DEF Buckets
    <2>2. LoweredOnce(t, b) = RootFree(t)
      BY <1>4, <2>1 DEF LoweredOnce
    <2> QED BY <1>2, <1>4, <2>2, RootFreeOK
  <1>5. CASE b < t.limit /\ IsSplit(t, NodeForPtr(0, t.limit))
    <2>1. ~ (b >= t.limit)
      BY <1>1, <1>5 DEF Buckets
    <2>2. LoweredOnce(t, b) =
            IF Reaches(PtrForNode(NodeForPtr(0, t.limit) + 1, t.limit) + LinkBytes) THEN RootUsed(t) ELSE t
      BY <1>5, <2>1 DEF LoweredOnce
    <2>3. CASE Reaches(PtrForNode(NodeForPtr(0, t.limit) + 1, t.limit) + LinkBytes)
      BY <1>2, <1>5, <2>2, <2>3, RootUsedOK
    <2>4. CASE ~ Reaches(PtrForNode(NodeForPtr(0, t.limit) + 1, t.limit) + LinkBytes)
      BY <1>2, <2>2, <2>4
    <2> QED BY <2>3, <2>4
  <1> QED BY <1>1, <1>3, <1>4, <1>5 DEF Buckets

\* Lowered as far as the range lets it: where the bucket above was the limit's and
\* listed nothing, it lists something now, or the limit is as it was.
LEMMA LoweredOK ==
  ASSUME BuddyAssumption, NEW t, NEW X, TreeOK(t, X), NEW b \in Buckets
  PROVE  /\ TreeOK(Lowered(t, b), X) /\ t.max <= Lowered(t, b).max
         /\ t.limit = b + 1 /\ t.lists[b + 1] = <<>> =>
              \/ Lowered(t, b).limit = b + 1 /\ Lowered(t, b).lists[b + 1] = <<>>
              \/ Lowered(t, b).limit <= b /\ Lowered(t, b).lists[b + 1] # <<>>
  <1> DEFINE S == {u \in Trees :
                     /\ TreeOK(u, X) /\ t.max <= u.max
                     /\ t.limit = b + 1 /\ t.lists[b + 1] = <<>> =>
                          (u.limit = b + 1 /\ u.lists[b + 1] = <<>>) \/ (u.limit <= b /\ u.lists[b + 1] # <<>>)}
             step == [n \in 1 .. Least |-> [u \in S |-> LoweredOnce(u, b)]]
             Low[n \in 0 .. Least] == IF n = 0 THEN t ELSE LoweredOnce(Low[n - 1], b)
  <1>1. Least \in Nat /\ LinkBytes \in Nat
    BY Sizes
  <1>2. t \in Trees /\ t.max \in LinkBytes .. EndAt
    BY TreeTypes DEF TreeOK
  <1>3. t \in S
    <2>1. t.max <= t.max /\ b + 1 <= b + 1
      BY <1>1, <1>2 DEF Buckets
    <2> QED BY <1>2, <2>1
  <1>4. ASSUME NEW u \in S PROVE LoweredOnce(u, b) \in S
    <2>1. PICK v : v = LoweredOnce(u, b)
      OBVIOUS
    <2>2. TreeOK(u, X) /\ t.max <= u.max
      OBVIOUS
    <2>3. /\ TreeOK(v, X) /\ u.max <= v.max
          /\ v = u \/ (b < u.limit /\ v.limit = u.limit - 1 /\ (<<u.limit, 0>> \in FreeAt(u) \/ v.lists[u.limit] # <<>>))
      <3>1. /\ TreeOK(LoweredOnce(u, b), X) /\ u.max <= LoweredOnce(u, b).max
            /\ \/ LoweredOnce(u, b) = u
               \/ /\ b < u.limit /\ LoweredOnce(u, b).limit = u.limit - 1
                  /\ <<u.limit, 0>> \in FreeAt(u) \/ LoweredOnce(u, b).lists[u.limit] # <<>>
        BY ONLY BuddyAssumption, b \in Buckets, <2>2, LoweredOnceOK
      <3> QED BY <2>1, <3>1
    <2>4. v \in Trees /\ u.max \in LinkBytes .. EndAt /\ v.max \in LinkBytes .. EndAt /\ u.limit \in Buckets /\ u \in Trees
      BY <2>2, <2>3, TreeTypes DEF TreeOK
    <2>5. t.max <= v.max
      BY <1>1, <1>2, <2>2, <2>3, <2>4
    <2>6. ASSUME t.limit = b + 1 /\ t.lists[b + 1] = <<>>
          PROVE  (v.limit = b + 1 /\ v.lists[b + 1] = <<>>) \/ (v.limit <= b /\ v.lists[b + 1] # <<>>)
      <3>1. (u.limit = b + 1 /\ u.lists[b + 1] = <<>>) \/ (u.limit <= b /\ u.lists[b + 1] # <<>>)
        BY <2>6
      <3>2. CASE v = u
        BY <3>1, <3>2
      <3>3. CASE v # u
        <4>1. b < u.limit /\ v.limit = u.limit - 1 /\ (<<u.limit, 0>> \in FreeAt(u) \/ v.lists[u.limit] # <<>>)
          BY <2>3, <3>3
        <4>2. u.limit = b + 1 /\ u.lists[b + 1] = <<>>
          BY <2>4, <3>1, <4>1 DEF Buckets
        <4>3. <<u.limit, 0>> \notin FreeAt(u)
          <5>1. u.lists[u.limit] = <<>>
            BY <4>2
          <5>2. ~ \E k \in 1 .. Len(u.lists[u.limit]) : u.lists[u.limit][k] = 0
            BY <5>1
          <5>3. 0 \in Nat
            OBVIOUS
          <5> QED BY <2>4, <5>2, <5>3, FreeIn
        <4>4. v.limit <= b
          BY <4>1, <4>2 DEF Buckets
        <4> QED BY <4>1, <4>2, <4>3, <4>4
      <3> QED BY <3>2, <3>3
    <2> QED BY <2>1, <2>3, <2>4, <2>5, <2>6
  <1> HIDE DEF S
  <1>5. StepsOn(step, Least, S)
    BY <1>4 DEF StepsOn
  <1> HIDE DEF step
  <1>6. PICK f : Follows(f, Least, S, t, step)
    BY <1>1, <1>3, <1>5, Recursion
  <1>7. f = [n \in 0 .. Least |-> IF n = 0 THEN t ELSE LoweredOnce(f[n - 1], b)]
    <2>1. f \in [0 .. Least -> S] /\ f[0] = t /\ \A n \in 1 .. Least : f[n] = step[n][f[n - 1]]
      BY <1>6 DEF Follows
    <2>2. ASSUME NEW n \in 0 .. Least PROVE f[n] = IF n = 0 THEN t ELSE LoweredOnce(f[n - 1], b)
      <3>1. CASE n = 0
        BY <2>1, <3>1
      <3>2. CASE n # 0
        <4>1. n \in 1 .. Least /\ n - 1 \in 0 .. Least
          BY <1>1, <3>2
        <4> QED BY <2>1, <3>2, <4>1 DEF step
      <3> QED BY <3>1, <3>2
    <2> QED BY <2>1, <2>2
  <1>8. PICK w : w = Low
    OBVIOUS
  <1>9. w = [n \in 0 .. Least |-> IF n = 0 THEN t ELSE LoweredOnce(w[n - 1], b)]
    BY <1>7, <1>8
  <1>10. \A n \in 0 .. Least : w[n] = IF n = 0 THEN t ELSE LoweredOnce(w[n - 1], b)
    BY <1>9
  <1>11. 0 .. Least \subseteq {n \in 0 .. Least : w[n] \in S}
    <2> DEFINE P == {n \in 0 .. Least : w[n] \in S}
    <2>1. 0 \in P
      BY <1>1, <1>3, <1>10
    <2>2. ASSUME NEW n \in 1 .. Least, n - 1 \in P PROVE n \in P
      <3>1. n \in 0 .. Least /\ n # 0 /\ w[n - 1] \in S
        BY <1>1, <2>2
      <3> QED BY <1>4, <1>10, <3>1
    <2> HIDE DEF P
    <2>3. 0 .. Least \subseteq P
      BY <1>1, <2>1, <2>2, UpTo
    <2> QED BY <2>3 DEF P
  <1>12. Lowered(t, b) = w[Least]
    BY <1>8 DEF Lowered
  <1>13. Lowered(t, b) \in S
    BY <1>1, <1>11, <1>12
  <1> QED BY <1>13 DEF S

\* A smaller bucket's blocks are no larger; at most half as large, where the buckets differ.
LEMMA SizesFall ==
  ASSUME BuddyAssumption, NEW m \in Buckets, NEW n \in Buckets, m <= n
  PROVE  SizeOf(n) <= SizeOf(m) /\ (m < n => 2 * SizeOf(n) <= SizeOf(m))
  <1>1. Least \in Nat /\ Least <= MaxLog2 /\ MaxLog2 \in Nat
    BY Sizes DEF Least, BuddyAssumption
  <1>2. MaxLog2 - n \in 0 .. MaxLog2 /\ MaxLog2 - m \in 0 .. MaxLog2 /\ MaxLog2 - n <= MaxLog2 - m
    BY <1>1 DEF Buckets
  <1>3. SizeOf(n) <= SizeOf(m)
    BY <1>2, PowersGrow DEF SizeOf
  <1>4. ASSUME m < n PROVE 2 * SizeOf(n) <= SizeOf(m)
    <2>1. n - 1 \in Buckets /\ n # 0 /\ m <= n - 1
      BY <1>1, <1>4 DEF Buckets
    <2>2. MaxLog2 - (n - 1) \in 0 .. MaxLog2 /\ MaxLog2 - m \in 0 .. MaxLog2 /\ MaxLog2 - (n - 1) <= MaxLog2 - m
      BY <1>1, <2>1 DEF Buckets
    <2>3. SizeOf(n - 1) <= SizeOf(m)
      BY <2>2, PowersGrow DEF SizeOf
    <2>4. SizeOf(n - 1) = 2 * SizeOf(n)
      BY <2>1, Sizes
    <2> QED BY <2>3, <2>4
  <1> QED BY <1>3, <1>4

\* Taken further, the tree is as it was.
LEMMA TakenOK ==
  ASSUME BuddyAssumption, NEW t \in Trees, NEW to \in Int, Reaches(to)
  PROVE  /\ Taken(t, to) \in Trees /\ Taken(t, to).lists = t.lists /\ Taken(t, to).limit = t.limit
         /\ Taken(t, to).split = t.split /\ t.max <= Taken(t, to).max /\ to <= Taken(t, to).max
  <1>1. t.max \in LinkBytes .. EndAt /\ EndAt \in Nat /\ LinkBytes \in Nat /\ to <= EndAt
    BY TreeTypes, Sizes DEF Reaches, BuddyAssumption
  <1>2. PICK max : max = IF to > t.max THEN to ELSE t.max
    OBVIOUS
  <1>3. max \in LinkBytes .. EndAt /\ t.max <= max /\ to <= max
    BY <1>1, <1>2
  <1>4. Taken(t, to) = [t EXCEPT !.max = max]
    BY <1>2 DEF Taken
  <1> QED BY <1>3, <1>4 DEF Trees

\* A node's bit turned: the rest of the tree as it was.
LEMMA FlipOK ==
  ASSUME NEW t \in Trees, NEW i, SymDiff(t.split, {Parent(i)}) \subseteq Nat
  PROVE  /\ Flip(t, i) \in Trees /\ Flip(t, i).lists = t.lists /\ Flip(t, i).limit = t.limit
         /\ Flip(t, i).split = SymDiff(t.split, {Parent(i)}) /\ Flip(t, i).max = t.max
  <1>1. PICK split : split = SymDiff(t.split, {Parent(i)})
    OBVIOUS
  <1>2. Flip(t, i) = [t EXCEPT !.split = split] /\ split \subseteq Nat
    BY <1>1 DEF Flip
  <1> QED BY <1>1, <1>2 DEF Trees

\* Lists alike, blocks alike.
LEMMA SameLists ==
  ASSUME NEW t, NEW u, u.lists = t.lists
  PROVE  FreeAt(u) = FreeAt(t) /\ (Once(t) => Once(u))
  BY DEF FreeAt, Once

\* A block popped and used whole.
Pops(t, X, b, p, rest) ==
  /\ Spot(b, p) /\ p \in Nat /\ <<b, p>> \notin X /\ p + LinkBytes <= t.max
  /\ TreeOK(ListPush(rest, b, p), X) /\ ListPush(rest, b, p).max = t.max
  /\ \A to \in Int : \A used :
       /\ Reaches(to)
       /\ used = IF NodeForPtr(p, b) # 0 THEN Flip(Taken(rest, to), NodeForPtr(p, b)) ELSE Taken(rest, to)
       => TreeOK(used, X \cup {<<b, p>>}) /\ t.max <= used.max /\ to <= used.max

LEMMA PopOK ==
  ASSUME BuddyAssumption, NEW t, NEW X, TreeOK(t, X), NEW b \in Buckets, t.lists[b] # <<>>
  PROVE  Pops(t, X, b, t.lists[b][Len(t.lists[b])], [t EXCEPT !.lists[b] = Front(@)])
  <1>0. PICK p : p = t.lists[b][Len(t.lists[b])]
    OBVIOUS
  <1>0a. PICK rest : rest = [t EXCEPT !.lists[b] = Front(@)]
    OBVIOUS
  <1>1. /\ t \in Trees /\ Once(t) /\ FreeAt(t) \cap X = {} /\ Tiling(FreeAt(t) \cup X, t.limit)
        /\ BitsOK(Idle(FreeAt(t), t.limit), t.split) /\ NoPairs(FreeAt(t)) /\ Linked(FreeAt(t), t.max)
    BY DEF TreeOK
  <1>2. Kept(rest, t) /\ p \in Nat /\ <<b, p>> \in FreeAt(t) /\ FreeAt(rest) = FreeAt(t) \ {<<b, p>>}
    BY <1>0, <1>0a, <1>1, PoppedList
  <1>3. rest \in Trees /\ Once(rest) /\ rest.limit = t.limit /\ rest.split = t.split /\ rest.max = t.max
    BY <1>2 DEF Kept
  <1>4. Spot(b, p) /\ <<b, p>> \notin X /\ p + LinkBytes <= t.max /\ <<b, p>> # <<t.limit, SizeOf(t.limit)>>
    <2>1. <<b, p>>[1] = b /\ <<b, p>>[2] = p
      OBVIOUS
    <2>2. /\ Spot(<<b, p>>[1], <<b, p>>[2]) /\ <<b, p>> \notin X /\ <<b, p>>[2] + LinkBytes <= t.max
          /\ <<b, p>> # <<t.limit, SizeOf(t.limit)>>
      BY <1>2, FreeTypes
    <2> QED BY <2>1, <2>2
  <1>5. TreeOK(ListPush(rest, b, p), X) /\ ListPush(rest, b, p).max = t.max
    <2>1. PICK u : u = ListPush(rest, b, p)
      OBVIOUS
    <2>2. Kept(u, rest) /\ FreeAt(u) = FreeAt(t)
      <3>1. Kept(u, rest) /\ FreeAt(u) = FreeAt(rest) \cup {<<b, p>>}
        BY <1>2, <1>3, <2>1, Pushed
      <3> QED BY <1>2, <3>1
    <2>3. u \in Trees /\ Once(u) /\ u.limit = t.limit /\ u.split = t.split /\ u.max = t.max
      BY <1>3, <2>2 DEF Kept
    <2>4. TreeOK(u, X)
      BY <1>1, <2>2, <2>3 DEF TreeOK
    <2> QED BY <2>1, <2>3, <2>4
  <1>6. ASSUME NEW to \in Int, NEW used, Reaches(to),
               used = IF NodeForPtr(p, b) # 0 THEN Flip(Taken(rest, to), NodeForPtr(p, b)) ELSE Taken(rest, to)
        PROVE  TreeOK(used, X \cup {<<b, p>>}) /\ t.max <= used.max /\ to <= used.max
    <2>1. PICK v : v = Taken(rest, to)
      OBVIOUS
    <2>2. /\ v \in Trees /\ v.lists = rest.lists /\ v.limit = t.limit /\ v.split = t.split
          /\ t.max <= v.max /\ to <= v.max
      BY <1>3, <1>6, <2>1, TakenOK
    <2>3. PICK F : F = FreeAt(t) \ {<<b, p>>}
      OBVIOUS
    <2>4. Once(v) /\ FreeAt(v) = F
      BY <1>2, <1>3, <2>2, <2>3, SameLists
    <2>5. F \cap (X \cup {<<b, p>>}) = {} /\ F \cup (X \cup {<<b, p>>}) = FreeAt(t) \cup X
      BY <1>1, <1>2, <2>3
    <2>6. NoPairs(F)
      BY <1>1, <2>3 DEF NoPairs
    <2>7. Linked(F, v.max)
      <3>1. ASSUME NEW s \in F PROVE s[2] + LinkBytes <= v.max
        <4>1. s \in FreeAt(t)
          BY <2>3
        <4>2. s[2] + LinkBytes <= t.max /\ s[2] \in Nat
          BY <4>1, FreeTypes
        <4>3. t.max \in LinkBytes .. EndAt /\ v.max \in LinkBytes .. EndAt /\ LinkBytes \in Nat
          BY <1>1, <2>2, TreeTypes, Sizes
        <4> QED BY <2>2, <4>2, <4>3
      <3> QED BY <3>1 DEF Linked
    <2>8. /\ \A s : s # <<b, p>> => (s \in Idle(F, t.limit) <=> s \in Idle(FreeAt(t), t.limit))
          /\ <<b, p>> \notin Idle(F, t.limit) /\ <<b, p>> \in Idle(FreeAt(t), t.limit)
      BY <1>2, <1>4, <2>3 DEF Idle
    <2>9. CASE b = 0
      <3>1. p = 0
        <4>1. PICK k \in 0 .. TwoTo[0] - 1 : p = k * SizeOf(0)
          BY <1>4, <2>9 DEF Spot
        <4>2. TwoTo[0] = 1 /\ SizeOf(0) \in Nat
          BY <2>9, Sizes
        <4> QED BY <4>1, <4>2
      <3>2. NodeForPtr(p, b) = 0
        BY <2>9, <3>1, RootSpots
      <3>3. used = v
        BY <1>6, <2>1, <3>2
      <3>4. BitsOK(Idle(F, t.limit), t.split)
        <4>1. \A s : s[1] # 0 => s # <<b, p>>
          BY <2>9
        <4> QED BY <1>1, <2>8, <4>1, BitsOfRoot
      <3>5. TreeOK(v, X \cup {<<b, p>>})
        BY <1>1, <2>2, <2>4, <2>5, <2>6, <2>7, <3>4 DEF TreeOK
      <3> QED BY <2>2, <3>3, <3>5
    <2>10. CASE b # 0
      <3>1. NodeForPtr(p, b) # 0
        <4>1. NodeForPtr(p, b) \in TwoTo[b] - 1 .. 2 * TwoTo[b] - 2
          BY <1>4, SpotTypes
        <4>2. NodeForPtr(0, b) = TwoTo[b] - 1 /\ NodeForPtr(0, b) # 0 /\ TwoTo[b] \in Nat \ {0}
          BY <2>10, RootSpots, Sizes
        <4> QED BY <4>1, <4>2
      <3>2. PICK split : split = SymDiff(t.split, {Parent(NodeForPtr(p, b))})
        OBVIOUS
      <3>3. BitsOK(Idle(F, t.limit), split)
        BY <1>1, <1>4, <2>8, <2>10, <3>2, BitTurned
      <3>4. used = Flip(v, NodeForPtr(p, b))
        BY <1>6, <2>1, <3>1
      <3>5. used \in Trees /\ used.lists = v.lists /\ used.limit = t.limit /\ used.split = split /\ used.max = v.max
        <4>1. split \subseteq Nat
          BY <3>3 DEF BitsOK
        <4> QED BY <2>2, <3>2, <3>4, <4>1, FlipOK
      <3>6. Once(used) /\ FreeAt(used) = F
        BY <2>4, <3>5, SameLists
      <3>7. TreeOK(used, X \cup {<<b, p>>})
        BY <1>1, <2>5, <2>6, <2>7, <3>3, <3>5, <3>6 DEF TreeOK
      <3> QED BY <2>2, <3>5, <3>7
    <2> QED BY <2>9, <2>10
  <1>7. Pops(t, X, b, p, rest)
    BY <1>2, <1>4, <1>5, <1>6 DEF Pops
  <1> QED BY <1>0, <1>0a, <1>7

\* A block in use split once: its left half is in use, and its right one free.
SplitInto(s, t, X, c, p) ==
  /\ TreeOK(s.tree, X \cup {<<c, p>>}) /\ <<c, p>> \notin X
  /\ s.i = NodeForPtr(p, c) /\ s.tree.max = t.max
  /\ s = [tree |-> s.tree, i |-> s.i]

LEMMA SplitOnceOK ==
  ASSUME BuddyAssumption, NEW t, NEW X, NEW c, NEW p, TreeOK(t, X \cup {<<c, p>>}), <<c, p>> \notin X,
         Spot(c, p), c < Least, p + SizeOf(c + 1) + LinkBytes <= t.max
  PROVE  SplitInto(SplitOnce([tree |-> t, i |-> NodeForPtr(p, c)], c + 1), t, X, c + 1, p)
  <1> DEFINE F == FreeAt(t)
             l == <<c + 1, p>>
             r == <<c + 1, p + SizeOf(c + 1)>>
             Y == X \cup {<<c, p>>}
             G == F \cup {r}
             Z == X \cup {l}
             a == p + SizeOf(c + 1)
  <1>1. /\ t \in Trees /\ Once(t) /\ F \cap Y = {} /\ Tiling(F \cup Y, t.limit)
        /\ BitsOK(Idle(F, t.limit), t.split) /\ NoPairs(F) /\ Linked(F, t.max)
    BY DEF TreeOK
  <1>2. /\ Spot(c + 1, p) /\ NodeForPtr(p, c + 1) = 2 * NodeForPtr(p, c) + 1
        /\ Spot(c + 1, a) /\ NodeForPtr(a, c + 1) = 2 * NodeForPtr(p, c) + 2
        /\ SizeOf(c + 1) \in Nat \ {0} /\ c + 1 \in Buckets /\ p \in Nat /\ a \in Nat
    BY Kids, SpotTypes
  <1>3. /\ Parent(NodeForPtr(p, c + 1)) = NodeForPtr(p, c) /\ Parent(NodeForPtr(a, c + 1)) = NodeForPtr(p, c)
        /\ NodeForPtr(p, c) \in Nat
    BY ParentNode
  <1>4. /\ Tiling(((F \cup Y) \ {<<c, p>>}) \cup {l, r}, t.limit) /\ l \notin F \cup Y /\ r \notin F \cup Y
    BY <1>1, TileSplit
  <1>5. G \cap Z = {} /\ Tiling(G \cup Z, t.limit) /\ l \notin F /\ r \notin F /\ l \notin X
    <2>1. l # r
      BY <1>2
    <2>2. G \cup Z = ((F \cup Y) \ {<<c, p>>}) \cup {l, r}
      BY <1>1
    <2>3. G \cap Z = {}
      BY <1>1, <1>4, <2>1
    <2> QED BY <1>4, <2>2, <2>3
  <1>6. c + 1 # 0 /\ c + 1 > t.limit
    <2>1. t.limit <= c /\ t.limit \in Buckets /\ c \in Buckets
      <3>1. <<c, p>>[1] = c /\ <<c, p>> \in F \cup Y
        OBVIOUS
      <3>2. t.limit <= <<c, p>>[1] /\ t.limit \in Buckets
        BY <1>1, <3>1 DEF Tiling
      <3> QED BY <3>1, <3>2 DEF Spot
    <2> QED BY <2>1 DEF Buckets
  <1> HIDE DEF F, G, Y, Z, l, r, a
  <1>7. PICK v : v = Flip(t, NodeForPtr(p, c + 1))
    OBVIOUS
  <1>8. PICK split : split = SymDiff(t.split, {Parent(NodeForPtr(a, c + 1))})
    OBVIOUS
  <1>9. BitsOK(Idle(G, t.limit), split)
    <2>1. r \notin Idle(F, t.limit)
      <3>1. r # <<t.limit, SizeOf(t.limit)>>
        <4>1. t.limit \in Buckets
          BY <1>1, TreeTypes
        <4>2. c + 1 # t.limit
          BY <1>2, <1>6, <4>1 DEF Buckets
        <4> QED BY <4>2 DEF r
      <3> QED BY <1>5, <3>1 DEF Idle
    <2>2. r \in Idle(G, t.limit) /\ \A x : x # r => (x \in Idle(G, t.limit) <=> x \in Idle(F, t.limit))
      BY DEF Idle, G
    <2>3. r = <<c + 1, a>>
      BY DEF r, a
    <2> QED BY <1>1, <1>2, <1>6, <1>8, <2>1, <2>2, <2>3, BitTurned
  <1>10. v \in Trees /\ v.lists = t.lists /\ v.limit = t.limit /\ v.split = split /\ v.max = t.max
    <2>1. split \subseteq Nat /\ split = SymDiff(t.split, {Parent(NodeForPtr(p, c + 1))})
      BY <1>3, <1>8, <1>9 DEF BitsOK
    <2> QED BY <1>1, <1>7, <2>1, FlipOK
  <1>11. Once(v) /\ FreeAt(v) = F
    BY <1>1, <1>10, SameLists DEF F
  <1>12. PICK w : w = ListPush(v, c + 1, a)
    OBVIOUS
  <1>13. Kept(w, v) /\ FreeAt(w) = G
    <2>1. <<c + 1, a>> \notin FreeAt(v) /\ G = FreeAt(v) \cup {<<c + 1, a>>}
      BY <1>5, <1>11 DEF r, a, G
    <2> QED BY <1>2, <1>10, <1>11, <1>12, <2>1, Pushed
  <1>14. w \in Trees /\ Once(w) /\ w.limit = t.limit /\ w.split = split /\ w.max = t.max
    BY <1>10, <1>13 DEF Kept
  <1>15. NoPairs(G)
    <2>1. ASSUME NEW d, NEW q, Spot(d, q), d < Least, <<d + 1, q>> \in G, <<d + 1, q + SizeOf(d + 1)>> \in G
          PROVE  FALSE
      <3>1. ~ (<<d + 1, q>> \in F /\ <<d + 1, q + SizeOf(d + 1)>> \in F)
        BY <1>1, <2>1 DEF NoPairs
      <3>2. CASE <<d + 1, q>> = r
        <4>1. d + 1 = c + 1 /\ q = a
          BY <3>2 DEF r, a
        <4>2. d = c
          BY <2>1, <4>1 DEF Spot, Buckets
        <4>3. NodeForPtr(q, d + 1) = 2 * NodeForPtr(q, d) + 1 /\ NodeForPtr(q, d) \in Nat
          BY <2>1, Kids, ParentNode
        <4> QED BY <1>2, <1>3, <4>1, <4>2, <4>3
      <3>3. CASE <<d + 1, q + SizeOf(d + 1)>> = r
        <4>1. d + 1 = c + 1 /\ q + SizeOf(d + 1) = p + SizeOf(c + 1)
          BY <3>3 DEF r
        <4>2. q = p
          BY <1>2, <2>1, <4>1, SpotTypes
        <4>3. l \in G /\ l # r
          BY <1>2, <2>1, <4>1, <4>2 DEF l, r
        <4> QED BY <1>5, <4>3 DEF G
      <3> QED BY <2>1, <3>1, <3>2, <3>3 DEF G
    <2> QED BY <2>1 DEF NoPairs
  <1>16. Linked(G, t.max)
    <2>1. r[2] = a /\ a + LinkBytes <= t.max
      BY DEF r, a
    <2> QED BY <1>1, <2>1 DEF Linked, G
  <1>17. TreeOK(w, Z)
    BY <1>5, <1>9, <1>13, <1>14, <1>15, <1>16 DEF TreeOK
  <1>18. SplitOnce([tree |-> t, i |-> NodeForPtr(p, c)], c + 1) = [tree |-> w, i |-> NodeForPtr(p, c + 1)]
    <2>1. PtrForNode(NodeForPtr(p, c + 1) + 1, c + 1) = a
      <3>1. NodeForPtr(p, c + 1) + 1 = NodeForPtr(a, c + 1)
        BY <1>2, <1>3
      <3> QED BY <1>2, <3>1, SpotTypes
    <2>2. 2 * NodeForPtr(p, c) + 1 = NodeForPtr(p, c + 1)
      BY <1>2
    <2> QED BY <1>7, <1>12, <2>1, <2>2 DEF SplitOnce
  <1>19. PICK s : s = [tree |-> w, i |-> NodeForPtr(p, c + 1)]
    OBVIOUS
  <1>20. SplitInto(s, t, X, c + 1, p)
    BY <1>5, <1>14, <1>17, <1>19 DEF Z, l, SplitInto
  <1> QED BY <1>18, <1>19, <1>20

\* Steps from set to set: a walk by them is in each set in its turn.
Climbs(f, n, S, A, b, step) ==
  f \in [0 .. n -> S] /\ f[0] = b /\ \A i \in 1 .. n : f[i - 1] \in A[i - 1] /\ f[i] = step[i][f[i - 1]]

LEMMA Climb ==
  ASSUME NEW n \in Nat, NEW S, NEW A, NEW b, b \in A[0], NEW step,
         \A i \in 0 .. n : A[i] \subseteq S, \A i \in 1 .. n : step[i] \in [A[i - 1] -> A[i]]
  PROVE  \E f : Climbs(f, n, S, A, b, step)
  <1> DEFINE go == [i \in 1 .. n |-> [x \in S |-> IF x \in A[i - 1] THEN step[i][x] ELSE b]]
  <1>1. b \in S
    OBVIOUS
  <1>2. StepsOn(go, n, S)
    <2>1. ASSUME NEW i \in 1 .. n, NEW x \in S PROVE (IF x \in A[i - 1] THEN step[i][x] ELSE b) \in S
      <3>1. i \in 0 .. n
        OBVIOUS
      <3>2. CASE x \in A[i - 1]
        <4>1. step[i][x] \in A[i]
          BY <3>2
        <4> QED BY <3>1, <3>2, <4>1
      <3> QED BY <1>1, <3>2
    <2> QED BY <2>1 DEF StepsOn
  <1> HIDE DEF go
  <1>3. PICK f : Follows(f, n, S, b, go)
    BY <1>1, <1>2, Recursion
  <1>4. f \in [0 .. n -> S] /\ f[0] = b /\ \A i \in 1 .. n : f[i] = go[i][f[i - 1]]
    BY <1>3 DEF Follows
  <1> DEFINE P == {i \in 0 .. n : f[i] \in A[i]}
  <1>5. 0 \in P
    BY <1>4
  <1>6. ASSUME NEW i \in 1 .. n, i - 1 \in P PROVE i \in P /\ f[i - 1] \in A[i - 1] /\ f[i] = step[i][f[i - 1]]
    <2>1. f[i - 1] \in A[i - 1] /\ i - 1 \in 0 .. n /\ i \in 0 .. n
      BY <1>6
    <2>2. f[i - 1] \in S
      BY <2>1
    <2>3. f[i] = step[i][f[i - 1]]
      BY <1>4, <2>1, <2>2 DEF go
    <2> QED BY <2>1, <2>3
  <1> HIDE DEF P
  <1>7. 0 .. n \subseteq P
    BY <1>5, <1>6, UpTo
  <1>8. ASSUME NEW i \in 1 .. n PROVE f[i - 1] \in A[i - 1] /\ f[i] = step[i][f[i - 1]]
    <2>1. i - 1 \in P
      <3>1. i - 1 \in 0 .. n
        OBVIOUS
      <3> QED BY <1>7, <3>1
    <2> QED BY <1>6, <2>1
  <1> QED BY <1>4, <1>8 DEF Climbs

\* A block in use split down to a bucket.
LEMMA SplitToOK ==
  ASSUME BuddyAssumption, NEW t, NEW X, NEW b, NEW p, TreeOK(t, X \cup {<<b, p>>}), <<b, p>> \notin X,
         Spot(b, p), NEW original \in Buckets, b <= original, b < original => p + SizeOf(b + 1) + LinkBytes <= t.max
  PROVE  LET u == SplitTo(t, NodeForPtr(p, b), b, original)
         IN  TreeOK(u, X \cup {<<original, p>>}) /\ <<original, p>> \notin X /\ u.max = t.max
  <1> DEFINE n == original - b
             OK(s, i) == /\ TreeOK(s.tree, X \cup {<<b + i, p>>}) /\ <<b + i, p>> \notin X
                         /\ s.i = NodeForPtr(p, b + i) /\ s.tree.max = t.max
             S == {s \in [tree : Trees, i : Int] : \E i \in 0 .. n : OK(s, i)}
             A == [i \in 0 .. n |-> {s \in S : OK(s, i)}]
             start == [tree |-> t, i |-> NodeForPtr(p, b)]
             step == [i \in 1 .. n |-> [s \in A[i - 1] |-> SplitOnce(s, b + i)]]
             Down[i \in 0 .. n] == IF i = 0 THEN start ELSE SplitOnce(Down[i - 1], b + i)
  <1>1. /\ b \in Buckets /\ n \in Nat /\ \A i \in 0 .. n : b + i \in Buckets /\ (i < n => b + i < Least)
        /\ Least \in Nat /\ p \in Nat /\ LinkBytes \in Nat
    BY Sizes, SpotTypes DEF Spot, Buckets
  <1>2. \A i \in 0 .. n : A[i] \subseteq S
    OBVIOUS
  <1>3. ASSUME NEW i \in 0 .. n PROVE Spot(b + i, p)
    <2> DEFINE P == {j \in 0 .. n : Spot(b + j, p)}
    <2>1. 0 \in P
      <3>1. b + 0 = b /\ 0 \in 0 .. n
        BY <1>1 DEF Buckets
      <3> QED BY <3>1
    <2>2. ASSUME NEW j \in 1 .. n, j - 1 \in P PROVE j \in P
      <3>1. j - 1 \in 0 .. n /\ j - 1 < n /\ (b + (j - 1)) + 1 = b + j /\ j \in 0 .. n
        BY <1>1, <2>2 DEF Buckets
      <3>2. Spot(b + (j - 1), p) /\ b + (j - 1) < Least
        BY <1>1, <2>2, <3>1
      <3>3. Spot((b + (j - 1)) + 1, p)
        BY <3>2, Kids
      <3> QED BY <3>1, <3>3
    <2> HIDE DEF P
    <2>3. 0 .. n \subseteq P
      BY <1>1, <2>1, <2>2, UpTo
    <2> QED BY <2>3 DEF P
  <1>4. ASSUME NEW s, NEW i \in 0 .. n, OK(s, i), s = [tree |-> s.tree, i |-> s.i] PROVE s \in A[i]
    <2>1. s.tree \in Trees
      BY <1>4 DEF TreeOK
    <2>2. NodeForPtr(p, b + i) \in Int
      <3>1. NodeForPtr(p, b + i) \in TwoTo[b + i] - 1 .. 2 * TwoTo[b + i] - 2
        BY <1>3, SpotTypes
      <3>2. TwoTo[b + i] \in Nat
        BY <1>1, Sizes
      <3> QED BY <3>1, <3>2
    <2>3. s \in [tree : Trees, i : Int]
      BY <1>4, <2>1, <2>2
    <2> HIDE DEF OK
    <2> QED BY <1>4, <2>3
  <1>5. b + 0 = b /\ b + n = original /\ 0 \in 0 .. n /\ n \in 0 .. n
    BY <1>1 DEF Buckets
  <1>6. start \in A[0]
    <2>1. start.tree = t /\ start.i = NodeForPtr(p, b) /\ start = [tree |-> start.tree, i |-> start.i]
      OBVIOUS
    <2> HIDE DEF start, A
    <2>2. OK(start, 0)
      BY <1>5, <2>1
    <2> HIDE DEF OK
    <2> QED BY <1>4, <1>5, <2>1, <2>2
  <1>7. ASSUME NEW i \in 1 .. n, NEW s \in A[i - 1] PROVE SplitOnce(s, b + i) \in A[i]
    <2>1. i - 1 \in 0 .. n /\ i - 1 < n /\ (b + (i - 1)) + 1 = b + i /\ i \in 0 .. n
      BY <1>1 DEF Buckets
    <2>2. OK(s, i - 1) /\ s \in [tree : Trees, i : Int]
      BY <2>1
    <2>3. Spot(b + (i - 1), p) /\ b + (i - 1) < Least
      BY <1>1, <1>3, <2>1
    <2>4. p + SizeOf(b + i) + LinkBytes <= t.max
      <3>1. b < original /\ b + 1 \in Buckets /\ b + i \in Buckets /\ b + 1 <= b + i
        BY <1>1, <2>1 DEF Buckets
      <3>2. SizeOf(b + i) <= SizeOf(b + 1)
        BY <3>1, SizesFall
      <3>3. t.max \in Int /\ SizeOf(b + i) \in Nat /\ SizeOf(b + 1) \in Nat
        <4>1. t.max \in LinkBytes .. EndAt
          BY TreeTypes DEF TreeOK
        <4> QED BY <1>1, <3>1, <4>1, Sizes
      <3> QED BY <1>1, <3>1, <3>2, <3>3
    <2>5. s = [tree |-> s.tree, i |-> NodeForPtr(p, b + (i - 1))]
      BY <2>2
    <2>6. PICK c : c = b + (i - 1)
      OBVIOUS
    <2>7. PICK v : v = s.tree
      OBVIOUS
    <2>8. PICK u : u = SplitOnce(s, b + i)
      OBVIOUS
    <2>9. /\ TreeOK(v, X \cup {<<c, p>>}) /\ <<c, p>> \notin X /\ Spot(c, p) /\ c < Least
          /\ p + SizeOf(c + 1) + LinkBytes <= v.max /\ u = SplitOnce([tree |-> v, i |-> NodeForPtr(p, c)], c + 1)
          /\ c + 1 = b + i /\ v.max = t.max
      BY <2>1, <2>2, <2>3, <2>4, <2>5, <2>6, <2>7, <2>8
    <2>10. /\ TreeOK(u.tree, X \cup {<<c + 1, p>>}) /\ <<c + 1, p>> \notin X
           /\ u.i = NodeForPtr(p, c + 1) /\ u.tree.max = v.max /\ u = [tree |-> u.tree, i |-> u.i]
      <3>1. SplitInto(SplitOnce([tree |-> v, i |-> NodeForPtr(p, c)], c + 1), v, X, c + 1, p)
        BY <2>9, SplitOnceOK
      <3> QED BY <2>9, <3>1 DEF SplitInto
    <2>11. OK(u, i)
      BY <2>9, <2>10
    <2> HIDE DEF OK, A
    <2> QED BY <1>4, <2>1, <2>8, <2>10, <2>11
  <1> HIDE DEF S
  <1>8. \A i \in 1 .. n : step[i] \in [A[i - 1] -> A[i]]
    BY <1>7
  <1> HIDE DEF A, start, step, OK
  <1>9. PICK f : f \in [0 .. n -> S] /\ f[0] = start /\ \A i \in 1 .. n : f[i - 1] \in A[i - 1] /\ f[i] = step[i][f[i - 1]]
    <2>1. n \in Nat
      BY <1>1
    <2> HIDE DEF n
    <2>2. \E f : Climbs(f, n, S, A, start, step)
      BY ONLY <1>2, <1>6, <1>8, <2>1, Climb
    <2> QED BY <2>2 DEF Climbs
  <1>10. f = [i \in 0 .. n |-> IF i = 0 THEN start ELSE SplitOnce(f[i - 1], b + i)]
    <2>1. ASSUME NEW i \in 0 .. n PROVE f[i] = IF i = 0 THEN start ELSE SplitOnce(f[i - 1], b + i)
      <3>1. CASE i = 0
        BY <1>9, <3>1
      <3>2. CASE i # 0
        <4>1. i \in 1 .. n
          BY <1>1, <3>2
        <4> QED BY <1>9, <3>2, <4>1 DEF step
      <3> QED BY <3>1, <3>2
    <2> QED BY <1>9, <2>1
  <1>11. PICK w : w = Down
    OBVIOUS
  <1>12. w = [i \in 0 .. n |-> IF i = 0 THEN start ELSE SplitOnce(w[i - 1], b + i)]
    BY <1>10, <1>11
  <1>13. 0 .. n \subseteq {i \in 0 .. n : w[i] \in A[i]}
    <2> DEFINE P == {i \in 0 .. n : w[i] \in A[i]}
    <2>1. 0 \in P
      BY <1>5, <1>6, <1>12
    <2>2. ASSUME NEW i \in 1 .. n, i - 1 \in P PROVE i \in P
      <3>1. i \in 0 .. n /\ i # 0 /\ w[i - 1] \in A[i - 1]
        BY <1>1, <2>2
      <3>2. w[i] = SplitOnce(w[i - 1], b + i)
        BY <1>12, <3>1
      <3> QED BY <1>7, <3>1, <3>2
    <2> HIDE DEF P
    <2>3. 0 .. n \subseteq P
      BY <1>1, <2>1, <2>2, UpTo
    <2> QED BY <2>3 DEF P
  <1>14. SplitTo(t, NodeForPtr(p, b), b, original) = w[n].tree
    BY <1>11 DEF SplitTo, start
  <1>15. w[n] \in A[n]
    BY <1>5, <1>13
  <1>16. OK(w[n], n)
    BY <1>5, <1>15 DEF A
  <1> QED BY <1>5, <1>14, <1>16 DEF OK

\* The least block that a request fits.
LEMMA BucketForOK ==
  ASSUME BuddyAssumption, NEW request \in Nat, request <= SizeOf(0)
  PROVE  BucketFor(request) \in Buckets /\ request <= SizeOf(BucketFor(request))
  <1> DEFINE fits == {b \in Buckets : SizeOf(b) >= request}
             S == {Least - b : b \in fits}
  <1>1. Least \in Nat /\ 0 \in Buckets /\ \A b \in Buckets : b \in Int /\ Least - b \in Nat /\ SizeOf(b) \in Nat
    BY Sizes DEF Buckets
  <1>2. 0 \in fits
    BY <1>1
  <1>3. S \subseteq Nat /\ S # {}
    BY <1>1, <1>2
  <1> HIDE DEF S
  <1>4. PICK x \in S : \A y \in S : x <= y
    BY <1>3, LeastOf
  <1>5. PICK m \in fits : x = Least - m
    BY DEF S
  <1>6. ASSUME NEW b \in fits PROVE m >= b
    <2>1. Least - b \in S
      BY DEF S
    <2>2. Least - m <= Least - b
      BY <1>4, <1>5, <2>1
    <2> QED BY <1>1, <2>2
  <1>7. \E y \in fits : \A b \in fits : y >= b
    BY <1>6
  <1>8. Max(fits) \in fits
    BY <1>7 DEF Max
  <1>9. BucketFor(request) = Max(fits)
    BY DEF BucketFor
  <1> QED BY <1>1, <1>8, <1>9

\* What a search comes to: a tree no less far, and the block, or none.
Found(r, t, X, original) ==
  /\ t.max <= r.tree.max
  /\ r.at = None => TreeOK(r.tree, X)
  /\ r.at # None => /\ TreeOK(r.tree, X \cup {<<original, r.at>>}) /\ <<original, r.at>> \notin X
                    /\ r.at \in Nat /\ r.at + SizeOf(original) <= r.tree.max

LEMMA PoppedOK ==
  ASSUME BuddyAssumption, NEW t, NEW X, TreeOK(t, X), NEW b \in Buckets, NEW original \in Buckets, b <= original,
         t.lists[b] # <<>>
  PROVE  /\ Found(Popped(t, b, original), t, X, original)
         /\ \E u, p : Popped(t, b, original) = Over(u, p) /\ u \in Trees /\ p \in Int
  <1>1. PICK p : p = t.lists[b][Len(t.lists[b])]
    OBVIOUS
  <1>2. PICK rest : rest = [t EXCEPT !.lists[b] = Front(@)]
    OBVIOUS
  <1>3. PICK needed : needed = p + (IF b < original THEN SizeOf(b) \div 2 + LinkBytes ELSE SizeOf(b))
    OBVIOUS
  <1>4. PICK i : i = NodeForPtr(p, b)
    OBVIOUS
  <1>5. PICK used : used = IF i # 0 THEN Flip(Taken(rest, needed), i) ELSE Taken(rest, needed)
    OBVIOUS
  <1>6. Popped(t, b, original) =
          IF Reaches(needed) THEN Over(SplitTo(used, i, b, original), p) ELSE Over(ListPush(rest, b, p), None)
    BY <1>1, <1>2, <1>3, <1>4, <1>5 DEF Popped
  <1>7. /\ Spot(b, p) /\ p \in Nat /\ <<b, p>> \notin X /\ p + LinkBytes <= t.max
        /\ TreeOK(ListPush(rest, b, p), X) /\ ListPush(rest, b, p).max = t.max
        /\ \A to \in Int : \A v :
             /\ Reaches(to)
             /\ v = IF NodeForPtr(p, b) # 0 THEN Flip(Taken(rest, to), NodeForPtr(p, b)) ELSE Taken(rest, to)
             => TreeOK(v, X \cup {<<b, p>>}) /\ t.max <= v.max /\ to <= v.max
    <2>1. Pops(t, X, b, t.lists[b][Len(t.lists[b])], [t EXCEPT !.lists[b] = Front(@)])
      BY PopOK
    <2>2. Pops(t, X, b, p, rest)
      BY <1>1, <1>2, <2>1
    <2> QED BY <2>2 DEF Pops
  <1>8. SizeOf(b) \in Nat /\ SizeOf(original) \in Nat /\ LinkBytes \in Nat /\ t.max \in Int
    <2>1. t.max \in LinkBytes .. EndAt
      BY TreeTypes DEF TreeOK
    <2> QED BY <2>1, Sizes
  <1>9. b < original => SizeOf(b) \div 2 = SizeOf(b + 1) /\ SizeOf(b + 1) \in Nat /\ SizeOf(original) <= SizeOf(b + 1)
    <2>1. SUFFICES ASSUME b < original
                   PROVE  SizeOf(b) \div 2 = SizeOf(b + 1) /\ SizeOf(b + 1) \in Nat /\ SizeOf(original) <= SizeOf(b + 1)
      OBVIOUS
    <2>2. b < Least /\ b + 1 \in Buckets /\ b + 1 <= original
      BY <2>1, Sizes DEF Buckets
    <2>3. SizeOf(b) = 2 * SizeOf(b + 1) /\ SizeOf(b + 1) \in Nat
      BY <1>7, <2>2, Kids
    <2>4. SizeOf(original) <= SizeOf(b + 1)
      BY <2>2, SizesFall
    <2> QED BY <2>3, <2>4
  <1>10. needed \in Int /\ (b < original => needed = p + SizeOf(b + 1) + LinkBytes) /\ p + SizeOf(original) <= needed
    <2>1. CASE b < original
      <3>1. needed = p + (SizeOf(b + 1) + LinkBytes)
        BY <1>3, <1>9, <2>1
      <3> QED BY <1>7, <1>8, <1>9, <2>1, <3>1
    <2>2. CASE ~ (b < original)
      <3>1. needed = p + SizeOf(b) /\ b = original
        BY <1>3, <2>2 DEF Buckets
      <3> QED BY <1>7, <1>8, <2>2, <3>1
    <2> QED BY <2>1, <2>2
  <1>11. CASE Reaches(needed)
    <2>1. TreeOK(used, X \cup {<<b, p>>}) /\ t.max <= used.max /\ needed <= used.max
      BY <1>4, <1>5, <1>7, <1>10, <1>11
    <2>2. b < original => p + SizeOf(b + 1) + LinkBytes <= used.max
      BY <1>10, <2>1
    <2>3. PICK u : u = SplitTo(used, i, b, original)
      OBVIOUS
    <2>4. TreeOK(u, X \cup {<<original, p>>}) /\ <<original, p>> \notin X /\ u.max = used.max
      BY <1>4, <1>7, <2>1, <2>2, <2>3, SplitToOK
    <2>5. Popped(t, b, original) = Over(u, p)
      BY <1>6, <1>11, <2>3
    <2>6. PICK r : r = Over(u, p)
      OBVIOUS
    <2>7. r.tree = u /\ r.at = p /\ p # None
      BY <1>7, <2>6 DEF Over, None
    <2>8. p + SizeOf(original) <= u.max
      <3>1. used.max \in LinkBytes .. EndAt
        BY <2>1, TreeTypes DEF TreeOK
      <3> QED BY <1>7, <1>8, <1>10, <2>1, <2>4, <3>1
    <2>9. Found(r, t, X, original)
      BY <1>7, <2>1, <2>4, <2>7, <2>8 DEF Found
    <2>10. u \in Trees /\ p \in Int
      BY <1>7, <2>4 DEF TreeOK
    <2> QED BY <2>5, <2>6, <2>9, <2>10
  <1>12. CASE ~ Reaches(needed)
    <2>1. PICK u : u = ListPush(rest, b, p)
      OBVIOUS
    <2>2. Popped(t, b, original) = Over(u, None)
      BY <1>6, <1>12, <2>1
    <2>3. PICK r : r = Over(u, None)
      OBVIOUS
    <2>4. r.tree = u /\ r.at = None
      BY <2>3 DEF Over
    <2>5. t.max <= u.max
      BY <1>7, <1>8, <2>1
    <2>6. Found(r, t, X, original)
      BY <1>7, <2>1, <2>4, <2>5 DEF Found
    <2>7. u \in Trees /\ None \in Int
      BY <1>7, <2>1 DEF TreeOK, None
    <2> QED BY <2>2, <2>3, <2>6, <2>7
  <1> QED BY <1>11, <1>12

\* A search under way: what it comes to, should it end so; until it is over, no block.
Searching(s, t, X, original) ==
  /\ Found(s, t, X, original)
  /\ s.tree \in Trees /\ s.b \in Buckets
  /\ s.over = FALSE => s.at = None /\ s.b <= original

Searches == [tree : Trees, at : Int, b : Buckets, over : BOOLEAN]

LEMMA SearchedOnceOK ==
  ASSUME BuddyAssumption, NEW t, t.max \in Int, NEW X, NEW original \in Buckets, NEW s \in Searches, Searching(s, t, X, original)
  PROVE  SearchedOnce(s, original) \in Searches /\ Searching(SearchedOnce(s, original), t, X, original)
  <1> DEFINE t1 == Lowered(s.tree, s.b)
             t2 == Lowered(t1, s.b - 1)
             next == SearchedOnce(s, original)
  <1>1. s.tree \in Trees /\ s.b \in Buckets /\ s.over \in BOOLEAN /\ 0 \in Buckets /\ s.at \in Int
    BY Sizes DEF Searches, Buckets
  <1>2. CASE s.over
    <2>1. next = s
      BY <1>2 DEF SearchedOnce
    <2> QED BY <2>1
  <1>3. CASE ~ s.over
    <2>1. /\ s.over = FALSE /\ TreeOK(s.tree, X) /\ t.max <= s.tree.max /\ s.b <= original
      BY <1>1, <1>3 DEF Searching, Found
    <2>2. /\ TreeOK(t1, X) /\ s.tree.max <= t1.max
      BY <1>1, <2>1, LoweredOK
    <2>3. /\ t1 \in Trees /\ t1.limit \in Buckets /\ t.max <= t1.max /\ t1.max \in Int
      <3>1. t1 \in Trees /\ t1.limit \in Buckets /\ t1.max \in LinkBytes .. EndAt /\ s.tree.max \in LinkBytes .. EndAt
            /\ LinkBytes \in Nat
        BY <2>1, <2>2, TreeTypes, Sizes DEF TreeOK
      <3> QED BY <2>1, <2>2, <3>1
    <2> HIDE DEF t1
    <2>4. ASSUME NEW u, TreeOK(u, X), t.max <= u.max, NEW r, r = Over(u, None)
          PROVE  r \in Searches /\ Searching(r, t, X, original)
      <3>1. u \in Trees /\ None \in Int
        BY <2>4 DEF TreeOK, None
      <3>2. r = [tree |-> u, at |-> None, b |-> 0, over |-> TRUE]
        BY <2>4 DEF Over
      <3>3. r.tree = u /\ r.at = None /\ r.b = 0 /\ r.over = TRUE
        BY <3>2
      <3>4. r \in Searches
        BY <1>1, <3>1, <3>2 DEF Searches
      <3> QED BY <1>1, <2>4, <3>1, <3>3, <3>4 DEF Searching, Found
    <2>5. ASSUME NEW v, TreeOK(v, X), t.max <= v.max, v.lists[s.b] # <<>>, NEW r, r = Popped(v, s.b, original)
          PROVE  r \in Searches /\ Searching(r, t, X, original)
      <3>1. Found(r, v, X, original) /\ \E u, p : r = Over(u, p) /\ u \in Trees /\ p \in Int
        BY <1>1, <2>1, <2>5, PoppedOK
      <3>2. PICK u, p : r = Over(u, p) /\ u \in Trees /\ p \in Int
        BY <3>1
      <3>3. r = [tree |-> u, at |-> p, b |-> 0, over |-> TRUE]
        BY <3>2 DEF Over
      <3>4. r \in Searches /\ r.over = TRUE /\ r.b = 0 /\ r.tree = u
        BY <1>1, <3>2, <3>3 DEF Searches
      <3>5. v.max \in Int /\ u.max \in Int
        <4>1. v.max \in LinkBytes .. EndAt /\ u.max \in LinkBytes .. EndAt /\ LinkBytes \in Nat
          BY <2>5, <3>2, TreeTypes, Sizes DEF TreeOK
        <4> QED BY <4>1
      <3>6. t.max <= r.tree.max
        BY <2>5, <3>1, <3>4, <3>5 DEF Found
      <3>7. Found(r, t, X, original)
        BY <3>1, <3>6 DEF Found
      <3> QED BY <1>1, <3>2, <3>4, <3>7 DEF Searching
    <2>6. CASE t1.limit > s.b
      <3>0. ~ (t1.limit <= s.b)
        BY <1>1, <2>3, <2>6 DEF Buckets
      <3>1. next = Over(t1, None)
        BY <1>3, <2>6, <3>0 DEF SearchedOnce, t1
      <3> QED BY <2>2, <2>3, <2>4, <3>1
    <2>7. CASE t1.limit <= s.b /\ t1.lists[s.b] # <<>>
      <3>1. ~ (t1.limit > s.b)
        BY <1>1, <2>3, <2>7 DEF Buckets
      <3>2. next = Popped(t1, s.b, original)
        BY <1>3, <2>7, <3>1 DEF SearchedOnce, t1
      <3> QED BY <2>2, <2>3, <2>5, <2>7, <3>2
    <2>8. CASE t1.limit <= s.b /\ t1.lists[s.b] = <<>>
      <3>1. ~ (t1.limit > s.b)
        BY <1>1, <2>3, <2>8 DEF Buckets
      <3>2. next = CASE s.b = 0 -> Over(t1, None)
                     [] s.b # 0 /\ s.b # t1.limit -> Onward(t1, s.b - 1)
                     [] s.b # 0 /\ s.b = t1.limit ->
                          IF t2.limit > s.b - 1 THEN Over(t2, None) ELSE Popped(t2, s.b, original)
        BY <1>3, <2>8, <3>1 DEF SearchedOnce, t1
      <3>3. CASE s.b = 0
        <4>1. next = Over(t1, None)
          BY <3>2, <3>3
        <4> QED BY <2>2, <2>3, <2>4, <4>1
      <3>4. CASE s.b # 0
        <4>1. s.b - 1 \in Buckets /\ s.b - 1 <= original /\ (s.b - 1) + 1 = s.b
          BY <1>1, <2>1, <3>4, Sizes DEF Buckets
        <4>2. CASE s.b # t1.limit
          <5>1. next = Onward(t1, s.b - 1)
            BY <3>2, <3>4, <4>2
          <5>2. PICK r : r = Onward(t1, s.b - 1)
            OBVIOUS
          <5>3. r = [tree |-> t1, at |-> None, b |-> s.b - 1, over |-> FALSE] /\ None \in Int
            BY <5>2 DEF Onward, None
          <5>4. r \in Searches /\ r.tree = t1 /\ r.at = None /\ r.b = s.b - 1 /\ r.over = FALSE
            BY <2>3, <4>1, <5>3 DEF Searches
          <5>5. Searching(r, t, X, original)
            BY <2>2, <2>3, <4>1, <5>4 DEF Searching, Found
          <5> QED BY <5>1, <5>2, <5>4, <5>5
        <4>3. CASE s.b = t1.limit
          <5>1. next = IF t2.limit > s.b - 1 THEN Over(t2, None) ELSE Popped(t2, s.b, original)
            BY <3>2, <3>4, <4>3
          <5>2. /\ TreeOK(t2, X) /\ t1.max <= t2.max
                /\ t1.limit = (s.b - 1) + 1 /\ t1.lists[(s.b - 1) + 1] = <<>> =>
                     \/ t2.limit = (s.b - 1) + 1 /\ t2.lists[(s.b - 1) + 1] = <<>>
                     \/ t2.limit <= s.b - 1 /\ t2.lists[(s.b - 1) + 1] # <<>>
            BY <2>2, <4>1, LoweredOK
          <5>3. (t2.limit = s.b /\ t2.lists[s.b] = <<>>) \/ (t2.limit <= s.b - 1 /\ t2.lists[s.b] # <<>>)
            BY <2>8, <4>1, <4>3, <5>2
          <5>4. t2.limit \in Buckets /\ t.max <= t2.max
            <6>1. t2.limit \in Buckets /\ t2.max \in LinkBytes .. EndAt /\ LinkBytes \in Nat
              BY <5>2, TreeTypes, Sizes DEF TreeOK
            <6> QED BY <2>3, <5>2, <6>1
          <5> HIDE DEF t2
          <5>5. CASE t2.limit > s.b - 1
            <6>1. next = Over(t2, None)
              BY <5>1, <5>5
            <6> QED BY <2>4, <5>2, <5>4, <6>1
          <5>6. CASE ~ (t2.limit > s.b - 1)
            <6>1. next = Popped(t2, s.b, original)
              BY <5>1, <5>6
            <6>2. t2.lists[s.b] # <<>>
              BY <1>1, <5>3, <5>4, <5>6 DEF Buckets
            <6> QED BY <2>5, <5>2, <5>4, <6>1, <6>2
          <5> QED BY <5>5, <5>6
        <4> QED BY <4>2, <4>3
      <3> QED BY <3>3, <3>4
    <2>9. t1.limit > s.b \/ t1.limit <= s.b
      BY <1>1, <2>3 DEF Buckets
    <2> QED BY <2>6, <2>7, <2>8, <2>9
  <1> QED BY <1>2, <1>3

LEMMA AllocatedOK ==
  ASSUME BuddyAssumption, NEW t, NEW X, TreeOK(t, X), NEW request \in Nat
  PROVE  /\ Found(Allocated(t, request), t, X, BucketFor(request))
         /\ Allocated(t, request).at # None => request <= SizeOf(0)
  <1> DEFINE original == BucketFor(request)
             S == {s \in Searches : Searching(s, t, X, original)}
             start == Onward(t, original)
             step == [n \in 1 .. Least + 1 |-> [s \in S |-> SearchedOnce(s, original)]]
             Search[n \in 0 .. Least + 1] == IF n = 0 THEN start ELSE SearchedOnce(Search[n - 1], original)
  <1>1. SizeOf(0) \in Nat /\ t \in Trees /\ t.max \in Int /\ 0 \in Buckets /\ Least + 1 \in Nat
    <2>1. t \in Trees /\ t.max \in LinkBytes .. EndAt /\ LinkBytes \in Nat /\ Least \in Nat
      BY TreeTypes, Sizes DEF TreeOK
    <2>2. 0 \in Buckets
      BY <2>1 DEF Buckets
    <2> QED BY <2>1, <2>2, Sizes
  <1>2. CASE request > SizeOf(0)
    <2>1. Allocated(t, request) = Over(t, None)
      BY <1>2 DEF Allocated
    <2>2. PICK r : r = Over(t, None)
      OBVIOUS
    <2>3. r.tree = t /\ r.at = None /\ t.max <= t.max
      BY <1>1, <2>2 DEF Over
    <2>4. Found(r, t, X, original)
      BY <2>3 DEF Found
    <2> QED BY <2>1, <2>2, <2>3, <2>4
  <1>3. CASE ~ (request > SizeOf(0))
    <2>1. request <= SizeOf(0) /\ original \in Buckets
      BY <1>1, <1>3, BucketForOK
    <2> HIDE DEF original
    <2>2. start \in S
      <3>1. start = [tree |-> t, at |-> None, b |-> original, over |-> FALSE] /\ None \in Int
        BY DEF Onward, None
      <3>2. start \in Searches /\ start.tree = t /\ start.at = None /\ start.b = original /\ start.over = FALSE
        BY <1>1, <2>1, <3>1 DEF Searches
      <3>3. t.max <= t.max /\ original <= original
        BY <1>1, <2>1 DEF Buckets
      <3>4. Searching(start, t, X, original)
        BY <1>1, <2>1, <3>2, <3>3 DEF Searching, Found
      <3> QED BY <3>2, <3>4
    <2>3. ASSUME NEW s \in S PROVE SearchedOnce(s, original) \in S
      BY <1>1, <2>1, SearchedOnceOK
    <2> HIDE DEF S
    <2>4. StepsOn(step, Least + 1, S)
      BY <2>3 DEF StepsOn
    <2> HIDE DEF step
    <2>5. PICK f : Follows(f, Least + 1, S, start, step)
      BY <1>1, <2>2, <2>4, Recursion
    <2>6. f = [n \in 0 .. Least + 1 |-> IF n = 0 THEN start ELSE SearchedOnce(f[n - 1], original)]
      <3>1. f \in [0 .. Least + 1 -> S] /\ f[0] = start /\ \A n \in 1 .. Least + 1 : f[n] = step[n][f[n - 1]]
        BY <2>5 DEF Follows
      <3>2. ASSUME NEW n \in 0 .. Least + 1 PROVE f[n] = IF n = 0 THEN start ELSE SearchedOnce(f[n - 1], original)
        <4>1. CASE n = 0
          BY <3>1, <4>1
        <4>2. CASE n # 0
          <5>1. n \in 1 .. Least + 1 /\ n - 1 \in 0 .. Least + 1
            BY <1>1, <4>2
          <5> QED BY <3>1, <4>2, <5>1 DEF step
        <4> QED BY <4>1, <4>2
      <3> QED BY <3>1, <3>2
    <2>7. PICK w : w = Search
      OBVIOUS
    <2>8. w = [n \in 0 .. Least + 1 |-> IF n = 0 THEN start ELSE SearchedOnce(w[n - 1], original)]
      BY <2>6, <2>7
    <2>9. 0 .. Least + 1 \subseteq {n \in 0 .. Least + 1 : w[n] \in S}
      <3> DEFINE P == {n \in 0 .. Least + 1 : w[n] \in S}
      <3>1. 0 \in P
        BY <1>1, <2>2, <2>8
      <3>2. ASSUME NEW n \in 1 .. Least + 1, n - 1 \in P PROVE n \in P
        <4>1. n \in 0 .. Least + 1 /\ n # 0 /\ w[n - 1] \in S
          BY <1>1, <3>2
        <4>2. w[n] = SearchedOnce(w[n - 1], original)
          BY <2>8, <4>1
        <4> QED BY <2>3, <4>1, <4>2
      <3> HIDE DEF P
      <3>3. 0 .. Least + 1 \subseteq P
        BY <1>1, <3>1, <3>2, UpTo
      <3> QED BY <3>3 DEF P
    <2>10. Allocated(t, request) = w[Least + 1]
      BY <1>3, <2>7 DEF Allocated, original
    <2>11. Allocated(t, request) \in S
      BY <1>1, <2>9, <2>10
    <2>12. Found(Allocated(t, request), t, X, original)
      BY <2>11 DEF S, Searching
    <2> QED BY <2>1, <2>12 DEF original
  <1> QED BY <1>2, <1>3

\* A block in use, in numbers.
LEMMA UsedTypes ==
  ASSUME BuddyAssumption, NEW t, NEW X, NEW b, NEW p, TreeOK(t, X \cup {<<b, p>>})
  PROVE  /\ Spot(b, p) /\ b \in Buckets /\ p \in Nat /\ t.limit \in Buckets /\ t.limit <= b
         /\ <<b, p>> \notin FreeAt(t) /\ <<b, p>> # <<t.limit, SizeOf(t.limit)>> /\ (b = t.limit => p = 0)
         /\ <<t.limit, SizeOf(t.limit)>> \notin FreeAt(t)
  <1> DEFINE s == <<b, p>>
  <1>1. s \in FreeAt(t) \cup (X \cup {<<b, p>>}) /\ Tiling(FreeAt(t) \cup (X \cup {<<b, p>>}), t.limit) /\ s \notin FreeAt(t)
    BY DEF TreeOK
  <1>2. s[1] = b /\ s[2] = p
    OBVIOUS
  <1>3. /\ s \in Buckets \X Nat /\ s[1] \in Buckets /\ s[2] \in Nat /\ SizeOf(s[1]) \in Nat \ {0}
        /\ t.limit \in Buckets /\ SizeOf(t.limit) \in Nat \ {0}
    BY <1>1, TileTypes
  <1>4. Spot(b, p) /\ t.limit <= b /\ p + SizeOf(b) <= SizeOf(t.limit)
    BY <1>1, <1>2 DEF Tiling, EndOf
  <1>5. p # SizeOf(t.limit) /\ (b = t.limit => p = 0)
    BY <1>2, <1>3, <1>4
  <1>6. <<t.limit, SizeOf(t.limit)>> \notin FreeAt(t)
    <2>1. SUFFICES ASSUME <<t.limit, SizeOf(t.limit)>> \in FreeAt(t) PROVE FALSE
      OBVIOUS
    <2> QED BY <2>1, FreeTypes
  <1> QED BY <1>1, <1>2, <1>3, <1>4, <1>5, <1>6

\* A block in use that is listed after all, as free.
LEMMA GivenBack ==
  ASSUME BuddyAssumption, NEW t, NEW X, NEW b, NEW p, TreeOK(t, X \cup {<<b, p>>}), <<b, p>> \notin X, p + LinkBytes <= t.max,
         NEW v, v \in Trees, v.lists = t.lists, v.limit = t.limit, v.max = t.max,
         BitsOK(Idle(FreeAt(t) \cup {<<b, p>>}, t.limit), v.split), NoPairs(FreeAt(t) \cup {<<b, p>>})
  PROVE  TreeOK(ListPush(v, b, p), X) /\ ListPush(v, b, p).max = t.max
  <1> DEFINE F == FreeAt(t)
             Y == X \cup {<<b, p>>}
             G == F \cup {<<b, p>>}
  <1>1. /\ t \in Trees /\ Once(t) /\ F \cap Y = {} /\ Tiling(F \cup Y, t.limit) /\ Linked(F, t.max)
        /\ b \in Buckets /\ p \in Nat
    BY UsedTypes DEF TreeOK
  <1>2. Once(v) /\ FreeAt(v) = F
    BY <1>1, SameLists
  <1>3. PICK u : u = ListPush(v, b, p)
    OBVIOUS
  <1>4. Kept(u, v) /\ FreeAt(u) = G
    BY <1>1, <1>2, <1>3, Pushed
  <1>5. u \in Trees /\ Once(u) /\ u.limit = t.limit /\ u.split = v.split /\ u.max = t.max
    BY <1>4 DEF Kept
  <1>6. G \cap X = {} /\ G \cup X = F \cup Y
    BY <1>1
  <1>7. Linked(G, t.max)
    <2>1. <<b, p>>[2] = p
      OBVIOUS
    <2> QED BY <1>1, <2>1 DEF Linked
  <1>8. TreeOK(u, X)
    BY <1>1, <1>4, <1>5, <1>6, <1>7 DEF TreeOK
  <1> QED BY <1>3, <1>5, <1>8

\* A node's buddy; and its bit, turned.
LEMMA BuddyAt ==
  ASSUME BuddyAssumption, NEW b, NEW p, Spot(b, p), b # 0
  PROVE  \E q, s :
           /\ Spot(b - 1, q) /\ (b - 1) + 1 = b /\ b - 1 < Least /\ Spot(b, s) /\ p # s /\ q <= p /\ q \in Nat
           /\ (p = q /\ s = q + SizeOf(b)) \/ (p = q + SizeOf(b) /\ s = q)
           /\ PtrForNode(Sibling(NodeForPtr(p, b)), b) = s /\ Parent(NodeForPtr(p, b)) = NodeForPtr(q, b - 1)
           /\ Parent(NodeForPtr(s, b)) = NodeForPtr(q, b - 1) /\ NodeForPtr(q, b - 1) \in Nat
  <1>1. b - 1 \in Buckets /\ b - 1 < Least /\ (b - 1) + 1 = b
    BY ParentSpot
  <1>2. PICK q : Spot(b - 1, q) /\ (p = q \/ p = q + SizeOf(b))
    BY ParentSpot
  <1>3. /\ Spot(b, q) /\ Spot(b, q + SizeOf(b)) /\ SizeOf(b) \in Nat \ {0} /\ q \in Nat
    BY <1>1, <1>2, Kids, SpotTypes
  <1>4. /\ Parent(NodeForPtr(q, b)) = NodeForPtr(q, b - 1) /\ Parent(NodeForPtr(q + SizeOf(b), b)) = NodeForPtr(q, b - 1)
        /\ Sibling(NodeForPtr(q, b)) = NodeForPtr(q + SizeOf(b), b)
        /\ Sibling(NodeForPtr(q + SizeOf(b), b)) = NodeForPtr(q, b)
        /\ NodeForPtr(q, b - 1) \in Nat
    BY <1>1, <1>2, ParentNode
  <1>5. PtrForNode(NodeForPtr(q, b), b) = q /\ PtrForNode(NodeForPtr(q + SizeOf(b), b), b) = q + SizeOf(b)
    BY <1>3, SpotTypes
  <1>6. q # q + SizeOf(b) /\ q <= q /\ q <= q + SizeOf(b)
    BY <1>3
  <1>7. CASE p = q
    BY <1>1, <1>2, <1>3, <1>4, <1>5, <1>6, <1>7
  <1>8. CASE p = q + SizeOf(b)
    BY <1>1, <1>2, <1>3, <1>4, <1>5, <1>6, <1>8
  <1> QED BY <1>2, <1>7, <1>8

\* One step up: a block in use joins its free buddy, or is listed as free.
StepsUp(t, t1, X, b, p) ==
  /\ t1 \in Trees /\ t1.max = t.max
  /\ Merges(t1, NodeForPtr(p, b), b) =>
       \E q : /\ Spot(b - 1, q) /\ Parent(NodeForPtr(p, b)) = NodeForPtr(q, b - 1) /\ q <= p /\ q \in Nat
              /\ TreeOK(ListRemove(t1, PtrForNode(Sibling(NodeForPtr(p, b)), b)), X \cup {<<b - 1, q>>})
              /\ <<b - 1, q>> \notin X
              /\ ListRemove(t1, PtrForNode(Sibling(NodeForPtr(p, b)), b)).max = t.max
  /\ ~ Merges(t1, NodeForPtr(p, b), b) => TreeOK(ListPush(t1, b, p), X) /\ ListPush(t1, b, p).max = t.max

LEMMA MergeOK ==
  ASSUME BuddyAssumption, NEW t, NEW X, NEW b, NEW p, TreeOK(t, X \cup {<<b, p>>}), <<b, p>> \notin X, b # 0,
         p + LinkBytes <= t.max
  PROVE  StepsUp(t, Flip(t, NodeForPtr(p, b)), X, b, p)
  <1>0. PICK t1 : t1 = Flip(t, NodeForPtr(p, b))
    OBVIOUS
  <1> DEFINE F == FreeAt(t)
             Y == X \cup {<<b, p>>}
             L == t.limit
  <1>1. /\ t \in Trees /\ Once(t) /\ F \cap Y = {} /\ Tiling(F \cup Y, L)
        /\ BitsOK(Idle(F, L), t.split) /\ NoPairs(F) /\ Linked(F, t.max)
    BY DEF TreeOK
  <1>2. /\ Spot(b, p) /\ b \in Buckets /\ p \in Nat /\ L \in Buckets /\ L <= b
        /\ <<b, p>> \notin F /\ <<b, p>> # <<L, SizeOf(L)>> /\ (b = L => p = 0) /\ <<L, SizeOf(L)>> \notin F
    BY UsedTypes
  <1>3. PICK q, s :
          /\ Spot(b - 1, q) /\ (b - 1) + 1 = b /\ b - 1 < Least /\ Spot(b, s) /\ p # s /\ q <= p /\ q \in Nat
          /\ (p = q /\ s = q + SizeOf(b)) \/ (p = q + SizeOf(b) /\ s = q)
          /\ PtrForNode(Sibling(NodeForPtr(p, b)), b) = s /\ Parent(NodeForPtr(p, b)) = NodeForPtr(q, b - 1)
          /\ Parent(NodeForPtr(s, b)) = NodeForPtr(q, b - 1) /\ NodeForPtr(q, b - 1) \in Nat
    BY <1>2, BuddyAt
  <1> HIDE DEF F, Y, L
  <1>4. IsSplit(t, NodeForPtr(p, b)) <=> <<b, s>> \in Idle(F, L)
    <2>1. <<b, p>> \notin Idle(F, L)
      BY <1>2 DEF Idle
    <2>2. /\ IsSplit(t, NodeForPtr(q, b)) <=> ~ (<<b, q>> \in Idle(F, L) <=> <<b, q + SizeOf(b)>> \in Idle(F, L))
          /\ IsSplit(t, NodeForPtr(q + SizeOf(b), b)) <=>
               ~ (<<b, q>> \in Idle(F, L) <=> <<b, q + SizeOf(b)>> \in Idle(F, L))
      BY <1>1, <1>3, BitAt
    <2> QED BY <1>3, <2>1, <2>2
  <1>5. PICK split : split = SymDiff(t.split, {Parent(NodeForPtr(p, b))})
    OBVIOUS
  <1>6. t1 \in Trees /\ t1.lists = t.lists /\ t1.limit = L /\ t1.split = split /\ t1.max = t.max /\ split \subseteq Nat
    <2>1. split \subseteq Nat
      BY <1>1, <1>3, <1>5 DEF SymDiff, BitsOK
    <2> QED BY <1>0, <1>1, <1>5, <2>1, FlipOK DEF L
  <1>7. IsSplit(t1, NodeForPtr(p, b)) <=> <<b, s>> \notin Idle(F, L)
    <2>1. IsSplit(t1, NodeForPtr(p, b)) <=> ~ IsSplit(t, NodeForPtr(p, b))
      BY <1>5, <1>6 DEF IsSplit, SymDiff
    <2> QED BY <1>4, <2>1
  <1>8. Once(t1) /\ FreeAt(t1) = F
    BY <1>1, <1>6, SameLists DEF F
  <1>9. ASSUME Merges(t1, NodeForPtr(p, b), b)
        PROVE  /\ TreeOK(ListRemove(t1, s), X \cup {<<b - 1, q>>})
               /\ <<b - 1, q>> \notin X /\ ListRemove(t1, s).max = t.max
    <2>1. b # L /\ <<b, s>> \in Idle(F, L)
      BY <1>6, <1>7, <1>9 DEF Merges
    <2>2. <<b, s>> \in F /\ L <= b - 1
      BY <1>2, <2>1 DEF Idle, Buckets
    <2>3. \A x \in F : x[2] = s => x = <<b, s>>
      <3>1. ASSUME NEW x \in F, x[2] = s PROVE x = <<b, s>>
        <4>1. x \in F \cup Y /\ <<b, s>> \in F \cup Y /\ <<b, s>>[2] = s
          BY <2>2
        <4> QED BY <1>1, <3>1, <4>1, TileOnce
      <3> QED BY <3>1
    <2>4. PICK u : u = ListRemove(t1, s)
      OBVIOUS
    <2>5. PICK G : G = F \ {<<b, s>>}
      OBVIOUS
    <2>6. Kept(u, t1) /\ FreeAt(u) = G
      <3>1. s \in Nat
        BY <1>3, SpotTypes
      <3>2. Kept(ListRemove(t1, s), t1) /\ FreeAt(ListRemove(t1, s)) = FreeAt(t1) \ {<<b, s>>}
        BY <1>2, <1>6, <1>8, <2>2, <2>3, <3>1, Removed
      <3> QED BY <1>8, <2>4, <2>5, <3>2
    <2>7. u \in Trees /\ Once(u) /\ u.limit = L /\ u.split = split /\ u.max = t.max
      BY <1>6, <2>6 DEF Kept
    <2>8. PICK B : B = F \cup Y
      OBVIOUS
    <2>9. <<b, p>> \in B /\ <<b, s>> \in B
      BY <2>2, <2>8 DEF Y
    <2>10. {<<b, p>>, <<b, s>>} = {<<b, q>>, <<b, q + SizeOf(b)>>}
      BY <1>3
    <2>11. /\ Tiling((B \ {<<b, q>>, <<b, q + SizeOf(b)>>}) \cup {<<b - 1, q>>}, L) /\ <<b - 1, q>> \notin B
      <3>1. <<b, q>> \in B /\ <<b, q + SizeOf(b)>> \in B
        BY <2>9, <2>10
      <3>2. PICK c : c = b - 1
        OBVIOUS
      <3>3. Tiling(B, L) /\ Spot(c, q) /\ c < Least /\ L <= c /\ <<c + 1, q>> \in B /\ <<c + 1, q + SizeOf(c + 1)>> \in B
            /\ c + 1 = b
        BY <1>1, <1>3, <2>2, <2>8, <3>1, <3>2
      <3>4. /\ Tiling((B \ {<<c + 1, q>>, <<c + 1, q + SizeOf(c + 1)>>}) \cup {<<c, q>>}, L) /\ <<c, q>> \notin B
        BY ONLY BuddyAssumption, <3>3, TileMerge
      <3> QED BY <3>2, <3>3, <3>4
    <2>12. PICK Z : Z = X \cup {<<b - 1, q>>}
      OBVIOUS
    <2>13. G \cup Z = (B \ {<<b, p>>, <<b, s>>}) \cup {<<b - 1, q>>} /\ G \cap Z = {} /\ <<b - 1, q>> \notin X
      BY <1>1, <1>2, <2>2, <2>5, <2>8, <2>11, <2>12 DEF Y
    <2>14. BitsOK(Idle(G, L), split)
      <3>1. \A x : x # <<b, s>> => (x \in Idle(G, L) <=> x \in Idle(F, L))
        BY <2>5 DEF Idle
      <3>2. <<b, s>> \notin Idle(G, L)
        BY <2>1, <2>5 DEF Idle
      <3>3. BitsOK(Idle(G, L), SymDiff(t.split, {Parent(NodeForPtr(s, b))}))
        BY <1>1, <1>3, <2>1, <3>1, <3>2, BitTurned
      <3> QED BY <1>3, <1>5, <3>3
    <2>15. NoPairs(G) /\ Linked(G, t.max)
      BY <1>1, <2>5 DEF NoPairs, Linked
    <2>16. TreeOK(u, Z)
      BY <2>6, <2>7, <2>10, <2>11, <2>13, <2>14, <2>15 DEF TreeOK
    <2> QED BY <2>4, <2>7, <2>12, <2>13, <2>16
  <1>10. ASSUME ~ Merges(t1, NodeForPtr(p, b), b)
         PROVE  TreeOK(ListPush(t1, b, p), X) /\ ListPush(t1, b, p).max = t.max
    <2>1. <<b, s>> \notin F
      <3>1. CASE b = L
        <4>1. p = q /\ q = 0 /\ s = SizeOf(L)
          <5>1. p = 0 /\ SizeOf(b) \in Nat \ {0}
            BY <1>2, <3>1, Sizes
          <5>2. p # q + SizeOf(b)
            BY <1>3, <5>1
          <5>3. p = q /\ s = q + SizeOf(b)
            BY <1>3, <5>2
          <5> QED BY <3>1, <5>1, <5>3
        <4> QED BY <1>2, <3>1, <4>1
      <3>2. CASE b # L
        BY <1>6, <1>7, <1>10, <3>2 DEF Merges, Idle
      <3> QED BY <3>1, <3>2
    <2>2. PICK G : G = F \cup {<<b, p>>}
      OBVIOUS
    <2>3. BitsOK(Idle(G, L), split)
      <3>1. /\ \A x : x # <<b, p>> => (x \in Idle(G, L) <=> x \in Idle(F, L))
            /\ <<b, p>> \in Idle(G, L) /\ <<b, p>> \notin Idle(F, L)
        BY <1>2, <2>2 DEF Idle
      <3> QED BY <1>1, <1>2, <1>5, <3>1, BitTurned
    <2>4. NoPairs(G)
      <3>1. ASSUME NEW d, NEW a, Spot(d, a), d < Least, <<d + 1, a>> \in G, <<d + 1, a + SizeOf(d + 1)>> \in G
            PROVE  FALSE
        <4>1. ~ (<<d + 1, a>> \in F /\ <<d + 1, a + SizeOf(d + 1)>> \in F)
          BY <1>1, <3>1 DEF NoPairs
        <4>2. <<d + 1, a>> = <<b, p>> \/ <<d + 1, a + SizeOf(d + 1)>> = <<b, p>>
          BY <2>2, <3>1, <4>1
        <4>3. d + 1 = b /\ d = b - 1 /\ (p = a \/ p = a + SizeOf(b)) /\ SizeOf(b) \in Nat \ {0}
          <5>1. d + 1 = b /\ (p = a \/ p = a + SizeOf(d + 1))
            BY <4>2
          <5>2. d = b - 1
            BY <1>2, <3>1, <5>1 DEF Spot, Buckets
          <5> QED BY <1>2, <5>1, <5>2, Sizes
        <4>4. /\ Parent(NodeForPtr(a, b)) = NodeForPtr(a, b - 1) /\ Parent(NodeForPtr(a + SizeOf(b), b)) = NodeForPtr(a, b - 1)
          BY <3>1, <4>3, ParentNode
        <4>5. NodeForPtr(a, b - 1) = NodeForPtr(q, b - 1)
          BY <1>3, <4>3, <4>4
        <4>6. a = q
          BY <1>3, <3>1, <4>3, <4>5, NodesApart
        <4>7. <<b, a>> \in G /\ <<b, a + SizeOf(b)>> \in G
          BY <3>1, <4>3
        <4>8. <<b, s>> \in G
          BY <1>3, <4>6, <4>7
        <4>9. <<b, s>> # <<b, p>>
          BY <1>3
        <4> QED BY <2>1, <2>2, <4>8, <4>9
      <3> QED BY <3>1 DEF NoPairs
    <2> QED BY <1>6, <2>2, <2>3, <2>4, GivenBack DEF F, L
  <1>11. StepsUp(t, t1, X, b, p)
    BY <1>3, <1>6, <1>9, <1>10 DEF StepsUp
  <1> QED BY <1>0, <1>11

\* The base's own block, listed again.
LEMMA GivenBackWhole ==
  ASSUME BuddyAssumption, NEW t, NEW X, NEW p, TreeOK(t, X \cup {<<0, p>>}), <<0, p>> \notin X, p + LinkBytes <= t.max
  PROVE  TreeOK(ListPush(t, 0, p), X) /\ ListPush(t, 0, p).max = t.max
  <1> DEFINE F == FreeAt(t)
             G == F \cup {<<0, p>>}
  <1>1. t \in Trees /\ BitsOK(Idle(F, t.limit), t.split) /\ NoPairs(F)
    BY DEF TreeOK
  <1>2. BitsOK(Idle(G, t.limit), t.split)
    <2>1. \A s : s[1] # 0 => (s \in Idle(G, t.limit) <=> s \in Idle(F, t.limit))
      BY DEF Idle
    <2> QED BY <1>1, <2>1, BitsOfRoot
  <1>3. NoPairs(G)
    <2>1. ASSUME NEW c, NEW q, Spot(c, q), c < Least
          PROVE  ~ (<<c + 1, q>> \in G /\ <<c + 1, q + SizeOf(c + 1)>> \in G)
      <3>1. c + 1 # 0
        BY <2>1 DEF Spot, Buckets
      <3>2. <<c + 1, q>> # <<0, p>> /\ <<c + 1, q + SizeOf(c + 1)>> # <<0, p>>
        BY <3>1
      <3> QED BY <1>1, <2>1, <3>2 DEF NoPairs
    <2> QED BY <2>1 DEF NoPairs
  <1> QED BY <1>1, <1>2, <1>3, GivenBack

Mergings == [tree : Trees, i : Int, b : Buckets, over : BOOLEAN]

\* A block on its way up: at a node of its bucket, in use until the way is over.
Rising(m, p, X, max) ==
  /\ Spot(m.b, p) /\ m.i = NodeForPtr(p, m.b) /\ p + LinkBytes <= max /\ m.tree.max = max
  /\ m.over = FALSE => TreeOK(m.tree, X \cup {<<m.b, p>>}) /\ <<m.b, p>> \notin X
  /\ m.over = TRUE => TreeOK(ListPush(m.tree, m.b, p), X) /\ ListPush(m.tree, m.b, p).max = max

LEMMA MergedOnceOK ==
  ASSUME BuddyAssumption, NEW m \in Mergings, NEW p, NEW X, NEW max, Rising(m, p, X, max)
  PROVE  /\ MergedOnce(m) \in Mergings /\ \E q : Rising(MergedOnce(m), q, X, max)
         /\ MergedOnce(m).over = TRUE \/ MergedOnce(m).b = m.b - 1 \/ (MergedOnce(m).b = m.b /\ m.b = 0)
  <1>1. /\ m = [tree |-> m.tree, i |-> m.i, b |-> m.b, over |-> m.over]
        /\ m.tree \in Trees /\ m.i \in Int /\ m.b \in Buckets /\ m.over \in BOOLEAN
    BY DEF Mergings
  <1>2. /\ Spot(m.b, p) /\ m.i = NodeForPtr(p, m.b) /\ p \in Nat /\ LinkBytes \in Nat /\ p + LinkBytes <= max /\ m.tree.max = max
        /\ (m.i = 0 <=> m.b = 0)
    <2>1. Spot(m.b, p) /\ m.i = NodeForPtr(p, m.b) /\ p + LinkBytes <= max /\ m.tree.max = max
      BY DEF Rising
    <2>2. /\ p \in Nat /\ NodeForPtr(p, m.b) \in TwoTo[m.b] - 1 .. 2 * TwoTo[m.b] - 2
          /\ NodeForPtr(0, m.b) = TwoTo[m.b] - 1 /\ (NodeForPtr(0, m.b) # 0 <=> m.b # 0)
          /\ TwoTo[m.b] \in Nat \ {0} /\ TwoTo[0] = 1 /\ LinkBytes \in Nat
      BY <1>1, <2>1, SpotTypes, RootSpots, Sizes
    <2>3. m.b # 0 => m.i # 0
      BY <2>1, <2>2
    <2>4. m.b = 0 => m.i = 0
      BY <2>1, <2>2
    <2> QED BY <2>1, <2>2, <2>3, <2>4
  <1>3. CASE m.over \/ m.i = 0
    <2>1. MergedOnce(m) = m
      BY <1>3 DEF MergedOnce
    <2>2. m.over = TRUE \/ (m.b = m.b /\ m.b = 0)
      BY <1>1, <1>2, <1>3
    <2> QED BY <2>1, <2>2
  <1>4. CASE ~ (m.over \/ m.i = 0)
    <2>1. m.over = FALSE /\ m.b # 0 /\ TreeOK(m.tree, X \cup {<<m.b, p>>}) /\ <<m.b, p>> \notin X
      BY <1>1, <1>2, <1>4 DEF Rising
    <2>2. PICK t1 : t1 = Flip(m.tree, m.i)
      OBVIOUS
    <2>3. PICK u : u = ListRemove(t1, PtrForNode(Sibling(m.i), m.b))
      OBVIOUS
    <2>4. MergedOnce(m) =
            IF Merges(t1, m.i, m.b) THEN [tree |-> u, i |-> Parent(m.i), b |-> m.b - 1, over |-> FALSE]
            ELSE [m EXCEPT !.tree = t1, !.over = TRUE]
      BY <1>4, <2>2, <2>3 DEF MergedOnce
    <2>5. /\ t1 \in Trees /\ t1.max = max
          /\ Merges(t1, m.i, m.b) =>
               \E q : /\ Spot(m.b - 1, q) /\ Parent(m.i) = NodeForPtr(q, m.b - 1) /\ q <= p /\ q \in Nat
                      /\ TreeOK(u, X \cup {<<m.b - 1, q>>}) /\ <<m.b - 1, q>> \notin X /\ u.max = max
          /\ ~ Merges(t1, m.i, m.b) => TreeOK(ListPush(t1, m.b, p), X) /\ ListPush(t1, m.b, p).max = max
      <3>1. PICK t : t = m.tree
        OBVIOUS
      <3>2. PICK b : b = m.b
        OBVIOUS
      <3>3. /\ TreeOK(t, X \cup {<<b, p>>}) /\ <<b, p>> \notin X /\ b # 0 /\ p + LinkBytes <= t.max
            /\ t1 = Flip(t, NodeForPtr(p, b))
        BY <1>2, <2>1, <2>2, <3>1, <3>2
      <3>4. StepsUp(t, t1, X, b, p)
        BY <3>3, MergeOK
      <3> QED BY <1>2, <2>3, <3>1, <3>2, <3>4 DEF StepsUp
    <2>6. CASE Merges(t1, m.i, m.b)
      <3>1. PICK q : /\ Spot(m.b - 1, q) /\ Parent(m.i) = NodeForPtr(q, m.b - 1) /\ q <= p /\ q \in Nat
                     /\ TreeOK(u, X \cup {<<m.b - 1, q>>}) /\ <<m.b - 1, q>> \notin X /\ u.max = max
        BY <2>5, <2>6
      <3>2. PICK r : r = [tree |-> u, i |-> Parent(m.i), b |-> m.b - 1, over |-> FALSE]
        OBVIOUS
      <3>3. r.tree = u /\ r.i = Parent(m.i) /\ r.b = m.b - 1 /\ r.over = FALSE
        BY <3>2
      <3>4. u \in Trees /\ m.b - 1 \in Buckets /\ NodeForPtr(q, m.b - 1) \in Int /\ u.max \in Int
        <4>1. m.b - 1 \in Buckets /\ NodeForPtr(q, m.b - 1) \in TwoTo[m.b - 1] - 1 .. 2 * TwoTo[m.b - 1] - 2
          BY <3>1, SpotTypes
        <4>2. TwoTo[m.b - 1] \in Nat
          BY <4>1, Sizes
        <4>3. u \in Trees
          BY <3>1 DEF TreeOK
        <4>4. u.max \in LinkBytes .. EndAt
          BY <4>3, TreeTypes
        <4> QED BY <1>2, <4>1, <4>2, <4>3, <4>4
      <3>5. r \in Mergings
        BY <3>1, <3>2, <3>4 DEF Mergings
      <3>6. q + LinkBytes <= max
        BY <1>2, <3>1, <3>4
      <3>7. Rising(r, q, X, max)
        BY <3>1, <3>3, <3>6 DEF Rising
      <3>8. MergedOnce(m) = r
        BY <2>4, <2>6, <3>2
      <3> QED BY <3>3, <3>5, <3>7, <3>8
    <2>7. CASE ~ Merges(t1, m.i, m.b)
      <3>1. PICK r : r = [tree |-> t1, i |-> m.i, b |-> m.b, over |-> TRUE]
        OBVIOUS
      <3>2. MergedOnce(m) = r
        BY <1>1, <2>4, <2>7, <3>1
      <3>3. r.tree = t1 /\ r.i = m.i /\ r.b = m.b /\ r.over = TRUE
        BY <3>1
      <3>4. r \in Mergings
        BY <1>1, <2>5, <3>1 DEF Mergings
      <3>5. Rising(r, p, X, max)
        BY <1>2, <2>5, <2>7, <3>3 DEF Rising
      <3> QED BY <3>2, <3>3, <3>4, <3>5
    <2> QED BY <2>6, <2>7
  <1> QED BY <1>3, <1>4

LEMMA FreedOK ==
  ASSUME BuddyAssumption, NEW t, NEW X, NEW p, NEW request, TreeOK(t, X \cup {<<BucketFor(request), p>>}),
         <<BucketFor(request), p>> \notin X, p + LinkBytes <= t.max
  PROVE  TreeOK(Freed(t, p, request), X) /\ Freed(t, p, request).max = t.max
  <1> DEFINE bucket == BucketFor(request)
             start == [tree |-> t, i |-> NodeForPtr(p, bucket), b |-> bucket, over |-> FALSE]
             OK(m, n) == (\E q : Rising(m, q, X, t.max)) /\ (m.over = TRUE \/ m.b = 0 \/ m.b = bucket - n)
             A == [n \in 0 .. Least + 1 |-> {m \in Mergings : OK(m, n)}]
             step == [n \in 1 .. Least + 1 |-> [m \in A[n - 1] |-> MergedOnce(m)]]
             Up[n \in 0 .. Least + 1] == IF n = 0 THEN start ELSE MergedOnce(Up[n - 1])
             N == Least + 1
  <1>1. /\ bucket \in Buckets /\ Spot(bucket, p) /\ p \in Nat /\ t \in Trees /\ N \in Nat /\ Least \in Nat
        /\ NodeForPtr(p, bucket) \in Int
    <2>1. bucket \in Buckets /\ Spot(bucket, p) /\ p \in Nat /\ t \in Trees
      BY UsedTypes DEF TreeOK
    <2>2. NodeForPtr(p, bucket) \in TwoTo[bucket] - 1 .. 2 * TwoTo[bucket] - 2 /\ TwoTo[bucket] \in Nat /\ Least \in Nat
      BY <2>1, SpotTypes, Sizes
    <2> QED BY <2>1, <2>2
  <1> HIDE DEF bucket
  <1>2. start \in Mergings /\ OK(start, 0)
    <2>1. start \in Mergings
      BY <1>1 DEF Mergings
    <2>2. start.tree = t /\ start.i = NodeForPtr(p, bucket) /\ start.b = bucket /\ start.over = FALSE
      OBVIOUS
    <2>3. Rising(start, p, X, t.max)
      <3>1. TreeOK(t, X \cup {<<bucket, p>>}) /\ <<bucket, p>> \notin X
        BY DEF bucket
      <3> HIDE DEF start
      <3> QED BY <1>1, <2>2, <3>1 DEF Rising
    <2>4. bucket = bucket - 0
      BY <1>1 DEF Buckets
    <2> HIDE DEF start
    <2> QED BY <2>1, <2>2, <2>3, <2>4
  <1> HIDE DEF start
  <1>3. ASSUME NEW n \in 1 .. N, NEW m \in A[n - 1] PROVE MergedOnce(m) \in A[n]
    <2>1. n - 1 \in 0 .. Least + 1 /\ n \in 0 .. Least + 1
      BY <1>1
    <2>2. m \in Mergings /\ OK(m, n - 1)
      BY <2>1
    <2>3. PICK q : Rising(m, q, X, t.max)
      BY <2>2
    <2>4. PICK r : r = MergedOnce(m)
      OBVIOUS
    <2>5. /\ r \in Mergings /\ \E d : Rising(r, d, X, t.max)
          /\ r.over = TRUE \/ r.b = m.b - 1 \/ (r.b = m.b /\ m.b = 0)
      BY <2>2, <2>3, <2>4, MergedOnceOK
    <2>6. m.over = TRUE => r = m
      BY <2>4 DEF MergedOnce
    <2>7. m.b \in Buckets /\ r.b \in Buckets
      BY <2>2, <2>5 DEF Mergings
    <2>8. r.over = TRUE \/ r.b = 0 \/ r.b = bucket - n
      <3>1. CASE m.over = TRUE
        BY <2>6, <3>1
      <3>2. CASE m.b = 0
        BY <2>5, <2>7, <3>2 DEF Buckets
      <3>3. CASE m.b = bucket - (n - 1)
        <4>1. m.b - 1 = bucket - n
          BY <1>1, <3>3 DEF Buckets
        <4> QED BY <2>5, <4>1
      <3> QED BY <2>2, <3>1, <3>2, <3>3
    <2> QED BY <2>1, <2>4, <2>5, <2>8
  <1> HIDE DEF OK
  <1>4. start \in A[0] /\ \A n \in 0 .. N : A[n] \subseteq Mergings
    BY <1>1, <1>2
  <1>5. \A n \in 1 .. N : step[n] \in [A[n - 1] -> A[n]]
    BY <1>3
  <1> HIDE DEF A, step
  <1>6. PICK f : f \in [0 .. N -> Mergings] /\ f[0] = start
                 /\ \A n \in 1 .. N : f[n - 1] \in A[n - 1] /\ f[n] = step[n][f[n - 1]]
    <2>1. N \in Nat
      BY <1>1
    <2> HIDE DEF N
    <2>2. \E f : Climbs(f, N, Mergings, A, start, step)
      BY ONLY <1>4, <1>5, <2>1, Climb
    <2> QED BY <2>2 DEF Climbs
  <1>7. f = [n \in 0 .. N |-> IF n = 0 THEN start ELSE MergedOnce(f[n - 1])]
    <2>1. ASSUME NEW n \in 0 .. N PROVE f[n] = IF n = 0 THEN start ELSE MergedOnce(f[n - 1])
      <3>1. CASE n = 0
        BY <1>6, <3>1
      <3>2. CASE n # 0
        <4>1. n \in 1 .. N
          BY <1>1, <3>2
        <4> QED BY <1>6, <3>2, <4>1 DEF step
      <3> QED BY <3>1, <3>2
    <2> QED BY <1>6, <2>1
  <1>8. PICK w : w = Up
    OBVIOUS
  <1>9. w = [n \in 0 .. Least + 1 |-> IF n = 0 THEN start ELSE MergedOnce(w[n - 1])]
    BY <1>7, <1>8
  <1>10. 0 .. N \subseteq {n \in 0 .. N : w[n] \in A[n]}
    <2> DEFINE P == {n \in 0 .. N : w[n] \in A[n]}
    <2>1. 0 \in P
      BY <1>1, <1>4, <1>9
    <2>2. ASSUME NEW n \in 1 .. N, n - 1 \in P PROVE n \in P
      <3>1. n \in 0 .. N /\ n # 0 /\ w[n - 1] \in A[n - 1]
        BY <1>1, <2>2
      <3>2. w[n] = MergedOnce(w[n - 1])
        BY <1>9, <3>1
      <3> QED BY <1>3, <3>1, <3>2
    <2> HIDE DEF P
    <2>3. 0 .. N \subseteq P
      BY <1>1, <2>1, <2>2, UpTo
    <2> QED BY <2>3 DEF P
  <1>11. PICK m : m = w[N]
    OBVIOUS
  <1>12. Freed(t, p, request) = ListPush(m.tree, m.b, PtrForNode(m.i, m.b))
    BY <1>8, <1>11 DEF Freed, start, bucket
  <1>13. m \in Mergings /\ OK(m, N)
    <2>1. m \in A[N] /\ N \in 0 .. N
      BY <1>1, <1>10, <1>11
    <2> QED BY <2>1 DEF A
  <1>14. m.over \in BOOLEAN /\ m.b \in Buckets /\ m.tree \in Trees
    BY <1>13 DEF Mergings
  <1>15. PICK q : Rising(m, q, X, t.max)
    BY <1>13 DEF OK
  <1>16. m.over = TRUE \/ m.b = 0
    <2>1. m.b # bucket - N
      BY <1>1, <1>14 DEF Buckets
    <2>2. m.over = TRUE \/ m.b = 0 \/ m.b = bucket - N
      BY <1>13 DEF OK
    <2> QED BY <2>1, <2>2
  <1>17. Spot(m.b, q) /\ PtrForNode(m.i, m.b) = q
    BY <1>15, SpotTypes DEF Rising
  <1>18. CASE m.over = TRUE
    BY <1>12, <1>15, <1>17, <1>18 DEF Rising
  <1>19. CASE m.over = FALSE
    <2>1. m.b = 0 /\ TreeOK(m.tree, X \cup {<<0, q>>}) /\ <<0, q>> \notin X /\ q + LinkBytes <= m.tree.max /\ m.tree.max = t.max
      BY <1>15, <1>16, <1>19 DEF Rising
    <2>2. TreeOK(ListPush(m.tree, 0, q), X) /\ ListPush(m.tree, 0, q).max = m.tree.max
      BY <2>1, GivenBackWhole
    <2> QED BY <1>12, <1>17, <2>1, <2>2
  <1> QED BY <1>14, <1>18, <1>19

-----------------------------------------------------------------------------
(***************************************************************************)
(* The invariant: the tree is a tree beside the blocks given, each of a    *)
(* bucket that its request fits, at an address of its own, in the memory   *)
(* taken.                                                                  *)
(***************************************************************************)
Used(gs) == {<<BucketFor(g.asked), g.at>> : g \in gs}

BuddyInv ==
  /\ TreeOK(tree, Used(handed))
  /\ \A g \in handed : /\ g = [at |-> g.at, asked |-> g.asked] /\ g.at \in Nat
                      /\ g.asked \in Requests /\ g.asked <= SizeOf(0)
                      /\ g.at + SizeOf(BucketFor(g.asked)) <= tree.max
  /\ \A g, h \in handed : g.at = h.at => g = h

LEMMA StartsOK ==
  ASSUME BuddyAssumption
  PROVE  TreeOK(NewTree, {}) /\ NewTree.max = LinkBytes
  <1> DEFINE lists == [b \in Buckets |-> IF b = Least THEN <<0>> ELSE <<>>]
             t == [lists |-> lists, limit |-> Least, split |-> {}, max |-> LinkBytes]
             F == {<<Least, 0>>}
  <1>1. Least \in Buckets /\ Least \in Nat \ {0} /\ LinkBytes \in Nat \ {0} /\ EndAt \in Nat /\ LinkBytes <= EndAt
    BY Sizes DEF Buckets, BuddyAssumption
  <1>2. /\ t.lists = lists /\ t.limit = Least /\ t.split = {} /\ t.max = LinkBytes /\ NewTree = t
    BY DEF NewTree
  <1>3. t \in Trees
    <2>1. lists \in [Buckets -> Seq(Nat)]
      OBVIOUS
    <2>2. LinkBytes \in LinkBytes .. EndAt
      BY <1>1
    <2> QED BY <1>1, <2>1, <2>2 DEF Trees
  <1>4. Once(t)
    <2>1. NoTwice(<<0>>) /\ NoTwice(<<>>)
      BY DEF NoTwice
    <2>2. ASSUME NEW b \in Buckets PROVE NoTwice(t.lists[b])
      <3>1. t.lists[b] = <<0>> \/ t.lists[b] = <<>>
        BY <1>2
      <3> QED BY <2>1, <3>1
    <2> QED BY <2>2 DEF Once
  <1>5. FreeAt(t) = F
    <2>1. ASSUME NEW s \in Buckets \X Nat PROVE s \in FreeAt(t) <=> s \in F
      <3>1. s = <<s[1], s[2]>> /\ s[1] \in Buckets /\ s[2] \in Nat
        OBVIOUS
      <3>2. s \in FreeAt(t) <=> \E k \in 1 .. Len(lists[s[1]]) : lists[s[1]][k] = s[2]
        BY <1>2 DEF FreeAt
      <3>3. CASE s[1] = Least
        <4>1. lists[s[1]] = <<0>>
          BY <1>1, <3>3
        <4>2. (\E k \in 1 .. Len(<<0>>) : <<0>>[k] = s[2]) <=> s[2] = 0
          <5>1. Len(<<0>>) = 1 /\ <<0>>[1] = 0 /\ 1 \in 1 .. 1 /\ \A k \in 1 .. 1 : k = 1
            OBVIOUS
          <5> QED BY <5>1
        <4> HIDE DEF lists
        <4>3. s \in FreeAt(t) <=> s[2] = 0
          BY <3>2, <4>1, <4>2
        <4>4. s \in F <=> s[2] = 0
          BY <3>1, <3>3
        <4> QED BY <4>3, <4>4
      <3>4. CASE s[1] # Least
        <4>1. lists[s[1]] = <<>>
          BY <3>1, <3>4
        <4>2. s \notin F
          BY <3>4
        <4>3. ~ \E k \in 1 .. Len(<<>>) : <<>>[k] = s[2]
          OBVIOUS
        <4> HIDE DEF lists
        <4> QED BY <3>2, <4>1, <4>2, <4>3
      <3> QED BY <3>3, <3>4
    <2>2. <<Least, 0>> \in Buckets \X Nat
      BY <1>1
    <2> QED BY <2>1, <2>2 DEF FreeAt
  <1>6. Tiling(F \cup {}, Least)
    <2>1. Spot(Least, 0) /\ SizeOf(Least) \in Nat \ {0}
      BY <1>1, RootSpots, Sizes
    <2>2. PICK s : s = <<Least, 0>>
      OBVIOUS
    <2>3. s[1] = Least /\ s[2] = 0 /\ s \in Buckets \X Nat /\ EndOf(s) = SizeOf(Least)
      BY <1>1, <2>1, <2>2 DEF EndOf
    <2>4. F \cup {} = {s}
      BY <2>2
    <2>5. \A x \in 0 .. SizeOf(Least) - 1 : s[2] <= x /\ x < EndOf(s)
      BY <2>1, <2>3
    <2>6. Least <= s[1] /\ EndOf(s) <= SizeOf(Least)
      BY <1>1, <2>1, <2>3
    <2> QED BY <1>1, <2>1, <2>3, <2>4, <2>5, <2>6 DEF Tiling
  <1>7. BitsOK(Idle(F, Least), {})
    <2>1. ASSUME NEW c, NEW q, Spot(c, q), c < Least
          PROVE  <<c + 1, q>> \in Idle(F, Least) <=> <<c + 1, q + SizeOf(c + 1)>> \in Idle(F, Least)
      BY <1>1, <2>1, RootPair
    <2> QED BY <2>1 DEF BitsOK
  <1>8. NoPairs(F)
    <2>1. ASSUME NEW c, NEW q, Spot(c, q), c < Least
          PROVE  ~ (<<c + 1, q>> = <<Least, 0>> /\ <<c + 1, q + SizeOf(c + 1)>> = <<Least, 0>>)
      <3>1. SizeOf(c + 1) \in Nat \ {0} /\ q \in Nat
        BY <2>1, Kids, SpotTypes
      <3>2. q + SizeOf(c + 1) # 0
        BY <3>1
      <3> QED BY <3>2
    <2> QED BY <2>1 DEF NoPairs
  <1>9. Linked(F, LinkBytes)
    <2>1. <<Least, 0>>[2] = 0 /\ 0 + LinkBytes <= LinkBytes
      BY <1>1
    <2> QED BY <2>1 DEF Linked
  <1> HIDE DEF t, F
  <1> QED BY <1>2, <1>3, <1>4, <1>5, <1>6, <1>7, <1>8, <1>9 DEF TreeOK

LEMMA MallocInv ==
  ASSUME BuddyAssumption, RequestsAssumption, BuddyInv, NEW request \in Requests, Malloc(request)
  PROVE  BuddyInv'
  <1>1. PICK got : got = Allocated(tree, request)
    OBVIOUS
  <1>2. tree' = got.tree
    BY <1>1 DEF Malloc
  <1>3. request \in Nat
    BY DEF RequestsAssumption
  <1>4. /\ Found(got, tree, Used(handed), BucketFor(request)) /\ (got.at # None => request <= SizeOf(0))
    BY <1>1, <1>3, AllocatedOK DEF BuddyInv
  <1>5. /\ tree.max \in Int /\ LinkBytes \in Nat /\ \A b \in Buckets : SizeOf(b) \in Nat \ {0}
        /\ tree \in Trees
    <2>1. tree \in Trees
      BY DEF BuddyInv, TreeOK
    <2>2. tree.max \in LinkBytes .. EndAt /\ LinkBytes \in Nat
      BY <2>1, TreeTypes, Sizes
    <2> QED BY <2>1, <2>2, Sizes
  <1>6. tree'.max \in Int /\ tree.max <= tree'.max
    <2>1. got.tree \in Trees
      BY <1>4 DEF Found, TreeOK
    <2>2. got.tree.max \in LinkBytes .. EndAt
      BY <2>1, TreeTypes
    <2> QED BY <1>2, <1>4, <1>5, <2>2 DEF Found
  <1>7. ASSUME NEW g \in handed
        PROVE  /\ g = [at |-> g.at, asked |-> g.asked] /\ g.at \in Nat /\ g.asked \in Requests /\ g.asked <= SizeOf(0)
               /\ BucketFor(g.asked) \in Buckets /\ g.at + SizeOf(BucketFor(g.asked)) <= tree'.max
    <2>1. /\ g = [at |-> g.at, asked |-> g.asked] /\ g.at \in Nat /\ g.asked \in Requests /\ g.asked <= SizeOf(0)
          /\ g.at + SizeOf(BucketFor(g.asked)) <= tree.max
      BY DEF BuddyInv
    <2>2. BucketFor(g.asked) \in Buckets
      BY <2>1, BucketForOK DEF RequestsAssumption
    <2>3. SizeOf(BucketFor(g.asked)) \in Nat
      BY <1>5, <2>2
    <2> QED BY <1>5, <1>6, <2>1, <2>2, <2>3
  <1>8. CASE got.at = None
    <2>1. handed' = handed
      BY <1>1, <1>8 DEF Malloc
    <2>2. TreeOK(tree', Used(handed'))
      BY <1>2, <1>4, <1>8, <2>1 DEF Found
    <2>3. \A g, h \in handed : g.at = h.at => g = h
      BY DEF BuddyInv
    <2> QED BY <1>7, <2>1, <2>2, <2>3 DEF BuddyInv
  <1>9. CASE got.at # None
    <2>1. PICK n : n = [at |-> got.at, asked |-> request]
      OBVIOUS
    <2>2. handed' = handed \cup {n}
      BY <1>1, <1>9, <2>1 DEF Malloc
    <2>3. n.at = got.at /\ n.asked = request /\ n = [at |-> n.at, asked |-> n.asked]
      BY <2>1
    <2>4. PICK b : b = BucketFor(request)
      OBVIOUS
    <2>5. /\ TreeOK(tree', Used(handed) \cup {<<b, n.at>>}) /\ <<b, n.at>> \notin Used(handed)
          /\ n.at \in Nat /\ n.at + SizeOf(b) <= tree'.max /\ request <= SizeOf(0)
      BY <1>2, <1>4, <1>9, <2>3, <2>4 DEF Found
    <2>6. Used(handed') = Used(handed) \cup {<<b, n.at>>}
      BY <2>2, <2>3, <2>4 DEF Used
    <2>7. ASSUME NEW g \in handed PROVE g.at # n.at
      <3>1. SUFFICES ASSUME g.at = n.at PROVE FALSE
        OBVIOUS
      <3>2. PICK s : s = <<BucketFor(g.asked), g.at>>
        OBVIOUS
      <3>3. s \in Used(handed) /\ s # <<b, n.at>> /\ s[2] = n.at /\ <<b, n.at>>[2] = n.at
        BY <2>5, <3>1, <3>2 DEF Used
      <3>4. PICK B : B = FreeAt(tree') \cup (Used(handed) \cup {<<b, n.at>>})
        OBVIOUS
      <3>5. Tiling(B, tree'.limit) /\ s \in B /\ <<b, n.at>> \in B
        BY <2>5, <3>3, <3>4 DEF TreeOK
      <3> QED BY <3>3, <3>5, TileOnce
    <2>8. \A g, h \in handed' : g.at = h.at => g = h
      <3>1. \A g, h \in handed : g.at = h.at => g = h
        BY DEF BuddyInv
      <3> QED BY <2>2, <2>7, <3>1
    <2>9. ASSUME NEW g \in handed'
          PROVE  /\ g = [at |-> g.at, asked |-> g.asked] /\ g.at \in Nat /\ g.asked \in Requests /\ g.asked <= SizeOf(0)
                 /\ g.at + SizeOf(BucketFor(g.asked)) <= tree'.max
      <3>1. CASE g = n
        BY <2>3, <2>4, <2>5, <3>1
      <3>2. CASE g \in handed
        BY <1>7, <3>2
      <3> QED BY <2>2, <3>1, <3>2
    <2>10. TreeOK(tree', Used(handed'))
      BY <2>5, <2>6
    <2> QED BY <2>8, <2>9, <2>10 DEF BuddyInv
  <1> QED BY <1>8, <1>9

LEMMA FreeInv ==
  ASSUME BuddyAssumption, RequestsAssumption, BuddyInv, NEW block \in handed, Free(block)
  PROVE  BuddyInv'
  <1>1. /\ TreeOK(tree, Used(handed)) /\ tree \in Trees
        /\ \A g \in handed : /\ g = [at |-> g.at, asked |-> g.asked] /\ g.at \in Nat
                            /\ g.asked \in Requests /\ g.asked <= SizeOf(0)
                            /\ g.at + SizeOf(BucketFor(g.asked)) <= tree.max
        /\ \A g, h \in handed : g.at = h.at => g = h
    BY DEF BuddyInv, TreeOK
  <1>2. PICK b : b = BucketFor(block.asked)
    OBVIOUS
  <1>3. PICK X : X = Used(handed \ {block})
    OBVIOUS
  <1>4. X \cup {<<b, block.at>>} = Used(handed) /\ <<b, block.at>> \notin X
    <2>1. ASSUME NEW g \in handed \ {block} PROVE <<BucketFor(g.asked), g.at>> # <<b, block.at>>
      <3>1. g.at # block.at
        BY <1>1
      <3> QED BY <3>1
    <2> QED BY <1>2, <1>3, <2>1 DEF Used
  <1>5. block.at + LinkBytes <= tree.max
    <2>1. b \in Buckets
      BY <1>1, <1>2, BucketForOK DEF RequestsAssumption
    <2>2. LinkBytes <= SizeOf(b) /\ SizeOf(b) \in Nat /\ LinkBytes \in Nat
      BY <2>1, Sizes
    <2>3. tree.max \in LinkBytes .. EndAt
      BY <1>1, TreeTypes
    <2>4. block.at \in Nat /\ block.at + SizeOf(b) <= tree.max
      BY <1>1, <1>2
    <2> QED BY <2>2, <2>3, <2>4
  <1>6. TreeOK(Freed(tree, block.at, block.asked), X) /\ Freed(tree, block.at, block.asked).max = tree.max
    <2>1. TreeOK(tree, X \cup {<<BucketFor(block.asked), block.at>>}) /\ <<BucketFor(block.asked), block.at>> \notin X
      BY <1>1, <1>2, <1>4
    <2> QED BY <1>5, <2>1, FreedOK
  <1>7. tree' = Freed(tree, block.at, block.asked) /\ handed' = handed \ {block}
    BY DEF Free
  <1>8. TreeOK(tree', Used(handed')) /\ tree'.max = tree.max
    BY <1>3, <1>6, <1>7
  <1> QED BY <1>1, <1>7, <1>8 DEF BuddyInv

-----------------------------------------------------------------------------
\* A size is one bucket's.
LEMMA SizesDiffer ==
  ASSUME BuddyAssumption, NEW m \in Buckets, NEW n \in Buckets, SizeOf(m) = SizeOf(n)
  PROVE  m = n
  <1>1. SizeOf(m) \in Nat \ {0} /\ m \in Int /\ n \in Int
    BY Sizes DEF Buckets
  <1>2. m < n => 2 * SizeOf(n) <= SizeOf(m)
    <2>1. m < n => m <= n
      BY <1>1
    <2>2. SUFFICES ASSUME m < n PROVE 2 * SizeOf(n) <= SizeOf(m)
      OBVIOUS
    <2> QED BY <2>1, <2>2, SizesFall
  <1>3. n < m => 2 * SizeOf(m) <= SizeOf(n)
    <2>1. n < m => n <= m
      BY <1>1
    <2>2. SUFFICES ASSUME n < m PROVE 2 * SizeOf(m) <= SizeOf(n)
      OBVIOUS
    <2> QED BY <2>1, <2>2, SizesFall
  <1>4. PICK z : z = SizeOf(m)
    OBVIOUS
  <1>5. ~ (2 * z <= z)
    BY <1>1, <1>4
  <1>6. ~ (m < n) /\ ~ (n < m)
    BY <1>2, <1>3, <1>4, <1>5
  <1> QED BY <1>1, <1>6

\* A pair as the block it stands for; no two stand for one.
AsBlock(s) == [at |-> s[2], size |-> SizeOf(s[1])]

LEMMA AsBlocks ==
  ASSUME BuddyAssumption, BuddyInv
  PROVE  /\ ListedIn(tree) = {AsBlock(s) : s \in FreeAt(tree)}
         /\ \A g \in handed : BlockOf(g) = AsBlock(<<BucketFor(g.asked), g.at>>)
         /\ Blocks = {AsBlock(s) : s \in FreeAt(tree) \cup Used(handed)}
  <1>1. tree \in Trees
    BY DEF BuddyInv, TreeOK
  <1>2. ASSUME NEW x \in ListedIn(tree) PROVE \E s \in FreeAt(tree) : x = AsBlock(s)
    <2>1. PICK b \in Buckets : \E k \in DOMAIN tree.lists[b] : x = [at |-> tree.lists[b][k], size |-> SizeOf(b)]
      BY DEF ListedIn
    <2>0. PICK k \in DOMAIN tree.lists[b] : x = [at |-> tree.lists[b][k], size |-> SizeOf(b)]
      BY <2>1
    <2>2. tree.lists[b] \in Seq(Nat)
      BY <1>1, TreeTypes
    <2>3. k \in 1 .. Len(tree.lists[b]) /\ tree.lists[b][k] \in Nat
      BY <2>0, <2>2
    <2>4. PICK p \in Nat : p = tree.lists[b][k]
      BY <2>3
    <2>5. <<b, p>> \in FreeAt(tree)
      BY <1>1, <2>3, <2>4, FreeIn
    <2>6. AsBlock(<<b, p>>) = x
      BY <2>0, <2>4 DEF AsBlock
    <2> QED BY <2>5, <2>6
  <1>3. ASSUME NEW s \in FreeAt(tree) PROVE AsBlock(s) \in ListedIn(tree)
    <2>1. s[1] \in Buckets /\ tree.lists[s[1]] \in Seq(Nat)
      BY <1>1, TreeTypes DEF FreeAt
    <2>2. PICK k \in 1 .. Len(tree.lists[s[1]]) : tree.lists[s[1]][k] = s[2]
      BY DEF FreeAt
    <2>3. k \in DOMAIN tree.lists[s[1]]
      BY <2>1
    <2> QED BY <2>1, <2>2, <2>3 DEF ListedIn, AsBlock
  <1>4. ListedIn(tree) = {AsBlock(s) : s \in FreeAt(tree)}
    BY <1>2, <1>3
  <1>5. ASSUME NEW g \in handed PROVE BlockOf(g) = AsBlock(<<BucketFor(g.asked), g.at>>)
    BY DEF BlockOf, AsBlock
  <1>6. {BlockOf(g) : g \in handed} = {AsBlock(s) : s \in Used(handed)}
    BY <1>5 DEF Used
  <1> QED BY <1>4, <1>5, <1>6 DEF Blocks

\* What the tiling says of blocks as such.
LEMMA TilesHold ==
  ASSUME BuddyAssumption, RequestsAssumption, BuddyInv
  PROVE  TilesRoot
  <1>1. PICK B : B = FreeAt(tree) \cup Used(handed)
    OBVIOUS
  <1>2. /\ Tiling(B, tree.limit) /\ tree \in Trees /\ Once(tree) /\ FreeAt(tree) \cap Used(handed) = {}
        /\ FreeAt(tree) \subseteq B /\ Used(handed) \subseteq B
    BY <1>1 DEF BuddyInv, TreeOK
  <1>3. Blocks = {AsBlock(s) : s \in B} /\ ListedIn(tree) = {AsBlock(s) : s \in FreeAt(tree)}
    BY <1>1, AsBlocks
  <1>4. ASSUME NEW s \in B
        PROVE  /\ s[2] \in Nat /\ SizeOf(s[1]) \in Nat \ {0} /\ AsBlock(s).at = s[2] /\ AsBlock(s).size = SizeOf(s[1])
               /\ EndOf(s) = s[2] + SizeOf(s[1]) /\ s[2] % SizeOf(s[1]) = 0 /\ EndOf(s) <= SizeOf(tree.limit)
    <2>1. s[2] \in Nat /\ SizeOf(s[1]) \in Nat \ {0}
      BY <1>2, TileTypes
    <2>2. Spot(s[1], s[2]) /\ EndOf(s) <= SizeOf(tree.limit)
      BY <1>2 DEF Tiling
    <2>3. s[2] % SizeOf(s[1]) = 0
      BY <2>2, SpotTypes
    <2> QED BY <2>1, <2>2, <2>3 DEF AsBlock, EndOf
  <1>5. ASSUME NEW x \in Blocks, NEW y \in Blocks, x # y PROVE Apart(x, y)
    <2>1. PICK s \in B, u \in B : x = AsBlock(s) /\ y = AsBlock(u)
      BY <1>3
    <2>2. s # u
      BY <1>5, <2>1
    <2>3. EndOf(s) <= u[2] \/ EndOf(u) <= s[2]
      BY <1>2, <2>2 DEF Tiling
    <2> QED BY <1>4, <2>1, <2>3 DEF Apart
  <1>6. \A g, h \in handed : g.at = h.at => g = h
    BY DEF BuddyInv
  <1>7. ASSUME NEW g \in handed PROVE BlockOf(g) \notin ListedIn(tree)
    <2>1. PICK u : u = <<BucketFor(g.asked), g.at>>
      OBVIOUS
    <2>2. u \in Used(handed) /\ u \in B /\ BlockOf(g) = AsBlock(u)
      BY <1>2, <2>1, AsBlocks DEF Used
    <2>3. SUFFICES ASSUME NEW s \in FreeAt(tree), AsBlock(s) = AsBlock(u) PROVE FALSE
      BY <1>3, <2>2
    <2>4. s[2] = u[2] /\ s \in B
      BY <1>2, <1>4, <2>2, <2>3
    <2>5. s = u
      BY <1>2, <2>2, <2>4, TileOnce
    <2> QED BY <1>2, <2>2, <2>3, <2>5
  <1>8. ASSUME NEW b \in Buckets, NEW j \in DOMAIN tree.lists[b], NEW k \in DOMAIN tree.lists[b],
               tree.lists[b][j] = tree.lists[b][k]
        PROVE  j = k
    <2>1. tree.lists[b] \in Seq(Nat) /\ NoTwice(tree.lists[b])
      BY <1>2, TreeTypes DEF Once
    <2>2. j \in 1 .. Len(tree.lists[b]) /\ k \in 1 .. Len(tree.lists[b])
      BY <2>1
    <2> QED BY <1>8, <2>1, <2>2 DEF NoTwice
  <1>9. ASSUME NEW x \in Blocks PROVE x.at % x.size = 0 /\ x.at + x.size <= SizeOf(tree.limit)
    <2>1. PICK s \in B : x = AsBlock(s)
      BY <1>3
    <2> QED BY <1>4, <2>1
  <1>10. ASSUME NEW byte \in 0 .. SizeOf(tree.limit) - 1
         PROVE  \E x \in Blocks : byte \in x.at .. x.at + x.size - 1
    <2>1. PICK s \in B : s[2] <= byte /\ byte < EndOf(s)
      BY <1>2 DEF Tiling
    <2>2. AsBlock(s) \in Blocks
      BY <1>3
    <2>3. AsBlock(s).at = s[2] /\ AsBlock(s).size = SizeOf(s[1]) /\ s[2] \in Nat /\ SizeOf(s[1]) \in Nat
          /\ EndOf(s) = s[2] + SizeOf(s[1]) /\ byte \in Int
      BY <1>4
    <2>4. byte \in AsBlock(s).at .. AsBlock(s).at + AsBlock(s).size - 1
      BY <2>1, <2>3
    <2> QED BY <2>2, <2>4
  <1> QED BY <1>5, <1>6, <1>7, <1>8, <1>9, <1>10 DEF TilesRoot

\* What is handed out or linked lies in what was taken; its numbers are in range.
LEMMA WithinHolds ==
  ASSUME BuddyAssumption, RequestsAssumption, BuddyInv
  PROVE  BuddyTypeOK /\ WithinTaken
  <1>1. /\ tree \in Trees /\ Linked(FreeAt(tree), tree.max)
        /\ \A g \in handed : g.asked \in Requests /\ g.at + SizeOf(BucketFor(g.asked)) <= tree.max
    BY DEF BuddyInv, TreeOK
  <1>2. tree.lists \in [Buckets -> Seq(Nat)] /\ tree.limit \in Buckets /\ tree.max \in LinkBytes .. EndAt
    BY <1>1, TreeTypes
  <1>3. LinkBytes \in Nat /\ EndAt \in Nat
    BY Sizes DEF BuddyAssumption
  <1>4. ASSUME NEW b \in Buckets, NEW k \in DOMAIN tree.lists[b] PROVE tree.lists[b][k] \in 0 .. EndAt
    <2>1. tree.lists[b] \in Seq(Nat)
      BY <1>2
    <2>2. k \in 1 .. Len(tree.lists[b]) /\ tree.lists[b][k] \in Nat
      BY <2>1
    <2>3. PICK p \in Nat : p = tree.lists[b][k]
      BY <2>2
    <2>4. <<b, p>> \in FreeAt(tree) /\ <<b, p>>[2] = p
      BY <1>1, <2>2, <2>3, FreeIn
    <2>5. p + LinkBytes <= tree.max
      BY <1>1, <2>4 DEF Linked
    <2> QED BY <1>2, <1>3, <2>3, <2>5
  <1>5. ASSUME NEW g \in handed PROVE g.at + BlockOf(g).size <= tree.max
    BY <1>1 DEF BlockOf
  <1>6. ASSUME NEW x \in ListedIn(tree) PROVE x.at + LinkBytes <= tree.max
    <2>1. PICK s \in FreeAt(tree) : x = AsBlock(s)
      BY AsBlocks
    <2> QED BY <1>1, <2>1 DEF Linked, AsBlock
  <1>7. BuddyTypeOK
    BY <1>1, <1>2, <1>4 DEF BuddyTypeOK
  <1> QED BY <1>5, <1>6, <1>7 DEF WithinTaken

\* Two free neighbours of one size are children of two parents.
LEMMA MergedHolds ==
  ASSUME BuddyAssumption, BuddyInv
  PROVE  FullyMerged
  <1>1. TreeOK(tree, Used(handed)) /\ NoPairs(FreeAt(tree))
    BY DEF BuddyInv, TreeOK
  <1>2. SUFFICES ASSUME NEW x \in ListedIn(tree), NEW y \in ListedIn(tree), x.size = y.size, y.at = x.at + x.size
                 PROVE  (x.at \div x.size) % 2 = 1
    BY DEF FullyMerged
  <1>3. PICK s \in FreeAt(tree), u \in FreeAt(tree) : x = AsBlock(s) /\ y = AsBlock(u)
    BY AsBlocks
  <1>4. PICK b, p : b = s[1] /\ p = s[2]
    OBVIOUS
  <1>5. /\ s = <<b, p>> /\ b \in Buckets /\ p \in Nat /\ Spot(b, p) /\ u = <<u[1], u[2]>> /\ u[1] \in Buckets /\ u[2] \in Nat
        /\ Spot(u[1], u[2])
    BY <1>1, <1>3, <1>4, FreeTypes
  <1>6. x.at = p /\ x.size = SizeOf(b) /\ y.at = u[2] /\ y.size = SizeOf(u[1])
    BY <1>3, <1>4 DEF AsBlock
  <1>7. u[1] = b
    <2>1. PICK c : c = u[1]
      OBVIOUS
    <2>2. c \in Buckets /\ b \in Buckets /\ SizeOf(b) = SizeOf(c)
      BY <1>2, <1>5, <1>6, <2>1
    <2>3. b = c
      BY ONLY <2>2, SizesDiffer, BuddyAssumption
    <2> QED BY <2>1, <2>3
  <1>8. u = <<b, p + SizeOf(b)>> /\ SizeOf(b) \in Nat \ {0}
    BY <1>2, <1>5, <1>6, <1>7, Sizes
  <1>9. PICK k \in 0 .. TwoTo[b] - 1 : p = k * SizeOf(b)
    BY <1>5 DEF Spot
  <1>10. TwoTo[b] \in Nat \ {0} /\ k \in Nat
    BY <1>5, Sizes
  <1>11. p \div SizeOf(b) = k
    BY <1>8, <1>9, <1>10, Quotient
  <1>12. b # 0
    <2>1. SUFFICES ASSUME b = 0 PROVE FALSE
      OBVIOUS
    <2>2. u[2] \in Nat /\ Spot(0, u[2]) /\ u[2] = p + SizeOf(0) /\ SizeOf(0) \in Nat \ {0}
      BY <1>5, <1>7, <1>8, <2>1
    <2>3. PICK j \in 0 .. TwoTo[0] - 1 : u[2] = j * SizeOf(0)
      BY <2>2 DEF Spot
    <2>4. j = 0
      BY <2>3, Sizes
    <2> QED BY <1>5, <2>2, <2>3, <2>4
  <1>13. SUFFICES ASSUME k % 2 = 0 PROVE FALSE
    <2>1. k % 2 = 0 \/ k % 2 = 1
      BY <1>10
    <2> QED BY <1>6, <1>11, <1>13, <2>1
  <1>14. PICK h \in Nat : k = 2 * h
    <2>1. k = 2 * (k \div 2) /\ k \div 2 \in Nat
      BY <1>10, <1>13
    <2> QED BY <2>1
  <1>15. /\ b - 1 \in Buckets /\ b - 1 < Least /\ (b - 1) + 1 = b
         /\ SizeOf(b - 1) = 2 * SizeOf(b) /\ TwoTo[b] = 2 * TwoTo[b - 1] /\ TwoTo[b - 1] \in Nat \ {0}
    <2>1. b - 1 \in Buckets /\ b - 1 < Least /\ (b - 1) + 1 = b
      BY <1>5, <1>12, Sizes DEF Buckets
    <2> QED BY <1>5, <1>12, <2>1, Sizes
  <1>16. h \in 0 .. TwoTo[b - 1] - 1 /\ p = h * SizeOf(b - 1)
    BY <1>8, <1>9, <1>14, <1>15
  <1>17. Spot(b - 1, p)
    BY <1>15, <1>16 DEF Spot
  <1>18. ~ (<<(b - 1) + 1, p>> \in FreeAt(tree) /\ <<(b - 1) + 1, p + SizeOf((b - 1) + 1)>> \in FreeAt(tree))
    BY <1>1, <1>15, <1>17 DEF NoPairs
  <1> QED BY <1>3, <1>5, <1>8, <1>15, <1>18
-----------------------------------------------------------------------------
(***************************************************************************)
(* Whatever is asked for and given back, and however the tree splits,      *)
(* merges and grows: blocks given and free tile the root, in the memory    *)
(* taken, and no two free buddies are left apart (buddy_tree.hpp).         *)
(***************************************************************************)
THEOREM BuddyBlocksTile ==
  ASSUME BuddyAssumption, RequestsAssumption
  PROVE  BuddySpec => []BlocksTile
  <1>1. BuddyInit => BuddyInv
    <2>1. SUFFICES ASSUME BuddyInit PROVE BuddyInv
      OBVIOUS
    <2>2. tree = NewTree /\ handed = {}
      BY <2>1 DEF BuddyInit
    <2>3. Used(handed) = {}
      BY <2>2 DEF Used
    <2> QED BY <2>2, <2>3, StartsOK DEF BuddyInv
  <1>2. BuddyInv /\ [BuddyNext]_buddyVars => BuddyInv'
    <2>1. SUFFICES ASSUME BuddyInv, [BuddyNext]_buddyVars PROVE BuddyInv'
      OBVIOUS
    <2>2. ASSUME NEW request \in Requests, Malloc(request) PROVE BuddyInv'
      BY <2>1, <2>2, MallocInv
    <2>3. ASSUME NEW block \in handed, Free(block) PROVE BuddyInv'
      BY <2>1, <2>3, FreeInv
    <2>4. CASE UNCHANGED buddyVars
      BY <2>1, <2>4 DEF buddyVars, BuddyInv
    <2> QED BY <2>1, <2>2, <2>3, <2>4 DEF BuddyNext
  <1>3. BuddyInv => BlocksTile
    BY TilesHold, WithinHolds, MergedHolds DEF BlocksTile
  <1> QED BY <1>1, <1>2, <1>3, PTL DEF BuddySpec
-----------------------------------------------------------------------------
(***************************************************************************)
(* Sums over a finite set, an element at a time.  The library's sum takes  *)
(* one element away after another; which, does not matter.                 *)
(***************************************************************************)
Summed(S, w, it) ==
  it = [s \in SUBSET S |-> IF s = {} THEN 0 ELSE w[CHOOSE x \in s : TRUE] + it[s \ {CHOOSE x \in s : TRUE}]]

LEMMA SomeSummed ==
  ASSUME NEW S, IsFiniteSet(S), NEW w \in [S -> Nat]
  PROVE  \E it : Summed(S, w, it)
  <1> DEFINE N == Cardinality(S)
             T == [SUBSET S -> Nat]
             Step(f) == [s \in SUBSET S |-> IF s = {} THEN 0 ELSE w[CHOOSE x \in s : TRUE] + f[s \ {CHOOSE x \in s : TRUE}]]
             zero == [s \in SUBSET S |-> 0]
             step == [i \in 1 .. N |-> [f \in T |-> Step(f)]]
  <1>1. N \in Nat
    BY FS_CardinalityType
  <1>2. ASSUME NEW f \in T PROVE Step(f) \in T
    <2>1. ASSUME NEW s \in SUBSET S, s # {}
          PROVE  w[CHOOSE x \in s : TRUE] + f[s \ {CHOOSE x \in s : TRUE}] \in Nat
      <3>1. PICK y : y = CHOOSE x \in s : TRUE
        OBVIOUS
      <3>2. y \in s
        BY <2>1, <3>1
      <3>3. w[y] \in Nat /\ f[s \ {y}] \in Nat
        BY <3>2
      <3> QED BY <3>1, <3>3
    <2> QED BY <2>1
  <1>3. zero \in T
    OBVIOUS
  <1>4. StepsOn(step, N, T)
    BY <1>2 DEF StepsOn
  <1> HIDE DEF step, N, T, zero
  <1>5. PICK F : Follows(F, N, T, zero, step)
    BY <1>1, <1>3, <1>4, Recursion
  <1> USE DEF T
  <1>6. \A i \in 0 .. N : F[i] \in T
    BY <1>5 DEF Follows
  <1>7. ASSUME NEW i \in 1 .. N PROVE F[i] = Step(F[i - 1])
    <2>1. i - 1 \in 0 .. N
      BY <1>1
    <2>2. F[i] = step[i][F[i - 1]]
      BY <1>5 DEF Follows
    <2> HIDE DEF Step
    <2> QED BY <1>6, <2>1, <2>2 DEF step
  <1> DEFINE it == [s \in SUBSET S |-> F[Cardinality(s)][s]]
  <1>8. ASSUME NEW s \in SUBSET S
        PROVE it[s] = IF s = {} THEN 0 ELSE w[CHOOSE x \in s : TRUE] + it[s \ {CHOOSE x \in s : TRUE}]
    <2>1. IsFiniteSet(s) /\ Cardinality(s) \in 0 .. N
      BY FS_Subset, FS_CardinalityType, <1>1 DEF N
    <2>2. CASE s = {}
      <3>1. it[s] = F[0][s]
        BY <2>2, FS_EmptySet
      <3>2. F[0] = zero
        BY <1>5 DEF Follows
      <3> QED BY <2>2, <3>1, <3>2 DEF zero
    <2>3. CASE s # {}
      <3>1. PICK y : y = CHOOSE x \in s : TRUE
        OBVIOUS
      <3>2. y \in s /\ s \ {y} \in SUBSET S
        BY <2>3, <3>1
      <3>3. Cardinality(s \ {y}) = Cardinality(s) - 1 /\ Cardinality(s) # 0
        BY <2>1, <2>3, <3>2, FS_RemoveElement, FS_EmptySet
      <3>4. Cardinality(s) \in 1 .. N
        BY <1>1, <2>1, <3>3
      <3>5. F[Cardinality(s)][s] = w[y] + F[Cardinality(s) - 1][s \ {y}]
        <4>1. PICK n \in 1 .. N : n = Cardinality(s)
          BY <3>4
        <4>2. F[n] = Step(F[n - 1])
          BY <1>7
        <4>3. F[n][s] = w[y] + F[n - 1][s \ {y}]
          BY <2>3, <3>1, <4>2
        <4> QED BY <4>1, <4>3
      <3> QED BY <2>3, <3>1, <3>2, <3>3, <3>5
    <2> QED BY <2>2, <2>3
  <1> HIDE DEF it
  <1>9. it = [s \in SUBSET S |-> it[s]]
    BY DEF it
  <1>10. it = [s \in SUBSET S |-> IF s = {} THEN 0 ELSE w[CHOOSE x \in s : TRUE] + it[s \ {CHOOSE x \in s : TRUE}]]
    BY <1>8, <1>9
  <1> QED BY <1>10 DEF Summed

\* Whichever element is taken away first, it and the rest's sum are the sum.
AnyFirst(S, w, it) == it[{}] = 0 /\ \A s \in SUBSET S : it[s] \in Nat /\ \A y \in s : it[s] = w[y] + it[s \ {y}]

LEMMA TakenFirst ==
  ASSUME NEW S, IsFiniteSet(S), NEW w \in [S -> Nat], NEW it, Summed(S, w, it)
  PROVE  AnyFirst(S, w, it)
  <1> DEFINE N == Cardinality(S)
             OK(s) == it[s] \in Nat /\ \A y \in s : it[s] = w[y] + it[s \ {y}]
             P == {n \in 0 .. N : \A s \in SUBSET S : Cardinality(s) <= n => OK(s)}
  <1>1. N \in Nat
    BY FS_CardinalityType
  <1>2. \A s \in SUBSET S : IsFiniteSet(s) /\ Cardinality(s) \in 0 .. N
    BY FS_Subset, FS_CardinalityType
  <1>3. \A s \in SUBSET S : it[s] = IF s = {} THEN 0 ELSE w[CHOOSE x \in s : TRUE] + it[s \ {CHOOSE x \in s : TRUE}]
    BY DEF Summed
  <1>4. it[{}] = 0
    BY <1>3
  <1>5. 0 \in P
    <2>1. ASSUME NEW s \in SUBSET S, Cardinality(s) <= 0 PROVE OK(s)
      <3>1. s = {}
        BY <1>2, <2>1, FS_EmptySet
      <3> QED BY <1>4, <3>1
    <2> QED BY <1>1, <2>1
  <1> HIDE DEF N
  <1>6. ASSUME NEW n \in 1 .. N, n - 1 \in P PROVE n \in P
    <2>1. SUFFICES \A s \in SUBSET S : Cardinality(s) = n => OK(s)
      <3>1. SUFFICES ASSUME NEW s \in SUBSET S, Cardinality(s) <= n PROVE OK(s)
        BY <1>1
      <3>2. Cardinality(s) \in Nat
        BY <1>1, <1>2
      <3>3. Cardinality(s) = n \/ Cardinality(s) <= n - 1
        BY <1>1, <3>1, <3>2
      <3> HIDE DEF OK
      <3> QED BY <1>6, <2>1, <3>3
    <2>0. SUFFICES ASSUME NEW s \in SUBSET S, Cardinality(s) = n PROVE OK(s)
      OBVIOUS
    <2>2. s # {}
      BY <2>0, FS_EmptySet
    <2>3. PICK z : z = CHOOSE x \in s : TRUE
      OBVIOUS
    <2>4. z \in s
      BY <2>2, <2>3
    <2>5. it[s] = w[z] + it[s \ {z}]
      BY <1>3, <2>2, <2>3
    <2>6. ASSUME NEW y \in s PROVE s \ {y} \in SUBSET S /\ OK(s \ {y}) /\ \A x \in s \ {y} : OK((s \ {y}) \ {x})
      <3>1. Cardinality(s \ {y}) = n - 1
        BY <1>2, <2>0, FS_RemoveElement
      <3>2. ASSUME NEW x \in s \ {y} PROVE Cardinality((s \ {y}) \ {x}) = n - 1 - 1 /\ (s \ {y}) \ {x} \in SUBSET S
        <4>1. PICK u : u = s \ {y}
          OBVIOUS
        <4>2. IsFiniteSet(u) /\ x \in u /\ Cardinality(u) = n - 1
          BY <1>2, <3>1, <4>1
        <4>3. Cardinality(u \ {x}) = n - 1 - 1
          BY <4>2, FS_RemoveElement
        <4> QED BY <4>1, <4>3
      <3> HIDE DEF OK
      <3>3. n - 1 <= n - 1 /\ n - 1 - 1 <= n - 1
        BY <1>1
      <3> QED BY <1>6, <3>1, <3>2, <3>3
    <2>7. it[s] \in Nat
      <3>1. w[z] \in Nat /\ it[s \ {z}] \in Nat
        BY <2>4, <2>6
      <3> QED BY <2>5, <3>1
    <2>8. ASSUME NEW y \in s PROVE it[s] = w[y] + it[s \ {y}]
      <3>1. CASE y = z
        BY <2>5, <3>1
      <3>2. CASE y # z
        <4>1. y \in s \ {z} /\ z \in s \ {y} /\ (s \ {z}) \ {y} = (s \ {y}) \ {z}
          BY <2>4, <3>2
        <4>2. it[s \ {z}] = w[y] + it[(s \ {z}) \ {y}] /\ it[s \ {y}] = w[z] + it[(s \ {z}) \ {y}]
          <5>1. OK(s \ {z}) /\ OK(s \ {y})
            <6> HIDE DEF OK
            <6> QED BY <2>4, <2>6
          <5>2. \A x \in s \ {z} : it[s \ {z}] = w[x] + it[(s \ {z}) \ {x}]
            BY <5>1
          <5>3. \A x \in s \ {y} : it[s \ {y}] = w[x] + it[(s \ {y}) \ {x}]
            BY <5>1
          <5>4. it[s \ {y}] = w[z] + it[(s \ {y}) \ {z}] /\ it[s \ {z}] = w[y] + it[(s \ {z}) \ {y}]
            BY <4>1, <5>2, <5>3
          <5> HIDE DEF OK
          <5> QED BY <4>1, <5>4
        <4>3. w[y] \in Nat /\ w[z] \in Nat
          BY <2>4
        <4>4. PICK v : v = it[(s \ {z}) \ {y}]
          OBVIOUS
        <4>5. v \in Nat
          <5>1. OK((s \ {z}) \ {y})
            <6> HIDE DEF OK
            <6>1. \A x \in s \ {z} : OK((s \ {z}) \ {x})
              BY <2>4, <2>6
            <6> QED BY <4>1, <6>1
          <5> QED BY <4>4, <5>1
        <4> QED BY <2>5, <4>2, <4>3, <4>4, <4>5
      <3> QED BY <3>1, <3>2
    <2> QED BY <2>7, <2>8
  <1> HIDE DEF P
  <1>7. 0 .. N \subseteq P
    BY <1>1, <1>5, <1>6, UpTo
  <1> QED BY <1>2, <1>4, <1>7 DEF P, AnyFirst

\* The library's sum is one so made.
LEMMA SumIs ==
  ASSUME NEW S, IsFiniteSet(S), NEW w \in [S -> Nat]
  PROVE  \E it : Summed(S, w, it) /\ SumFunction(w) = it[S]
  <1>1. PICK it : it = CHOOSE f : Summed(S, w, f)
    OBVIOUS
  <1>2. Summed(S, w, it)
    BY <1>1, SomeSummed
  <1>3. SumFunction(w) = it[S]
    <2>1. DOMAIN w = S
      OBVIOUS
    <2>2. SumFunctionOnSet(w, S) = (CHOOSE f : Summed(S, w, f))[S]
      BY DEF SumFunctionOnSet, FoldFunctionOnSet, MapThenFoldSet, Summed
    <2> QED BY <1>1, <2>1, <2>2 DEF SumFunction
  <1> QED BY <1>2, <1>3

\* One more element adds its own; none, nothing.
LEMMA SumPut ==
  ASSUME NEW S, IsFiniteSet(S), NEW x, x \notin S, NEW f \in [S -> Nat], NEW h \in [S \cup {x} -> Nat],
         \A y \in S : h[y] = f[y]
  PROVE  SumFunction(f) \in Nat /\ SumFunction(h) \in Nat /\ SumFunction(h) = SumFunction(f) + h[x]
  <1> DEFINE T == S \cup {x}
             N == Cardinality(S)
  <1>1. IsFiniteSet(T) /\ N \in Nat
    BY FS_AddElement, FS_CardinalityType
  <1>2. PICK a : Summed(S, f, a) /\ SumFunction(f) = a[S]
    BY SumIs
  <1>3. PICK b : Summed(T, h, b) /\ SumFunction(h) = b[T]
    BY <1>1, SumIs
  <1>4. /\ a[{}] = 0
        /\ \A s \in SUBSET S : a[s] \in Nat /\ \A y \in s : a[s] = f[y] + a[s \ {y}]
    <2>1. AnyFirst(S, f, a)
      BY <1>2, TakenFirst
    <2> QED BY <2>1 DEF AnyFirst
  <1>5. /\ b[{}] = 0
        /\ \A s \in SUBSET T : b[s] \in Nat /\ \A y \in s : b[s] = h[y] + b[s \ {y}]
    <2>1. h \in [T -> Nat]
      OBVIOUS
    <2>2. AnyFirst(T, h, b)
      BY <1>1, <1>3, <2>1, TakenFirst
    <2> QED BY <2>2 DEF AnyFirst
  <1> DEFINE P == {n \in 0 .. N : \A s \in SUBSET S : Cardinality(s) = n => a[s] = b[s]}
  <1>6. \A s \in SUBSET S : IsFiniteSet(s) /\ Cardinality(s) \in 0 .. N
    BY FS_Subset, FS_CardinalityType, <1>1
  <1>7. 0 \in P
    <2>1. ASSUME NEW s \in SUBSET S, Cardinality(s) = 0 PROVE a[s] = b[s]
      BY <1>4, <1>5, <1>6, <2>1, FS_EmptySet
    <2> QED BY <1>1, <2>1
  <1> HIDE DEF N
  <1>8. ASSUME NEW n \in 1 .. N, n - 1 \in P PROVE n \in P
    <2>1. SUFFICES \A s \in SUBSET S : Cardinality(s) = n => a[s] = b[s]
      BY <1>1
    <2>2. SUFFICES ASSUME NEW s \in SUBSET S, Cardinality(s) = n PROVE a[s] = b[s]
      OBVIOUS
    <2>3. PICK y \in s : TRUE
      BY <2>2, FS_EmptySet
    <2>4. Cardinality(s \ {y}) = n - 1
      BY <1>6, <2>2, FS_RemoveElement
    <2>5. a[s \ {y}] = b[s \ {y}]
      BY <1>8, <2>4
    <2>6. a[s] = f[y] + a[s \ {y}]
      BY <1>4
    <2>7. b[s] = h[y] + b[s \ {y}]
      BY <1>5
    <2> QED BY <2>5, <2>6, <2>7
  <1> HIDE DEF P
  <1>9. 0 .. N \subseteq P
    BY <1>1, <1>7, <1>8, UpTo
  <1>10. a[S] = b[S]
    BY <1>6, <1>9 DEF P
  <1>11. T \ {x} = S /\ T \in SUBSET T /\ S \in SUBSET T /\ S \in SUBSET S /\ x \in T
    OBVIOUS
  <1>12. b[T] = h[x] + b[S]
    BY <1>5, <1>11
  <1>13. a[S] \in Nat /\ b[T] \in Nat /\ h[x] \in Nat
    BY <1>4, <1>5, <1>11
  <1> QED BY <1>2, <1>3, <1>10, <1>12, <1>13

LEMMA SumNone ==
  ASSUME NEW w, DOMAIN w = {}, w = [x \in {} |-> w[x]]
  PROVE  SumFunction(w) = 0
  <1>1. w \in [{} -> Nat] /\ IsFiniteSet({})
    BY FS_EmptySet
  <1>2. PICK it : Summed({}, w, it) /\ SumFunction(w) = it[{}]
    BY <1>1, SumIs
  <1> QED BY <1>1, <1>2, TakenFirst DEF AnyFirst
-----------------------------------------------------------------------------
\* Of powers of two, one times another; a class's sizes; a run's bucket.
LEMMA PowersTimes ==
  ASSUME BuddyAssumption, NEW m \in 0 .. MaxLog2, NEW n \in 0 .. MaxLog2, m + n <= MaxLog2
  PROVE  TwoTo[m + n] = TwoTo[m] * TwoTo[n]
  <1>1. MaxLog2 \in Nat
    BY DEF BuddyAssumption
  <1> DEFINE P == {i \in Nat : m + i <= MaxLog2 => TwoTo[m + i] = TwoTo[m] * TwoTo[i]}
  <1>2. 0 \in P
    BY <1>1, Powers
  <1>3. ASSUME NEW i \in 1 .. n, i - 1 \in P PROVE i \in P
    <2>1. SUFFICES ASSUME m + i <= MaxLog2 PROVE TwoTo[m + i] = TwoTo[m] * TwoTo[i]
      BY <1>1
    <2>2. TwoTo[m + (i - 1)] = TwoTo[m] * TwoTo[i - 1]
      BY <1>1, <1>3, <2>1
    <2>3. i \in 1 .. MaxLog2 /\ m + i \in 1 .. MaxLog2 /\ (m + i) - 1 = m + (i - 1) /\ i - 1 \in 0 .. MaxLog2
      BY <1>1, <2>1
    <2>4. TwoTo[i] = 2 * TwoTo[i - 1] /\ TwoTo[m + i] = 2 * TwoTo[m + (i - 1)]
      BY <2>3, Powers
    <2>5. TwoTo[m] \in Nat /\ TwoTo[i - 1] \in Nat
      BY <2>3, Powers
    <2> QED BY <2>2, <2>4, <2>5
  <1> HIDE DEF P
  <1>4. 0 .. n \subseteq P
    BY <1>1, <1>2, <1>3, UpTo
  <1>5. n \in P
    BY <1>1, <1>4
  <1> QED BY <1>5 DEF P

\* What a larger power goes into, a smaller one does.
LEMMA PowerDivides ==
  ASSUME BuddyAssumption, NEW m \in 0 .. MaxLog2, NEW n \in m .. MaxLog2, NEW k \in Nat
  PROVE  (k * TwoTo[n]) % TwoTo[m] = 0
  <1>1. MaxLog2 \in Nat /\ n - m \in 0 .. MaxLog2 /\ m + (n - m) = n
    BY DEF BuddyAssumption
  <1>2. TwoTo[n] = TwoTo[m] * TwoTo[n - m]
    <2>1. TwoTo[m + (n - m)] = TwoTo[m] * TwoTo[n - m]
      BY <1>1, PowersTimes
    <2> QED BY <1>1, <2>1
  <1>3. TwoTo[m] \in Nat \ {0} /\ TwoTo[n - m] \in Nat \ {0}
    BY <1>1, Powers
  <1>4. PICK a, b : a = TwoTo[m] /\ b = TwoTo[n - m]
    OBVIOUS
  <1>5. k * b \in Int /\ k * (a * b) = (k * b) * a
    BY <1>3, <1>4
  <1>6. ((k * b) * a) % a = 0
    BY <1>3, <1>4, <1>5, Quotient
  <1> QED BY <1>2, <1>4, <1>5, <1>6

\* A block's size is its own bucket's.
LEMMA BucketOfSize ==
  ASSUME BuddyAssumption, NEW b \in Buckets
  PROVE  BucketFor(SizeOf(b)) = b
  <1> DEFINE fits == {d \in Buckets : SizeOf(d) >= SizeOf(b)}
  <1>1. \A d \in Buckets : d \in Int /\ SizeOf(d) \in Nat \ {0}
    BY Sizes DEF Buckets
  <1>2. b \in fits
    BY <1>1
  <1>3. ASSUME NEW d \in fits PROVE b >= d
    <2>1. SUFFICES ASSUME b < d PROVE FALSE
      BY <1>1
    <2>2. 2 * SizeOf(d) <= SizeOf(b)
      BY <1>1, <2>1, SizesFall
    <2>3. SizeOf(d) \in Nat \ {0} /\ SizeOf(b) \in Nat \ {0} /\ SizeOf(d) >= SizeOf(b)
      BY <1>1
    <2> QED BY <2>2, <2>3
  <1>4. Max(fits) \in fits /\ \A y \in fits : Max(fits) >= y
    <2>1. \E x \in fits : \A y \in fits : x >= y
      BY <1>2, <1>3
    <2> HIDE DEF fits
    <2> QED BY <2>1 DEF Max
  <1>5. Max(fits) = b
    BY <1>1, <1>2, <1>3, <1>4
  <1> QED BY <1>5 DEF BucketFor

\* What there is of every class that has a head.
ClassSizes(c) ==
  /\ ClassBytes(c) \in Nat \ {0} /\ RunSize(c) \in Nat \ {0} /\ SlotsOf(c) \in Nat \ {0} /\ HeadSlots(c) \in Nat \ {0}
  /\ HeadSlots(c) < SlotsOf(c) /\ RunSize(c) = SlotsOf(c) * ClassBytes(c) /\ RunBytes <= HeadSlots(c) * ClassBytes(c)
  /\ BucketFor(RunSize(c)) \in Buckets /\ SizeOf(BucketFor(RunSize(c))) = RunSize(c) /\ RunSize(c) <= SizeOf(0)
  /\ RunBytes \in Nat \ {0}

\* A class's runs are blocks, of whole slots, and one at least past the header.
LEMMA ClassesSized ==
  ASSUME BuddyAssumption, SlabAssumption, NEW c \in Classes
  PROVE  ClassSizes(c)
  <1>1. /\ MinLog2 \in Nat /\ MaxLog2 \in Nat /\ MinLog2 < MaxLog2 /\ MinClassLog2 \in Nat /\ MinClassLog2 <= MinLog2
        /\ MinSlotsLog2 \in Nat /\ MinLog2 + MinSlotsLog2 <= MaxLog2 /\ RunBytes \in Nat \ {0} /\ HeadSlots(c) < SlotsOf(c)
        /\ c \in 0 .. MinLog2 - MinClassLog2
    BY DEF BuddyAssumption, SlabAssumption, Classes
  <1>2. PICK n : n = MinClassLog2 + c
    OBVIOUS
  <1>3. n \in 0 .. MinLog2 /\ n \in 0 .. MaxLog2 /\ n \in Nat
    BY <1>1, <1>2
  <1>4. PICK l : l = RunLog2(c)
    OBVIOUS
  <1>5. l = IF n + MinSlotsLog2 >= MinLog2 THEN n + MinSlotsLog2 ELSE MinLog2
    BY <1>2, <1>4 DEF RunLog2, Larger
  <1>6. l \in MinLog2 .. MaxLog2 /\ l - n \in 0 .. MaxLog2 /\ n + (l - n) = l /\ l \in 0 .. MaxLog2
    BY <1>1, <1>3, <1>5
  <1>7. ClassBytes(c) = TwoTo[n] /\ SlotsOf(c) = TwoTo[l - n] /\ RunSize(c) = TwoTo[l]
    BY <1>2, <1>4 DEF ClassBytes, SlotsOf, RunSize
  <1>8. TwoTo[n] \in Nat \ {0} /\ TwoTo[l - n] \in Nat \ {0} /\ TwoTo[l] \in Nat \ {0}
    BY <1>3, <1>6, Powers
  <1>9. TwoTo[l] = TwoTo[n] * TwoTo[l - n]
    <2>1. TwoTo[n + (l - n)] = TwoTo[n] * TwoTo[l - n]
      BY <1>1, <1>3, <1>6, PowersTimes
    <2> QED BY <1>6, <2>1
  <1>10. RunSize(c) = SlotsOf(c) * ClassBytes(c)
    BY <1>7, <1>8, <1>9
  <1>11. HeadSlots(c) \in Nat \ {0} /\ RunBytes <= HeadSlots(c) * ClassBytes(c)
    <2>1. PICK s, y, h : s = ClassBytes(c) /\ y = RunBytes + s - 1 /\ h = y \div s
      OBVIOUS
    <2>2. s \in Nat \ {0} /\ RunBytes \in Nat \ {0} /\ y \in Int /\ y >= s
      BY <1>1, <1>7, <1>8, <2>1
    <2>3. y = s * h + (y % s) /\ y % s \in 0 .. s - 1 /\ h \in Int
      BY <2>1, <2>2, DivMod
    <2>4. s * h >= RunBytes
      BY <2>1, <2>2, <2>3
    <2>5. h >= 1
      <3>1. SUFFICES ASSUME h <= 0 PROVE FALSE
        BY <2>3
      <3>2. s * h <= 0
        BY <2>2, <2>3, <3>1
      <3> QED BY <2>2, <2>3, <2>4, <3>2
    <2>6. HeadSlots(c) = h /\ s * h = h * s
      BY <2>1, <2>2, <2>3 DEF HeadSlots
    <2> QED BY <2>1, <2>3, <2>4, <2>5, <2>6
  <1>12. PICK b : b = MaxLog2 - l
    OBVIOUS
  <1>13. b \in Buckets /\ SizeOf(b) = RunSize(c) /\ 0 \in Buckets /\ 0 <= b
    <2>1. b \in Buckets /\ 0 \in Buckets /\ MaxLog2 - b = l
      BY <1>1, <1>6, <1>12 DEF Buckets, Least
    <2> QED BY <1>7, <2>1 DEF SizeOf, Buckets
  <1>14. BucketFor(RunSize(c)) = b
    BY <1>13, BucketOfSize
  <1>15. RunSize(c) <= SizeOf(0)
    BY <1>13, SizesFall
  <1> QED BY <1>1, <1>7, <1>8, <1>10, <1>11, <1>13, <1>14, <1>15 DEF ClassSizes

\* The class a request below a page falls in is large enough, and a multiple of its alignment.
LEMMA ClassFits ==
  ASSUME BuddyAssumption, SlabAssumption, NEW bytes \in AllocSizes, NEW align \in Aligns, IsSlot(bytes, align)
  PROVE  /\ ClassFor(bytes, align) \in 0 .. MinLog2 - MinClassLog2
         /\ bytes <= ClassBytes(ClassFor(bytes, align))
         /\ align \in Nat \ {0} /\ \A k \in Nat : (k * ClassBytes(ClassFor(bytes, align))) % align = 0
  <1>1. /\ MinLog2 \in Nat /\ MaxLog2 \in Nat /\ MinLog2 < MaxLog2 /\ MinClassLog2 \in Nat /\ MinClassLog2 <= MinLog2
        /\ bytes \in Nat /\ align \in Nat /\ (align <= TwoTo[MinLog2] => \E n \in 0 .. MinLog2 : align = TwoTo[n])
    BY DEF BuddyAssumption, SlabAssumption
  <1>2. PICK need : need = Need(bytes, align)
    OBVIOUS
  <1>3. need \in Nat /\ need >= bytes /\ need >= align /\ need < TwoTo[MinLog2]
    BY <1>1, <1>2 DEF Need, Larger, IsSlot
  <1>4. PICK S : S = {c \in 0 .. MinLog2 - MinClassLog2 : ClassBytes(c) >= need}
    OBVIOUS
  <1>5. MinLog2 - MinClassLog2 \in S
    <2>1. MinClassLog2 + (MinLog2 - MinClassLog2) = MinLog2 /\ TwoTo[MinLog2] \in Nat
      BY <1>1, Powers
    <2>2. ClassBytes(MinLog2 - MinClassLog2) = TwoTo[MinLog2]
      BY <2>1 DEF ClassBytes
    <2> QED BY <1>1, <1>3, <1>4, <2>1, <2>2
  <1>6. S \subseteq Nat /\ S # {}
    BY <1>1, <1>4, <1>5
  <1>7. \E x \in S : \A y \in S : x <= y
    BY <1>6, LeastOf
  <1>8. PICK c : c = Min(S)
    OBVIOUS
  <1>9. c \in S
    BY <1>7, <1>8 DEF Min
  <1>10. ClassFor(bytes, align) = c
    BY <1>2, <1>4, <1>8 DEF ClassFor
  <1>11. c \in 0 .. MinLog2 - MinClassLog2 /\ ClassBytes(c) >= need
    BY <1>4, <1>9
  <1>12. PICK n : n = MinClassLog2 + c
    OBVIOUS
  <1>13. n \in 0 .. MinLog2 /\ n \in 0 .. MaxLog2 /\ ClassBytes(c) = TwoTo[n] /\ TwoTo[n] \in Nat
    <2>1. n \in 0 .. MinLog2 /\ n \in 0 .. MaxLog2
      BY <1>1, <1>11, <1>12
    <2> QED BY <1>12, <2>1, Powers DEF ClassBytes
  <1>14. TwoTo[MinLog2] \in Nat
    BY <1>1, Powers
  <1>15. PICK m \in 0 .. MinLog2 : align = TwoTo[m]
    BY <1>1, <1>3, <1>14
  <1>16. m \in 0 .. MaxLog2 /\ align \in Nat \ {0}
    BY <1>1, <1>15, Powers
  <1>17. m <= n
    <2>1. SUFFICES ASSUME n < m PROVE FALSE
      BY <1>13, <1>15
    <2>2. m \in 1 .. MaxLog2 /\ n \in 0 .. MaxLog2 /\ m - 1 \in 0 .. MaxLog2 /\ n <= m - 1
      BY <1>1, <1>13, <1>16, <2>1
    <2>3. TwoTo[m] = 2 * TwoTo[m - 1] /\ TwoTo[m - 1] \in Nat \ {0} /\ TwoTo[n] <= TwoTo[m - 1]
      BY <2>2, Powers, PowersGrow
    <2> QED BY <1>3, <1>11, <1>13, <1>15, <1>16, <2>3
  <1>18. ASSUME NEW k \in Nat PROVE (k * ClassBytes(c)) % align = 0
    <2>1. n \in m .. MaxLog2
      BY <1>13, <1>16, <1>17
    <2> QED BY <1>13, <1>15, <1>16, <2>1, PowerDivides
  <1>19. bytes <= ClassBytes(c)
    BY <1>1, <1>3, <1>11, <1>13
  <1> QED BY <1>10, <1>11, <1>16, <1>18, <1>19

\* A block of a page or more is aligned to any alignment up to a page.
LEMMA BlockAligned ==
  ASSUME BuddyAssumption, SlabAssumption, NEW align \in Aligns, align <= TwoTo[MinLog2], NEW b, NEW p, Spot(b, p)
  PROVE  align \in Nat \ {0} /\ p % align = 0
  <1>1. MinLog2 \in Nat /\ MaxLog2 \in Nat /\ MinLog2 < MaxLog2 /\ \E n \in 0 .. MinLog2 : align = TwoTo[n]
    BY DEF BuddyAssumption, SlabAssumption
  <1>2. PICK m \in 0 .. MinLog2 : align = TwoTo[m]
    BY <1>1
  <1>3. PICK k \in 0 .. TwoTo[b] - 1 : p = k * SizeOf(b)
    BY DEF Spot
  <1>4. b \in Buckets /\ TwoTo[b] \in Nat
    BY Sizes DEF Spot
  <1>5. MaxLog2 - b \in m .. MaxLog2 /\ m \in 0 .. MaxLog2 /\ k \in Nat
    BY <1>1, <1>3, <1>4 DEF Buckets, Least
  <1>6. (k * TwoTo[MaxLog2 - b]) % TwoTo[m] = 0
    BY <1>5, PowerDivides
  <1> QED BY <1>2, <1>3, <1>5, <1>6, Powers DEF SizeOf

\* An address within a run finds it by its mask.
LEMMA RunFound ==
  ASSUME BuddyAssumption, SlabAssumption, NEW c \in Classes, NEW r, Spot(BucketFor(RunSize(c)), r),
         NEW off \in 0 .. RunSize(c) - 1
  PROVE  RunAt(r + off, c) = r
  <1>1. ClassSizes(c)
    BY ClassesSized
  <1>2. PICK s : s = RunSize(c)
    OBVIOUS
  <1>3. s \in Nat \ {0} /\ SizeOf(BucketFor(RunSize(c))) = s /\ BucketFor(RunSize(c)) \in Buckets
    BY <1>1, <1>2 DEF ClassSizes
  <1>4. PICK k \in 0 .. TwoTo[BucketFor(RunSize(c))] - 1 : r = k * s
    BY <1>3 DEF Spot
  <1>5. k \in Nat
    BY <1>3, <1>4, Sizes
  <1>6. PICK x : x = r + off
    OBVIOUS
  <1>7. x \in Int /\ x = s * k + off /\ off \in 0 .. s - 1
    BY <1>2, <1>3, <1>4, <1>5, <1>6
  <1>8. x % s = off
    <2>1. (s * k + off) % s = off
      BY <1>3, <1>5, <1>7, Remainder
    <2> QED BY <1>7, <2>1
  <1>9. x = s * (x \div s) + (x % s) /\ x \div s \in Int
    BY <1>3, <1>7, DivMod
  <1>10. s * (x \div s) = r
    BY <1>3, <1>4, <1>5, <1>7, <1>8, <1>9
  <1>11. (x \div s) * s = r
    BY <1>3, <1>9, <1>10
  <1> QED BY <1>2, <1>6, <1>11 DEF RunAt
-----------------------------------------------------------------------------
(***************************************************************************)
(* The lists through the headers: a class's is a sequence of runs, of      *)
(* which the head is the first, and each run's links are its neighbours.   *)
(***************************************************************************)
Headers == [prev : Int, next : Int, free : Seq(Nat), inuse : Nat]

HeadsOK(h) ==
  /\ h = [runs |-> h.runs, partial |-> h.partial]
  /\ h.runs \in [DOMAIN h.runs -> Headers] /\ DOMAIN h.runs \subseteq Nat
  /\ h.partial \in [Classes -> Int]

Chain(h, c, l) ==
  /\ l \in Seq(DOMAIN h.runs) /\ NoTwice(l)
  /\ h.partial[c] = IF l = <<>> THEN NoRun ELSE l[1]
  /\ \A i \in 1 .. Len(l) : /\ h.runs[l[i]].prev = IF i = 1 THEN NoRun ELSE l[i - 1]
                            /\ h.runs[l[i]].next = IF i = Len(l) THEN NoRun ELSE l[i + 1]

Runs(l) == {l[i] : i \in 1 .. Len(l)}

\* Every class lists those of `Y` that are of it.
Lists(h, cls, Y) ==
  /\ HeadsOK(h) /\ cls \in [DOMAIN h.runs -> Classes] /\ Y \subseteq DOMAIN h.runs
  /\ \A c \in Classes : \E l : Chain(h, c, l) /\ Runs(l) = {r \in Y : cls[r] = c}

\* What a chain says of its runs and of its head.
LEMMA ChainTypes ==
  ASSUME NEW h, HeadsOK(h), NEW c \in Classes, NEW l, Chain(h, c, l)
  PROVE  /\ l \in Seq(Nat) /\ Len(l) \in Nat /\ Runs(l) \subseteq DOMAIN h.runs
         /\ \A i \in 1 .. Len(l) : l[i] \in DOMAIN h.runs /\ l[i] \in Nat /\ l[i] \in Runs(l)
         /\ h.partial[c] \in Int /\ (h.partial[c] = NoRun <=> l = <<>>)
         /\ l # <<>> => 1 \in 1 .. Len(l) /\ h.partial[c] = l[1] /\ h.partial[c] \in DOMAIN h.runs
  <1>2. DOMAIN h.runs \subseteq Nat /\ h.partial \in [Classes -> Int]
    BY DEF HeadsOK
  <1>3. l \in Seq(DOMAIN h.runs)
    BY DEF Chain
  <1>5. /\ l \in Seq(DOMAIN h.runs) /\ l \in Seq(Nat) /\ Len(l) \in Nat
        /\ \A i \in 1 .. Len(l) : l[i] \in DOMAIN h.runs /\ l[i] \in Nat
    BY <1>2, <1>3
  <1>6. l # <<>> => 1 \in 1 .. Len(l)
    BY <1>5
  <1>7. h.partial[c] = IF l = <<>> THEN NoRun ELSE l[1]
    BY DEF Chain
  <1>8. NoRun \notin Nat
    BY DEF NoRun
  <1>9. h.partial[c] \in Int
    BY <1>2
  <1>10. (h.partial[c] = NoRun <=> l = <<>>) /\ (l # <<>> => h.partial[c] = l[1] /\ h.partial[c] \in DOMAIN h.runs)
    BY <1>5, <1>6, <1>7, <1>8
  <1> QED BY <1>5, <1>6, <1>9, <1>10 DEF Runs

\* A list whose runs and head are as they were.
SameLinks(g, h, x) == x \in DOMAIN g.runs /\ g.runs[x].prev = h.runs[x].prev /\ g.runs[x].next = h.runs[x].next

\* A chain is unmoved by what moves no link of its runs.
LEMMA ChainStands ==
  ASSUME NEW h, HeadsOK(h), NEW c \in Classes, NEW l, Chain(h, c, l),
         NEW g, g.partial[c] = h.partial[c], \A x \in Runs(l) : SameLinks(g, h, x)
  PROVE  Chain(g, c, l)
  <1>1. l \in Seq(Nat) /\ Len(l) \in Nat /\ \A i \in 1 .. Len(l) : l[i] \in Runs(l)
    BY ChainTypes
  <1>2. \A i \in 1 .. Len(l) : /\ l[i] \in DOMAIN g.runs
                               /\ g.runs[l[i]].prev = h.runs[l[i]].prev /\ g.runs[l[i]].next = h.runs[l[i]].next
    BY <1>1 DEF SameLinks
  <1>3. l \in Seq(DOMAIN g.runs)
    BY <1>1, <1>2, IsASeq, SeqDef
  <1> QED BY <1>2, <1>3 DEF Chain

\* Lists are unmoved by what moves no link of theirs.
LEMMA ListsStand ==
  ASSUME NEW h, NEW cls, NEW Y, Lists(h, cls, Y), NEW g, NEW kinds, HeadsOK(g), kinds \in [DOMAIN g.runs -> Classes],
         g.partial = h.partial, \A x \in Y : SameLinks(g, h, x) /\ kinds[x] = cls[x]
  PROVE  Lists(g, kinds, Y)
  <1>1. Y \subseteq DOMAIN g.runs
    BY DEF SameLinks
  <1>2. ASSUME NEW c \in Classes PROVE \E l : Chain(g, c, l) /\ Runs(l) = {r \in Y : kinds[r] = c}
    <2>1. PICK l : Chain(h, c, l) /\ Runs(l) = {r \in Y : cls[r] = c}
      BY DEF Lists
    <2>2. Runs(l) = {r \in Y : kinds[r] = c}
      BY <2>1
    <2>3. HeadsOK(h) /\ \A x \in Runs(l) : SameLinks(g, h, x)
      BY <2>1 DEF Lists
    <2>4. Chain(g, c, l)
      BY <2>1, <2>3, ChainStands
    <2> QED BY <2>2, <2>4
  <1> QED BY <1>1, <1>2 DEF Lists

\* What a step on the links leaves of each header, and what it makes of its links.
Relinked(g, h) ==
  /\ HeadsOK(g) /\ DOMAIN g.runs = DOMAIN h.runs
  /\ \A x \in DOMAIN h.runs : g.runs[x].free = h.runs[x].free /\ g.runs[x].inuse = h.runs[x].inuse

\* Headers, a field at a time.
LEMMA HeaderTypes ==
  ASSUME NEW h, HeadsOK(h)
  PROVE  /\ \A x \in DOMAIN h.runs : /\ h.runs[x].prev \in Int /\ h.runs[x].next \in Int
                                     /\ h.runs[x].free \in Seq(Nat) /\ h.runs[x].inuse \in Nat /\ x \in Nat
         /\ \A c \in Classes : h.partial[c] \in Int
         /\ NoRun \in Int /\ NoRun \notin Nat
  <1>1. ASSUME NEW x \in DOMAIN h.runs PROVE h.runs[x] \in Headers /\ x \in Nat
    BY DEF HeadsOK
  <1>2. \A e \in Headers : e.prev \in Int /\ e.next \in Int /\ e.free \in Seq(Nat) /\ e.inuse \in Nat
    BY DEF Headers
  <1>3. \A c \in Classes : h.partial[c] \in Int
    BY DEF HeadsOK
  <1> QED BY <1>1, <1>2, <1>3 DEF NoRun

\* Headers given field by field.
ByField(g, D, P, N, F, U, heads) ==
  g = [runs |-> [x \in D |-> [prev |-> P[x], next |-> N[x], free |-> F[x], inuse |-> U[x]]], partial |-> heads]

HasFields(g, D, P, N, F, U, heads) ==
  /\ HeadsOK(g) /\ DOMAIN g.runs = D /\ g.partial = heads
  /\ \A x \in D : g.runs[x].prev = P[x] /\ g.runs[x].next = N[x] /\ g.runs[x].free = F[x] /\ g.runs[x].inuse = U[x]

FieldTypes(D, P, N, F, U, heads) ==
  /\ D \in SUBSET Nat /\ P \in [D -> Int] /\ N \in [D -> Int] /\ F \in [D -> Seq(Nat)] /\ U \in [D -> Nat]
  /\ heads \in [Classes -> Int]

LEMMA HeadersFrom ==
  ASSUME NEW D, NEW P, NEW N, NEW F, NEW U, NEW heads, NEW g,
         FieldTypes(D, P, N, F, U, heads), ByField(g, D, P, N, F, U, heads)
  PROVE  HasFields(g, D, P, N, F, U, heads)
  <1> USE DEF FieldTypes
  <1>1. g.runs = [x \in D |-> [prev |-> P[x], next |-> N[x], free |-> F[x], inuse |-> U[x]]] /\ g.partial = heads
    BY DEF ByField
  <1>2. \A x \in D : [prev |-> P[x], next |-> N[x], free |-> F[x], inuse |-> U[x]] \in Headers
    BY DEF Headers
  <1>3. g.runs \in [D -> Headers]
    BY <1>1, <1>2
  <1>4. DOMAIN g.runs = D /\ g = [runs |-> g.runs, partial |-> g.partial]
    BY <1>1 DEF ByField
  <1>5. HeadsOK(g)
    BY <1>1, <1>3, <1>4 DEF HeadsOK
  <1> QED BY <1>1, <1>4, <1>5 DEF HasFields

Pushes(g, h, c, r) ==
  /\ Relinked(g, h) /\ g.partial = [h.partial EXCEPT ![c] = r]
  /\ \A x \in DOMAIN h.runs :
       /\ g.runs[x].next = IF x = r THEN h.partial[c] ELSE h.runs[x].next
       /\ g.runs[x].prev = IF x = r THEN NoRun ELSE IF x = h.partial[c] THEN r ELSE h.runs[x].prev

\* What a push changes, a header at a time.
LEMMA PushFields ==
  ASSUME NEW h, HeadsOK(h), NEW c \in Classes, NEW r \in DOMAIN h.runs
  PROVE  Pushes(PushPartial(h, c, r), h, c, r)
  <1>1. PICK D, q : D = DOMAIN h.runs /\ q = h.partial[c]
    OBVIOUS
  <1> DEFINE P == [x \in D |-> IF x = r THEN NoRun ELSE IF x = q THEN r ELSE h.runs[x].prev]
             N == [x \in D |-> IF x = r THEN q ELSE h.runs[x].next]
             F == [x \in D |-> h.runs[x].free]
             U == [x \in D |-> h.runs[x].inuse]
             heads == [h.partial EXCEPT ![c] = r]
             g == [runs |-> [x \in D |-> [prev |-> P[x], next |-> N[x], free |-> F[x], inuse |-> U[x]]], partial |-> heads]
  <1>2. D \in SUBSET Nat /\ q \in Int /\ r \in Nat
    BY <1>1, HeaderTypes DEF HeadsOK
  <1>3. P \in [D -> Int] /\ N \in [D -> Int] /\ F \in [D -> Seq(Nat)] /\ U \in [D -> Nat]
    BY <1>1, <1>2, HeaderTypes
  <1>4. heads \in [Classes -> Int]
    BY <1>2 DEF HeadsOK
  <1>5. g = PushPartial(h, c, r)
    BY <1>1 DEF PushPartial
  <1>6. HasFields(g, D, P, N, F, U, heads)
    <2>1. ByField(g, D, P, N, F, U, heads)
      BY DEF ByField
    <2> HIDE DEF P, N, F, U, heads, g
    <2>2. FieldTypes(D, P, N, F, U, heads)
      BY <1>2, <1>3, <1>4 DEF FieldTypes
    <2> QED BY <2>1, <2>2, HeadersFrom
  <1> HIDE DEF g
  <1> QED BY <1>1, <1>5, <1>6 DEF Pushes, Relinked, HasFields

Drops(g, h, c, r) ==
  /\ Relinked(g, h)
  /\ g.partial = IF h.runs[r].prev = NoRun THEN [h.partial EXCEPT ![c] = h.runs[r].next] ELSE h.partial
  /\ \A x \in DOMAIN h.runs :
       /\ g.runs[x].next = IF x = h.runs[r].prev THEN h.runs[r].next ELSE h.runs[x].next
       /\ g.runs[x].prev = IF x = h.runs[r].next THEN h.runs[r].prev ELSE h.runs[x].prev

\* What a drop changes, a header at a time.
LEMMA DropFields ==
  ASSUME NEW h, HeadsOK(h), NEW c \in Classes, NEW r \in DOMAIN h.runs
  PROVE  Drops(DropPartial(h, c, r), h, c, r)
  <1>1. PICK D, p, n : D = DOMAIN h.runs /\ p = h.runs[r].prev /\ n = h.runs[r].next
    OBVIOUS
  <1> DEFINE P == [x \in D |-> IF x = n THEN p ELSE h.runs[x].prev]
             N == [x \in D |-> IF x = p THEN n ELSE h.runs[x].next]
             F == [x \in D |-> h.runs[x].free]
             U == [x \in D |-> h.runs[x].inuse]
             heads == IF p = NoRun THEN [h.partial EXCEPT ![c] = n] ELSE h.partial
             g == [runs |-> [x \in D |-> [prev |-> P[x], next |-> N[x], free |-> F[x], inuse |-> U[x]]], partial |-> heads]
  <1>2. D \in SUBSET Nat /\ p \in Int /\ n \in Int /\ r \in Nat
    BY <1>1, HeaderTypes DEF HeadsOK
  <1>3. P \in [D -> Int] /\ N \in [D -> Int] /\ F \in [D -> Seq(Nat)] /\ U \in [D -> Nat]
    BY <1>1, <1>2, HeaderTypes
  <1>4. heads \in [Classes -> Int]
    BY <1>2 DEF HeadsOK
  <1>5. g = DropPartial(h, c, r)
    BY <1>1 DEF DropPartial
  <1>6. HasFields(g, D, P, N, F, U, heads)
    <2>1. ByField(g, D, P, N, F, U, heads)
      BY DEF ByField
    <2> HIDE DEF P, N, F, U, heads, g
    <2>2. FieldTypes(D, P, N, F, U, heads)
      BY <1>2, <1>3, <1>4 DEF FieldTypes
    <2> QED BY <2>1, <2>2, HeadersFrom
  <1> HIDE DEF g
  <1> QED BY <1>1, <1>5, <1>6 DEF Drops, Relinked, HasFields
-----------------------------------------------------------------------------
\* One put before the rest, and one taken from among them.
Put(m, l, x) ==
  /\ Len(m) = Len(l) + 1 /\ m[1] = x /\ \A i \in 1 .. Len(l) : m[i + 1] = l[i]
  /\ NoTwice(m) /\ Runs(m) = Runs(l) \cup {x}

\* A sequence with an element put before it.
LEMMA PutFirst ==
  ASSUME NEW S, NEW l \in Seq(S), NEW x \in S, NoTwice(l), x \notin Runs(l)
  PROVE  <<x>> \o l \in Seq(S) /\ Put(<<x>> \o l, l, x) /\ Len(l) \in Nat
  <1>1. PICK m : m = <<x>> \o l
    OBVIOUS
  <1>2. PICK n : n = Len(l)
    OBVIOUS
  <1>3. n \in Nat /\ m \in Seq(S) /\ Len(m) = n + 1 /\ m[1] = x /\ \A i \in 1 .. n : m[i + 1] = l[i]
    <2>1. m \in Seq(S) /\ Len(m) = 1 + n /\ n \in Nat
      BY <1>1, <1>2
    <2>2. m[1] = x
      BY <1>1
    <2>3. ASSUME NEW i \in 1 .. n PROVE m[i + 1] = l[i]
      BY <1>1, <1>2
    <2> QED BY <2>1, <2>2, <2>3
  <1>4. \A i \in 2 .. n + 1 : i - 1 \in 1 .. n /\ m[i] = l[i - 1]
    <2>1. ASSUME NEW i \in 2 .. n + 1 PROVE i - 1 \in 1 .. n /\ m[i] = l[i - 1]
      <3>1. i - 1 \in 1 .. n /\ (i - 1) + 1 = i
        BY <1>3
      <3> QED BY <1>3, <3>1
    <2> QED BY <2>1
  <1>5. \A i \in 1 .. n : l[i] # x
    BY <1>2 DEF Runs
  <1>6. NoTwice(m)
    <2>1. SUFFICES ASSUME NEW j \in 1 .. n + 1, NEW k \in 1 .. n + 1, m[j] = m[k] PROVE j = k
      BY <1>3 DEF NoTwice
    <2>2. j = 1 \/ j \in 2 .. n + 1
      BY <1>3
    <2>3. k = 1 \/ k \in 2 .. n + 1
      BY <1>3
    <2>4. CASE j \in 2 .. n + 1 /\ k \in 2 .. n + 1
      <3>1. j - 1 \in 1 .. n /\ k - 1 \in 1 .. n /\ l[j - 1] = l[k - 1]
        BY <1>4, <2>1, <2>4
      <3>2. j - 1 = k - 1
        BY <1>2, <3>1 DEF NoTwice
      <3> QED BY <3>2
    <2> QED BY <1>3, <1>4, <1>5, <2>1, <2>2, <2>3, <2>4
  <1>7. Runs(m) = Runs(l) \cup {x}
    <2>1. ASSUME NEW y \in Runs(m) PROVE y \in Runs(l) \cup {x}
      <3>1. PICK i \in 1 .. n + 1 : y = m[i]
        BY <1>3 DEF Runs
      <3>2. i = 1 \/ i \in 2 .. n + 1
        BY <1>3
      <3> QED BY <1>2, <1>3, <1>4, <3>1, <3>2 DEF Runs
    <2>2. x \in Runs(m)
      <3>1. 1 \in 1 .. Len(m)
        BY <1>3
      <3> QED BY <1>3, <3>1 DEF Runs
    <2>3. ASSUME NEW y \in Runs(l) PROVE y \in Runs(m)
      <3>1. PICK i \in 1 .. n : y = l[i]
        BY <1>2 DEF Runs
      <3>2. i + 1 \in 1 .. Len(m) /\ y = m[i + 1]
        BY <1>3, <3>1
      <3> QED BY <3>2 DEF Runs
    <2> QED BY <2>1, <2>2, <2>3
  <1> QED BY <1>1, <1>2, <1>3, <1>6, <1>7 DEF Put

Taken1(m, l, j) ==
  /\ Len(m) = Len(l) - 1 /\ \A i \in 1 .. Len(l) - 1 : m[i] = IF i < j THEN l[i] ELSE l[i + 1]
  /\ NoTwice(m) /\ Runs(m) = Runs(l) \ {l[j]} /\ l[j] \in Runs(l)

\* A sequence with an element taken out of it.
LEMMA TakeOne ==
  ASSUME NEW S, NEW l \in Seq(S), NoTwice(l), NEW j \in 1 .. Len(l)
  PROVE  \E m \in Seq(S) : Taken1(m, l, j)
  <1>1. PICK n : n = Len(l)
    OBVIOUS
  <1>2. n \in Nat \ {0} /\ (\A i \in 1 .. n : l[i] \in S) /\ j \in 1 .. n
    BY <1>1
  <1>3. PICK m : m = [i \in 1 .. n - 1 |-> IF i < j THEN l[i] ELSE l[i + 1]]
    OBVIOUS
  <1>4. \A i \in 1 .. n - 1 : m[i] = (IF i < j THEN l[i] ELSE l[i + 1]) /\ m[i] \in S
    <2>1. ASSUME NEW i \in 1 .. n - 1 PROVE i \in 1 .. n /\ i + 1 \in 1 .. n
      BY <1>2
    <2> QED BY <1>2, <1>3, <2>1
  <1>5. m \in Seq(S) /\ Len(m) = n - 1
    BY <1>2, <1>3, <1>4, IsASeq
  <1>6. NoTwice(m)
    <2>1. SUFFICES ASSUME NEW a \in 1 .. n - 1, NEW b \in 1 .. n - 1, m[a] = m[b] PROVE a = b
      BY <1>5 DEF NoTwice
    <2>2. /\ a \in 1 .. n /\ a + 1 \in 1 .. n /\ b \in 1 .. n /\ b + 1 \in 1 .. n
          /\ \A x, y \in 1 .. n : l[x] = l[y] => x = y
      BY <1>1, <1>2 DEF NoTwice
    <2> QED BY <1>2, <1>4, <2>1, <2>2
  <1>7. Runs(m) = Runs(l) \ {l[j]}
    <2>1. ASSUME NEW y \in Runs(m) PROVE y \in Runs(l) \ {l[j]}
      <3>1. PICK i \in 1 .. n - 1 : y = m[i]
        BY <1>5, <2>1 DEF Runs
      <3>2. PICK k \in 1 .. n : k # j /\ y = l[k]
        <4>1. CASE i < j
          BY <1>2, <1>4, <3>1, <4>1
        <4>2. CASE ~ (i < j)
          <5>1. i + 1 \in 1 .. n /\ i + 1 # j
            BY <1>2, <4>2
          <5> QED BY <1>4, <3>1, <4>2, <5>1
        <4> QED BY <4>1, <4>2
      <3>3. l[k] # l[j]
        BY <1>1, <1>2, <3>2 DEF NoTwice
      <3> QED BY <1>1, <3>2, <3>3 DEF Runs
    <2>2. ASSUME NEW y \in Runs(l), y # l[j] PROVE y \in Runs(m)
      <3>1. PICK k \in 1 .. n : y = l[k]
        BY <1>1, <2>2 DEF Runs
      <3>2. CASE k < j
        <4>1. k \in 1 .. n - 1 /\ m[k] = y
          <5>1. k \in 1 .. n - 1
            BY <1>2, <3>2
          <5> QED BY <1>4, <3>1, <3>2, <5>1
        <4> QED BY <1>5, <4>1 DEF Runs
      <3>3. CASE j < k
        <4>1. k - 1 \in 1 .. n - 1 /\ ~ (k - 1 < j) /\ (k - 1) + 1 = k
          BY <1>2, <3>3
        <4>2. m[k - 1] = y
          BY <1>4, <3>1, <4>1
        <4> QED BY <1>5, <4>1, <4>2 DEF Runs
      <3> QED BY <1>2, <2>2, <3>1, <3>2, <3>3
    <2> QED BY <2>1, <2>2
  <1>8. l[j] \in Runs(l)
    BY DEF Runs
  <1> QED BY <1>1, <1>4, <1>5, <1>6, <1>7, <1>8 DEF Taken1

\* A run pushed is the first of its class's, and no other class's list moves.
LEMMA PushLists ==
  ASSUME NEW h, NEW cls, NEW Y, Lists(h, cls, Y), NEW r \in DOMAIN h.runs, r \notin Y
  PROVE  /\ Lists(PushPartial(h, cls[r], r), cls, Y \cup {r}) /\ Relinked(PushPartial(h, cls[r], r), h)
         /\ PushPartial(h, cls[r], r).partial[cls[r]] = r
  <1>1. PICK c, g : c = cls[r] /\ g = PushPartial(h, c, r)
    OBVIOUS
  <1>2. HeadsOK(h) /\ c \in Classes /\ cls \in [DOMAIN h.runs -> Classes] /\ Y \subseteq DOMAIN h.runs
    BY <1>1 DEF Lists
  <1>3. Pushes(g, h, c, r)
    BY <1>1, <1>2, PushFields
  <1>4. /\ Relinked(g, h) /\ HeadsOK(g) /\ DOMAIN g.runs = DOMAIN h.runs /\ g.partial = [h.partial EXCEPT ![c] = r]
        /\ \A x \in DOMAIN h.runs :
             /\ g.runs[x].next = IF x = r THEN h.partial[c] ELSE h.runs[x].next
             /\ g.runs[x].prev = IF x = r THEN NoRun ELSE IF x = h.partial[c] THEN r ELSE h.runs[x].prev
    BY <1>3 DEF Pushes, Relinked
  <1>5. g.partial[c] = r /\ \A d \in Classes : d # c => g.partial[d] = h.partial[d]
    BY <1>2, <1>4 DEF HeadsOK
  <1>6. r \in Nat /\ r # NoRun
    BY <1>2, HeaderTypes
  <1>7. PICK l : Chain(h, c, l) /\ Runs(l) = {x \in Y : cls[x] = c}
    BY <1>2 DEF Lists
  <1>8. /\ l \in Seq(DOMAIN h.runs) /\ NoTwice(l) /\ Len(l) \in Nat /\ r \notin Runs(l) /\ l \in Seq(Nat)
        /\ (\A i \in 1 .. Len(l) : l[i] \in DOMAIN h.runs /\ l[i] \in Nat /\ l[i] \in Runs(l))
        /\ (l # <<>> => 1 \in 1 .. Len(l) /\ h.partial[c] = l[1])
    BY <1>2, <1>7, ChainTypes DEF Chain
  <1>9. ASSUME NEW d \in Classes PROVE \E m : Chain(g, d, m) /\ Runs(m) = {x \in Y \cup {r} : cls[x] = d}
    <2>1. CASE d # c
      <3>1. PICK m : Chain(h, d, m) /\ Runs(m) = {x \in Y : cls[x] = d}
        BY DEF Lists
      <3>2. Runs(m) = {x \in Y \cup {r} : cls[x] = d}
        BY <1>1, <2>1, <3>1
      <3>3. ASSUME NEW x \in Runs(m) PROVE SameLinks(g, h, x)
        <4>1. x \in DOMAIN h.runs /\ x # r /\ cls[x] = d /\ x \in Nat
          BY <1>1, <1>2, <2>1, <3>1, HeaderTypes
        <4>2. x # h.partial[c]
          <5>1. l # <<>> => cls[h.partial[c]] = c
            BY <1>7, <1>8
          <5>2. l = <<>> => h.partial[c] = NoRun
            BY <1>7 DEF Chain
          <5>3. NoRun \notin Nat
            BY <1>2, HeaderTypes
          <5> QED BY <2>1, <4>1, <5>1, <5>2, <5>3
        <4> QED BY <1>4, <4>1, <4>2 DEF SameLinks
      <3>4. Chain(g, d, m)
        BY <1>2, <1>5, <2>1, <3>1, <3>3, ChainStands
      <3> QED BY <3>2, <3>4
    <2>2. CASE d = c
      <3>1. PICK m : m = <<r>> \o l
        OBVIOUS
      <3>2. m \in Seq(DOMAIN h.runs) /\ Put(m, l, r)
        BY <1>8, <3>1, PutFirst
      <3>3. Runs(m) = {x \in Y \cup {r} : cls[x] = d}
        BY <1>1, <1>7, <2>2, <3>2 DEF Put
      <3>4. PICK n : n = Len(l)
        OBVIOUS
      <3>5. n \in Nat /\ Len(m) = n + 1 /\ m[1] = r /\ (\A i \in 1 .. n : m[i + 1] = l[i]) /\ m # <<>>
        BY <1>8, <3>2, <3>4 DEF Put
      <3>6. ASSUME NEW i \in 1 .. n + 1
            PROVE  /\ g.runs[m[i]].prev = IF i = 1 THEN NoRun ELSE m[i - 1]
                   /\ g.runs[m[i]].next = IF i = n + 1 THEN NoRun ELSE m[i + 1]
        <4>1. CASE i = 1
          <5>1. g.runs[r].prev = NoRun /\ g.runs[r].next = h.partial[c]
            BY <1>4
          <5>2. h.partial[c] = IF n = 0 THEN NoRun ELSE l[1]
            BY <1>7, <1>8, <3>4 DEF Chain
          <5>3. n # 0 => m[2] = l[1]
            <6>1. n # 0 => 1 \in 1 .. n /\ 1 + 1 = 2
              BY <3>5
            <6> QED BY <3>5, <6>1
          <5> QED BY <3>5, <4>1, <5>1, <5>2, <5>3
        <4>2. CASE i # 1
          <5>1. PICK k \in 1 .. n : i = k + 1
            <6>1. i - 1 \in 1 .. n /\ i = (i - 1) + 1
              BY <3>5, <4>2
            <6> QED BY <6>1
          <5>2. m[i] = l[k] /\ l[k] \in DOMAIN h.runs /\ l[k] # r /\ k \in Nat /\ k # 0
            BY <1>8, <3>4, <3>5, <5>1
          <5>3. l[k] = h.partial[c] <=> k = 1
            <6>1. 1 \in 1 .. n /\ h.partial[c] = l[1]
              BY <1>8, <3>4, <5>1
            <6> QED BY <1>8, <3>4, <6>1 DEF NoTwice
          <5>4. /\ h.runs[l[k]].prev = IF k = 1 THEN NoRun ELSE l[k - 1]
                /\ h.runs[l[k]].next = IF k = n THEN NoRun ELSE l[k + 1]
            BY <1>7, <3>4 DEF Chain
          <5>5. g.runs[m[i]].next = h.runs[l[k]].next
            BY <1>4, <5>2
          <5>6. k # n => k + 1 \in 1 .. n /\ m[(k + 1) + 1] = l[k + 1] /\ i + 1 = (k + 1) + 1
            BY <3>5, <5>1
          <5>7. g.runs[m[i]].next = IF i = n + 1 THEN NoRun ELSE m[i + 1]
            BY <3>5, <5>1, <5>4, <5>5, <5>6
          <5>8. g.runs[m[i]].prev = IF k = 1 THEN r ELSE h.runs[l[k]].prev
            BY <1>4, <5>2, <5>3
          <5>9. k # 1 => k - 1 \in 1 .. n /\ m[(k - 1) + 1] = l[k - 1] /\ i - 1 = (k - 1) + 1
            BY <3>5, <5>1
          <5>10. k = 1 => i - 1 = 1
            BY <5>1
          <5>11. g.runs[m[i]].prev = m[i - 1]
            BY <3>5, <5>4, <5>8, <5>9, <5>10
          <5> QED BY <4>2, <5>7, <5>11
        <4> QED BY <4>1, <4>2
      <3>7. NoTwice(m) /\ g.partial[d] = m[1] /\ m \in Seq(DOMAIN g.runs)
        BY <1>4, <1>5, <2>2, <3>2, <3>5 DEF Put
      <3>8. Chain(g, d, m)
        BY <3>5, <3>6, <3>7 DEF Chain
      <3> QED BY <3>3, <3>8
    <2> QED BY <2>1, <2>2
  <1>10. Lists(g, cls, Y \cup {r})
    BY <1>2, <1>4, <1>9 DEF Lists
  <1> QED BY <1>1, <1>4, <1>5, <1>10

\* A run dropped is out of its class's list, and no other class's list moves.
LEMMA DropLists ==
  ASSUME NEW h, NEW cls, NEW Y, Lists(h, cls, Y), NEW r \in Y
  PROVE  Lists(DropPartial(h, cls[r], r), cls, Y \ {r}) /\ Relinked(DropPartial(h, cls[r], r), h)
  <1>1. PICK c, g, p, n : c = cls[r] /\ g = DropPartial(h, c, r) /\ p = h.runs[r].prev /\ n = h.runs[r].next
    OBVIOUS
  <1>2. HeadsOK(h) /\ c \in Classes /\ cls \in [DOMAIN h.runs -> Classes] /\ Y \subseteq DOMAIN h.runs /\ r \in DOMAIN h.runs
    BY <1>1 DEF Lists
  <1>3. Drops(g, h, c, r)
    BY <1>1, <1>2, DropFields
  <1>4. /\ Relinked(g, h) /\ HeadsOK(g) /\ DOMAIN g.runs = DOMAIN h.runs
        /\ g.partial = IF p = NoRun THEN [h.partial EXCEPT ![c] = n] ELSE h.partial
        /\ \A x \in DOMAIN h.runs : /\ g.runs[x].next = IF x = p THEN n ELSE h.runs[x].next
                                    /\ g.runs[x].prev = IF x = n THEN p ELSE h.runs[x].prev
    BY <1>1, <1>3 DEF Drops, Relinked
  <1>5. g.partial[c] = (IF p = NoRun THEN n ELSE h.partial[c]) /\ \A d \in Classes : d # c => g.partial[d] = h.partial[d]
    BY <1>2, <1>4 DEF HeadsOK
  <1>6. PICK l : Chain(h, c, l) /\ Runs(l) = {x \in Y : cls[x] = c}
    BY <1>2 DEF Lists
  <1>7. PICK N : N = Len(l)
    OBVIOUS
  <1>8. /\ l \in Seq(DOMAIN h.runs) /\ NoTwice(l) /\ N \in Nat
        /\ \A i \in 1 .. N : l[i] \in DOMAIN h.runs /\ l[i] \in Nat /\ l[i] \in Runs(l)
    <2>1. l \in Seq(DOMAIN h.runs) /\ NoTwice(l)
      BY <1>6 DEF Chain
    <2>2. Len(l) \in Nat /\ \A i \in 1 .. Len(l) : l[i] \in DOMAIN h.runs /\ l[i] \in Nat /\ l[i] \in Runs(l)
      BY <1>2, <1>6, ChainTypes
    <2> QED BY <1>7, <2>1, <2>2
  <1>9. PICK j \in 1 .. N : r = l[j]
    <2>1. r \in Runs(l)
      BY <1>1, <1>6
    <2> QED BY <1>7, <2>1 DEF Runs
  <1>10. p = (IF j = 1 THEN NoRun ELSE l[j - 1]) /\ n = (IF j = N THEN NoRun ELSE l[j + 1])
    BY <1>1, <1>6, <1>7, <1>9 DEF Chain
  <1>11. (j # 1 => j - 1 \in 1 .. N) /\ (j # N => j + 1 \in 1 .. N) /\ 1 \in 1 .. N /\ NoRun \notin Nat
    BY <1>2, <1>8, HeaderTypes
  <1>12. (p = NoRun <=> j = 1) /\ (p # NoRun => p \in Runs(l)) /\ (n # NoRun => n \in Runs(l))
    BY <1>8, <1>10, <1>11
  <1>13. ASSUME NEW k \in 1 .. N PROVE (l[k] = p <=> k = j - 1) /\ (l[k] = n <=> k = j + 1)
    <2>1. \A a, b \in 1 .. N : l[a] = l[b] => a = b
      BY <1>7, <1>8 DEF NoTwice
    <2>2. k \in Nat /\ j \in Nat /\ l[k] \in Nat
      BY <1>8
    <2>3. l[k] = p <=> k = j - 1
      <3>1. CASE j = 1
        BY <1>8, <1>10, <1>11, <2>2, <3>1
      <3>2. CASE j # 1
        BY <1>10, <1>11, <2>1, <2>2, <3>2
      <3> QED BY <3>1, <3>2
    <2>4. l[k] = n <=> k = j + 1
      <3>1. CASE j = N
        BY <1>8, <1>10, <1>11, <2>2, <3>1
      <3>2. CASE j # N
        BY <1>10, <1>11, <2>1, <2>2, <3>2
      <3> QED BY <3>1, <3>2
    <2> QED BY <2>3, <2>4
  <1>14. ASSUME NEW d \in Classes PROVE \E m : Chain(g, d, m) /\ Runs(m) = {x \in Y \ {r} : cls[x] = d}
    <2>1. CASE d # c
      <3>1. PICK m : Chain(h, d, m) /\ Runs(m) = {x \in Y : cls[x] = d}
        BY DEF Lists
      <3>2. Runs(m) = {x \in Y \ {r} : cls[x] = d}
        BY <1>1, <2>1, <3>1
      <3>3. ASSUME NEW x \in Runs(m) PROVE SameLinks(g, h, x)
        <4>1. x \in DOMAIN h.runs /\ cls[x] = d /\ x \in Nat
          BY <1>2, <3>1, HeaderTypes
        <4>2. x # p /\ x # n
          BY <1>6, <1>11, <1>12, <2>1, <4>1
        <4> QED BY <1>4, <4>1, <4>2 DEF SameLinks
      <3>4. Chain(g, d, m)
        BY <1>2, <1>5, <2>1, <3>1, <3>3, ChainStands
      <3> QED BY <3>2, <3>4
    <2>2. CASE d = c
      <3>1. PICK m \in Seq(DOMAIN h.runs) : Taken1(m, l, j)
        BY <1>7, <1>8, TakeOne
      <3>2. /\ Len(m) = N - 1 /\ NoTwice(m) /\ Runs(m) = Runs(l) \ {r}
            /\ \A i \in 1 .. N - 1 : m[i] = IF i < j THEN l[i] ELSE l[i + 1]
        BY <1>7, <1>9, <3>1 DEF Taken1
      <3>3. Runs(m) = {x \in Y \ {r} : cls[x] = d}
        BY <1>6, <2>2, <3>2
      <3>4. g.partial[d] = IF m = <<>> THEN NoRun ELSE m[1]
        <4>1. m = <<>> <=> N = 1
          BY <1>8, <1>11, <3>1, <3>2
        <4>2. CASE j = 1
          <5>1. g.partial[d] = n
            BY <1>5, <1>12, <2>2, <4>2
          <5>2. N # 1 => 1 \in 1 .. N - 1 /\ 1 + 1 = 2
            BY <1>8, <1>11
          <5>3. N # 1 => m[1] = l[2] /\ n = l[2]
            BY <1>10, <3>2, <4>2, <5>2
          <5>4. N = 1 => n = NoRun
            BY <1>10, <4>2
          <5> QED BY <4>1, <5>1, <5>3, <5>4
        <4>3. CASE j # 1
          <5>1. g.partial[d] = h.partial[c] /\ N # 1 /\ 1 < j /\ 1 \in 1 .. N - 1
            BY <1>5, <1>8, <1>12, <2>2, <4>3
          <5>2. l # <<>>
            BY <1>7, <1>11
          <5>3. h.partial[c] = l[1]
            BY <1>6, <5>2 DEF Chain
          <5> QED BY <3>2, <4>1, <5>1, <5>3
        <4> QED BY <4>2, <4>3
      <3>5. ASSUME NEW i \in 1 .. N - 1
            PROVE  /\ g.runs[m[i]].prev = IF i = 1 THEN NoRun ELSE m[i - 1]
                   /\ g.runs[m[i]].next = IF i = N - 1 THEN NoRun ELSE m[i + 1]
        <4>1. PICK k : k = IF i < j THEN i ELSE i + 1
          OBVIOUS
        <4>2. k \in 1 .. N /\ m[i] = l[k] /\ l[k] \in DOMAIN h.runs /\ i \in Nat /\ j \in Nat /\ k \in Nat
          BY <1>8, <3>2, <4>1
        <4>3. /\ h.runs[l[k]].prev = IF k = 1 THEN NoRun ELSE l[k - 1]
              /\ h.runs[l[k]].next = IF k = N THEN NoRun ELSE l[k + 1]
          BY <1>6, <1>7, <4>2 DEF Chain
        <4>4. /\ g.runs[m[i]].prev = IF k = j + 1 THEN p ELSE h.runs[l[k]].prev
              /\ g.runs[m[i]].next = IF k = j - 1 THEN n ELSE h.runs[l[k]].next
          BY <1>4, <1>13, <4>2
        <4>5. i # 1 => i - 1 \in 1 .. N - 1 /\ m[i - 1] = IF i - 1 < j THEN l[i - 1] ELSE l[i]
          <5>1. i # 1 => i - 1 \in 1 .. N - 1 /\ (i - 1) + 1 = i
            BY <4>2, <1>8
          <5> QED BY <3>2, <5>1
        <4>6. i # N - 1 => i + 1 \in 1 .. N - 1 /\ m[i + 1] = IF i + 1 < j THEN l[i + 1] ELSE l[(i + 1) + 1]
          <5>1. i # N - 1 => i + 1 \in 1 .. N - 1
            BY <4>2, <1>8
          <5> QED BY <3>2, <5>1
        <4>7. g.runs[m[i]].prev = IF i = 1 THEN NoRun ELSE m[i - 1]
          <5>1. CASE i < j
            <6>1. k = i /\ k # j + 1 /\ i - 1 < j
              BY <4>1, <4>2, <5>1
            <6> QED BY <4>3, <4>4, <4>5, <6>1
          <5>2. CASE i = j
            <6>1. k = j + 1 /\ i - 1 < j
              BY <4>1, <4>2, <5>2
            <6> QED BY <1>10, <4>4, <4>5, <5>2, <6>1
          <5>3. CASE i > j
            <6>1. k = i + 1 /\ k # j + 1 /\ ~ (i - 1 < j) /\ k # 1 /\ k - 1 = i /\ i # 1
              BY <4>1, <4>2, <5>3
            <6> QED BY <4>3, <4>4, <4>5, <6>1
          <5> QED BY <4>2, <5>1, <5>2, <5>3
        <4>8. g.runs[m[i]].next = IF i = N - 1 THEN NoRun ELSE m[i + 1]
          <5>1. CASE i + 1 < j
            <6>1. k = i /\ k # j - 1 /\ i # N - 1 /\ k # N
              BY <1>8, <4>1, <4>2, <5>1
            <6> QED BY <4>3, <4>4, <4>6, <5>1, <6>1
          <5>2. CASE i + 1 = j
            <6>1. k = j - 1 /\ (i = N - 1 <=> j = N) /\ ~ (i + 1 < j)
              BY <1>8, <4>1, <4>2, <5>2
            <6> QED BY <1>10, <4>4, <4>6, <5>2, <6>1
          <5>3. CASE i + 1 > j
            <6>1. k = i + 1 /\ k # j - 1 /\ ~ (i + 1 < j) /\ (k = N <=> i = N - 1)
              BY <1>8, <4>1, <4>2, <5>3
            <6> QED BY <4>3, <4>4, <4>6, <6>1
          <5> QED BY <4>2, <5>1, <5>2, <5>3
        <4> QED BY <4>7, <4>8
      <3>6. Chain(g, d, m)
        BY <1>4, <3>1, <3>2, <3>4, <3>5 DEF Chain
      <3> QED BY <3>3, <3>6
    <2> QED BY <2>1, <2>2
  <1>15. Y \ {r} \subseteq DOMAIN g.runs /\ cls \in [DOMAIN g.runs -> Classes]
    BY <1>2, <1>4
  <1>16. Lists(g, cls, Y \ {r})
    BY <1>4, <1>14, <1>15 DEF Lists
  <1> QED BY <1>1, <1>4, <1>16

\* A class's list, walked as far as there are runs, is what is listed.
LEMMA WalkListed ==
  ASSUME HeadsOK(Heads), IsFiniteSet(DOMAIN runs), NEW c \in Classes, NEW l, Chain(Heads, c, l)
  PROVE  WalkFrom(c) = Runs(l)
  <1>1. PICK D, N, n : D = DOMAIN runs /\ N = Cardinality(D) /\ n = Len(l)
    OBVIOUS
  <1>2. Heads.runs = runs /\ Heads.partial = partial
    BY DEF Heads
  <1>3. N \in Nat
    BY <1>1, FS_CardinalityType
  <1>4. /\ n \in Nat /\ \A i \in 1 .. n : l[i] \in D /\ l[i] \in Nat
        /\ partial[c] = IF n = 0 THEN NoRun ELSE l[1]
    <2>1. Len(l) \in Nat /\ \A i \in 1 .. Len(l) : l[i] \in D /\ l[i] \in Nat
      BY <1>1, <1>2, ChainTypes
    <2>2. l = <<>> <=> Len(l) = 0
      BY DEF Chain
    <2> QED BY <1>1, <1>2, <2>1, <2>2 DEF Chain
  <1>5. \A i \in 1 .. n : runs[l[i]].next = IF i = n THEN NoRun ELSE l[i + 1]
    BY <1>1, <1>2 DEF Chain
  <1>6. NoRun \notin D
    BY <1>1, <1>2 DEF HeadsOK, NoRun
  <1>7. n <= N
    <2>1. SUFFICES ASSUME N < n PROVE FALSE
      BY <1>3, <1>4
    <2>2. IsFiniteSet(1 .. n) /\ Cardinality(1 .. n) = n
      BY <1>4, FS_Interval
    <2>3. PICK f : f = [i \in 1 .. n |-> l[i]]
      OBVIOUS
    <2>4. f \in [1 .. n -> D]
      BY <1>4, <2>3
    <2>5. \E x, y \in 1 .. n : x # y /\ f[x] = f[y]
      BY <1>1, <2>1, <2>2, <2>4, FS_PigeonHole
    <2>6. \A x, y \in 1 .. n : l[x] = l[y] => x = y
      BY <1>1 DEF Chain, NoTwice
    <2> QED BY <2>3, <2>5, <2>6
  <1> DEFINE Next0(w, k) == IF k = 0 THEN partial[c] ELSE IF w[k - 1] \in D THEN runs[w[k - 1]].next ELSE NoRun
             Walk[k \in 0 .. Cardinality(DOMAIN runs)] ==
               IF k = 0 THEN partial[c] ELSE IF Walk[k - 1] \in DOMAIN runs THEN runs[Walk[k - 1]].next ELSE NoRun
             Next1(f, k) ==
               IF k = 0 THEN partial[c] ELSE IF f[k - 1] \in DOMAIN runs THEN runs[f[k - 1]].next ELSE NoRun
             At(k) == IF k < n THEN l[k + 1] ELSE NoRun
  <1>8. ASSUME NEW k \in 1 .. N PROVE At(k) = IF At(k - 1) \in D THEN runs[At(k - 1)].next ELSE NoRun
    <2>1. k - 1 \in Nat /\ (k - 1) + 1 = k /\ k \in Nat
      BY <1>3
    <2>2. CASE k - 1 < n
      <3>1. k \in 1 .. n /\ At(k - 1) = l[k]
        BY <1>4, <2>1, <2>2
      <3>2. runs[l[k]].next = (IF k = n THEN NoRun ELSE l[k + 1]) /\ l[k] \in D
        BY <1>4, <1>5, <3>1
      <3> QED BY <1>4, <2>1, <3>1, <3>2
    <2>3. CASE ~ (k - 1 < n)
      BY <1>4, <1>6, <2>1, <2>3
    <2> QED BY <2>2, <2>3
  <1>9. At(0) = partial[c]
    BY <1>4
  <1>10. \E f : f = [k \in 0 .. N |-> Next0(f, k)]
    <2>1. PICK f : f = [k \in 0 .. N |-> At(k)]
      OBVIOUS
    <2>2. ASSUME NEW k \in 0 .. N PROVE f[k] = Next0(f, k)
      <3>1. CASE k = 0
        BY <1>9, <2>1, <3>1
      <3>2. CASE k # 0
        <4>1. k \in 1 .. N /\ k - 1 \in 0 .. N
          BY <1>3, <3>2
        <4>2. f[k] = At(k) /\ f[k - 1] = At(k - 1)
          BY <2>1, <4>1
        <4> HIDE DEF At
        <4> QED BY <1>8, <3>2, <4>1, <4>2
      <3> QED BY <3>1, <3>2
    <2>3. f = [k \in 0 .. N |-> f[k]]
      BY <2>1
    <2>4. f = [k \in 0 .. N |-> Next0(f, k)]
      <3> HIDE DEF Next0
      <3> QED BY <2>2, <2>3
    <2> QED BY <2>4
  <1>11. PICK w : w = Walk
    OBVIOUS
  <1>12. w = [k \in 0 .. N |-> Next0(w, k)]
    <2>1. PICK f : f = [k \in 0 .. N |-> Next0(f, k)]
      BY <1>10
    <2>2. f = [k \in 0 .. Cardinality(DOMAIN runs) |-> Next1(f, k)]
      BY <1>1, <2>1
    <2>3. w = [k \in 0 .. Cardinality(DOMAIN runs) |-> Next1(w, k)]
      BY <1>11, <2>2
    <2> QED BY <1>1, <2>3
  <1>13. 0 .. N \subseteq {k \in 0 .. N : w[k] = At(k)}
    <2> DEFINE P == {k \in 0 .. N : w[k] = At(k)}
    <2>1. 0 \in P
      BY <1>3, <1>9, <1>12
    <2>2. ASSUME NEW k \in 1 .. N, k - 1 \in P PROVE k \in P
      <3>1. k \in 0 .. N /\ k # 0
        BY <1>3
      <3>2. w[k] = IF w[k - 1] \in D THEN runs[w[k - 1]].next ELSE NoRun
        BY <1>12, <3>1
      <3>3. w[k - 1] = At(k - 1)
        BY <2>2
      <3> HIDE DEF At
      <3> QED BY <1>8, <3>1, <3>2, <3>3
    <2> HIDE DEF P
    <2>3. 0 .. N \subseteq P
      BY <1>3, <2>1, <2>2, UpTo
    <2> QED BY <2>3 DEF P
  <1>14. WalkFrom(c) = {w[k] : k \in 0 .. N} \ {NoRun}
    <2>1. DOMAIN w = 0 .. N
      BY <1>12
    <2>2. WalkFrom(c) = {Walk[k] : k \in DOMAIN Walk} \ {NoRun}
      BY DEF WalkFrom
    <2> QED BY <1>11, <2>1, <2>2
  <1>15. ASSUME NEW x \in Runs(l) PROVE x \in {w[k] : k \in 0 .. N} \ {NoRun}
    <2>1. PICK i \in 1 .. n : x = l[i]
      BY <1>1 DEF Runs
    <2>2. i - 1 \in 0 .. N /\ i - 1 < n /\ (i - 1) + 1 = i /\ x # NoRun
      BY <1>3, <1>4, <1>6, <1>7, <2>1
    <2> QED BY <1>13, <2>1, <2>2
  <1>16. ASSUME NEW k \in 0 .. N, w[k] # NoRun PROVE w[k] \in Runs(l)
    <2>1. k < n /\ w[k] = l[k + 1]
      BY <1>13, <1>16
    <2>2. k + 1 \in 1 .. n
      BY <1>3, <1>4, <2>1
    <2> QED BY <1>1, <2>1, <2>2 DEF Runs
  <1> QED BY <1>14, <1>15, <1>16
-----------------------------------------------------------------------------
(***************************************************************************)
(* What a run holds: slots of its own past its header, each free or handed *)
(* out, and counted.                                                       *)
(***************************************************************************)
OwnedIn(G, r) == {g \in G : IsSlot(g.asked, g.align) /\ RunAt(g.at, ClassOf(g)) = r}

SlotAts(r, c) == {r + k * ClassBytes(c) : k \in HeadSlots(c) .. SlotsOf(c) - 1}

RunFill(O, r, c, free, inuse) ==
  /\ \A g \in O : ClassOf(g) = c /\ g.at \in SlotAts(r, c) /\ g.at \notin Runs(free)
  /\ \A g, h \in O : g.at = h.at => g = h
  /\ free \in Seq(Nat) /\ NoTwice(free) /\ Runs(free) \subseteq SlotAts(r, c)
  /\ IsFiniteSet(O) /\ inuse = Cardinality(O) /\ inuse + Len(free) = SlotsOf(c) - HeadSlots(c)

\* A sequence's tail is it without its first element.
LEMMA TailRest ==
  ASSUME NEW S, NEW l \in Seq(S), l # <<>>, NoTwice(l)
  PROVE  /\ Tail(l) \in Seq(S) /\ Len(Tail(l)) = Len(l) - 1 /\ NoTwice(Tail(l)) /\ Len(l) \in Nat \ {0}
         /\ Runs(l) = Runs(Tail(l)) \cup {Head(l)} /\ Head(l) \notin Runs(Tail(l)) /\ Head(l) \in S
  <1>1. PICK m, n : m = Tail(l) /\ n = Len(l)
    OBVIOUS
  <1>2. n \in Nat \ {0}
    BY <1>1, EmptySeq
  <1>3. /\ m \in Seq(S) /\ Len(m) = n - 1 /\ Head(l) = l[1] /\ l[1] \in S
        /\ \A i \in 1 .. n - 1 : m[i] = l[i + 1]
    BY <1>1, <1>2
  <1>4. \A a, b \in 1 .. n : l[a] = l[b] => a = b
    BY <1>1 DEF NoTwice
  <1>5. NoTwice(m)
    <2>1. SUFFICES ASSUME NEW a \in 1 .. n - 1, NEW b \in 1 .. n - 1, m[a] = m[b] PROVE a = b
      BY <1>3 DEF NoTwice
    <2>2. a + 1 \in 1 .. n /\ b + 1 \in 1 .. n /\ l[a + 1] = l[b + 1]
      BY <1>2, <1>3, <2>1
    <2> QED BY <1>4, <2>2
  <1>6. Head(l) \notin Runs(m)
    <2>1. ASSUME NEW i \in 1 .. n - 1 PROVE m[i] # l[1]
      <3>1. i + 1 \in 1 .. n /\ 1 \in 1 .. n /\ i + 1 # 1
        BY <1>2
      <3> QED BY <1>3, <1>4, <3>1
    <2> QED BY <1>3, <2>1 DEF Runs
  <1>7. Runs(l) = Runs(m) \cup {Head(l)}
    BY <1>1, TakeHead DEF Runs
  <1> QED BY <1>1, <1>2, <1>3, <1>5, <1>6, <1>7

\* A slot handed out, of those free.
LEMMA SlotTaken ==
  ASSUME NEW O, NEW r, NEW c, NEW free, NEW inuse, RunFill(O, r, c, free, inuse), free # <<>>,
         NEW n, n.at = Head(free), ClassOf(n) = c
  PROVE  /\ RunFill(O \cup {n}, r, c, Tail(free), inuse + 1) /\ n \notin O /\ Head(free) \in SlotAts(r, c)
         /\ inuse + 1 \in Nat
  <1>1. PICK rest : rest = Tail(free)
    OBVIOUS
  <1>2. /\ rest \in Seq(Nat) /\ Len(rest) = Len(free) - 1 /\ NoTwice(rest) /\ Len(free) \in Nat
        /\ Runs(free) = Runs(rest) \cup {n.at} /\ n.at \notin Runs(rest)
    BY <1>1, TailRest DEF RunFill
  <1>3. \A g \in O : g.at # n.at /\ g.at \notin Runs(rest)
    BY <1>2 DEF RunFill
  <1>4. n \notin O
    BY <1>3
  <1>5. /\ IsFiniteSet(O \cup {n}) /\ Cardinality(O \cup {n}) = inuse + 1 /\ inuse \in Nat
    BY <1>4, FS_AddElement, FS_CardinalityType DEF RunFill
  <1>6. n.at \in SlotAts(r, c)
    BY <1>2 DEF RunFill
  <1>7. inuse + Len(free) = SlotsOf(c) - HeadSlots(c)
    BY DEF RunFill
  <1>8. (inuse + 1) + Len(rest) = SlotsOf(c) - HeadSlots(c)
    <2>1. (inuse + 1) + Len(rest) = inuse + Len(free)
      BY <1>2, <1>5
    <2> QED BY <1>7, <2>1
  <1>9. \A g, h \in O \cup {n} : g.at = h.at => g = h
    BY <1>3 DEF RunFill
  <1>10. \A g \in O \cup {n} : ClassOf(g) = c /\ g.at \in SlotAts(r, c) /\ g.at \notin Runs(rest)
    BY <1>2, <1>3, <1>6 DEF RunFill
  <1>11. Runs(rest) \subseteq SlotAts(r, c)
    BY <1>2 DEF RunFill
  <1>12. RunFill(O \cup {n}, r, c, rest, inuse + 1)
    BY <1>2, <1>5, <1>8, <1>9, <1>10, <1>11 DEF RunFill
  <1> QED BY <1>1, <1>4, <1>5, <1>6, <1>12

\* A slot given back, to those free.
LEMMA SlotGiven ==
  ASSUME NEW O, NEW r, NEW c, NEW free, NEW inuse, RunFill(O, r, c, free, inuse), NEW g \in O, g.at \in Nat
  PROVE  /\ RunFill(O \ {g}, r, c, <<g.at>> \o free, inuse - 1) /\ inuse \in Nat \ {0} /\ <<g.at>> \o free # <<>>
         /\ inuse = 1 <=> O \ {g} = {}
  <1>1. PICK m : m = <<g.at>> \o free
    OBVIOUS
  <1>2. free \in Seq(Nat) /\ NoTwice(free) /\ g.at \notin Runs(free)
    BY DEF RunFill
  <1>3. m \in Seq(Nat) /\ Put(m, free, g.at) /\ Len(free) \in Nat
    BY <1>1, <1>2, PutFirst
  <1>4. m \in Seq(Nat) /\ Len(m) = Len(free) + 1 /\ NoTwice(m) /\ Runs(m) = Runs(free) \cup {g.at} /\ m # <<>>
    BY <1>3 DEF Put
  <1>5. /\ IsFiniteSet(O \ {g}) /\ Cardinality(O \ {g}) = inuse - 1 /\ inuse \in Nat /\ inuse - 1 \in Nat
    <2>1. IsFiniteSet(O) /\ inuse = Cardinality(O)
      BY DEF RunFill
    <2>2. IsFiniteSet(O \ {g}) /\ Cardinality(O \ {g}) = inuse - 1 /\ inuse \in Nat /\ Cardinality(O \ {g}) \in Nat
      BY <2>1, FS_RemoveElement, FS_CardinalityType
    <2> QED BY <2>2
  <1>6. inuse - 1 = 0 <=> O \ {g} = {}
    BY <1>5, FS_EmptySet
  <1>7. inuse + Len(free) = SlotsOf(c) - HeadSlots(c)
    BY DEF RunFill
  <1>8. (inuse - 1) + Len(m) = SlotsOf(c) - HeadSlots(c)
    <2>1. (inuse - 1) + Len(m) = inuse + Len(free)
      BY <1>3, <1>4, <1>5
    <2> QED BY <1>7, <2>1
  <1>9. \A f \in O \ {g} : ClassOf(f) = c /\ f.at \in SlotAts(r, c) /\ f.at \notin Runs(m)
    BY <1>4 DEF RunFill
  <1>10. Runs(m) \subseteq SlotAts(r, c)
    BY <1>4 DEF RunFill
  <1>11. \A f, h \in O \ {g} : f.at = h.at => f = h
    BY DEF RunFill
  <1>12. RunFill(O \ {g}, r, c, m, inuse - 1)
    BY <1>4, <1>5, <1>8, <1>9, <1>10, <1>11 DEF RunFill
  <1> QED BY <1>1, <1>4, <1>5, <1>6, <1>12

\* A run just made has every slot free, and one at least.
LEMMA SlotsFresh ==
  ASSUME BuddyAssumption, SlabAssumption, NEW c \in Classes, NEW r \in Nat
  PROVE  RunFill({}, r, c, FreshSlots(r, c), 0) /\ FreshSlots(r, c) # <<>>
  <1>1. PICK b, m, n, f : b = ClassBytes(c) /\ m = HeadSlots(c) /\ n = SlotsOf(c) /\ f = FreshSlots(r, c)
    OBVIOUS
  <1>2. b \in Nat \ {0} /\ m \in Nat \ {0} /\ n \in Nat /\ m < n
    BY <1>1, ClassesSized DEF ClassSizes
  <1>3. f = [k \in 1 .. n - m |-> r + (m + k - 1) * b]
    BY <1>1 DEF FreshSlots
  <1>4. ASSUME NEW k \in 1 .. n - m PROVE m + k - 1 \in m .. n - 1 /\ f[k] = r + (m + k - 1) * b /\ f[k] \in Nat
    <2>1. PICK q \in Nat : q = m + k - 1
      BY <1>2
    <2>2. q * b \in Nat
      BY <1>2
    <2>3. f[k] = r + q * b
      BY <1>3, <2>1
    <2> QED BY <1>2, <2>1, <2>2, <2>3
  <1>5. f \in Seq(Nat) /\ Len(f) = n - m
    BY <1>2, <1>3, <1>4, IsASeq
  <1>6. NoTwice(f)
    <2>1. SUFFICES ASSUME NEW j \in 1 .. n - m, NEW k \in 1 .. n - m, f[j] = f[k] PROVE j = k
      BY <1>5 DEF NoTwice
    <2>2. PICK d \in Int, x \in Int, y \in Int : d = j - k /\ x = m + j - 1 /\ y = m + k - 1
      BY <1>2
    <2>3. x * b = y * b /\ x - y = d
      <3>1. r + x * b = r + y * b
        BY <1>4, <2>1, <2>2
      <3>2. x * b \in Int /\ y * b \in Int
        BY <1>2
      <3> QED BY <1>2, <2>2, <3>1, <3>2
    <2>4. b * d = 0
      BY <1>2, <2>3
    <2>5. d = 0
      BY <1>2, <2>4, Multiple
    <2> QED BY <2>2, <2>5
  <1>7. Runs(f) \subseteq SlotAts(r, c)
    BY <1>1, <1>4, <1>5 DEF Runs, SlotAts
  <1>8. f # <<>>
    BY <1>2, <1>5
  <1>9. IsFiniteSet({}) /\ Cardinality({}) = 0 /\ 0 + Len(f) = n - m
    BY <1>2, <1>5, FS_EmptySet
  <1> QED BY <1>1, <1>5, <1>6, <1>7, <1>8, <1>9 DEF RunFill
-----------------------------------------------------------------------------
\* Headers after a run's slots change, after a run is made, and after one is gone.
Held(g, h, r, free, inuse) ==
  /\ HeadsOK(g) /\ g.partial = h.partial /\ DOMAIN g.runs = DOMAIN h.runs
  /\ \A x \in DOMAIN h.runs : SameLinks(g, h, x)
  /\ g.runs[r].free = free /\ g.runs[r].inuse = inuse
  /\ \A x \in DOMAIN h.runs \ {r} : g.runs[x].free = h.runs[x].free /\ g.runs[x].inuse = h.runs[x].inuse

LEMMA HoldingFields ==
  ASSUME NEW h, HeadsOK(h), NEW r \in DOMAIN h.runs, NEW free \in Seq(Nat), NEW inuse \in Nat
  PROVE  Held(Holding(h, r, free, inuse), h, r, free, inuse)
  <1>1. PICK D, p, n : D = DOMAIN h.runs /\ p = h.runs[r].prev /\ n = h.runs[r].next
    OBVIOUS
  <1>2. PICK e : e = [prev |-> p, next |-> n, free |-> free, inuse |-> inuse]
    OBVIOUS
  <1>3. p \in Int /\ n \in Int /\ D \subseteq Nat /\ h.runs \in [D -> Headers] /\ r \in D
    BY <1>1, HeaderTypes DEF HeadsOK
  <1>4. e \in Headers /\ e.prev = p /\ e.next = n /\ e.free = free /\ e.inuse = inuse
    BY <1>2, <1>3 DEF Headers
  <1>5. PICK g : g = Holding(h, r, free, inuse)
    OBVIOUS
  <1>6. g.runs = [h.runs EXCEPT ![r] = e] /\ g.partial = h.partial /\ g = [runs |-> g.runs, partial |-> g.partial]
    BY <1>1, <1>2, <1>5 DEF Holding
  <1>7. g.runs \in [D -> Headers] /\ g.runs[r] = e /\ \A x \in D \ {r} : g.runs[x] = h.runs[x]
    BY <1>3, <1>4, <1>6
  <1>8. DOMAIN g.runs = D /\ HeadsOK(g)
    BY <1>3, <1>6, <1>7 DEF HeadsOK
  <1>9. ASSUME NEW x \in D PROVE SameLinks(g, h, x)
    <2>1. CASE x = r
      BY <1>1, <1>4, <1>7, <1>8, <2>1 DEF SameLinks
    <2>2. CASE x # r
      BY <1>7, <1>8, <2>2 DEF SameLinks
    <2> QED BY <2>1, <2>2
  <1> QED BY <1>1, <1>4, <1>5, <1>6, <1>7, <1>8, <1>9 DEF Held

\* The headers a run's is put among; Opened pushes it.
Beside(h, c, base) ==
  [runs |-> [x \in DOMAIN h.runs \cup {base} |->
               IF x = base THEN [prev |-> NoRun, next |-> NoRun, free |-> FreshSlots(base, c), inuse |-> 0] ELSE h.runs[x]],
   partial |-> h.partial]

LEMMA BesideFields ==
  ASSUME NEW h, HeadsOK(h), NEW base \in Nat \ DOMAIN h.runs, NEW c, FreshSlots(base, c) \in Seq(Nat)
  PROVE  LET g == Beside(h, c, base)
         IN  /\ HeadsOK(g) /\ g.partial = h.partial /\ DOMAIN g.runs = DOMAIN h.runs \cup {base}
             /\ g.runs[base].free = FreshSlots(base, c) /\ g.runs[base].inuse = 0
             /\ \A x \in DOMAIN h.runs : g.runs[x] = h.runs[x] /\ SameLinks(g, h, x)
  <1>1. PICK g, D, f : g = Beside(h, c, base) /\ D = DOMAIN h.runs /\ f = FreshSlots(base, c)
    OBVIOUS
  <1>2. PICK e : e = [prev |-> NoRun, next |-> NoRun, free |-> f, inuse |-> 0]
    OBVIOUS
  <1>3. e \in Headers /\ e.free = f /\ e.inuse = 0
    BY <1>1, <1>2 DEF Headers, NoRun
  <1>4. /\ g.runs = [x \in D \cup {base} |-> IF x = base THEN e ELSE h.runs[x]] /\ g.partial = h.partial
        /\ g = [runs |-> g.runs, partial |-> g.partial]
    BY <1>1, <1>2 DEF Beside
  <1>5. h.runs \in [D -> Headers] /\ D \subseteq Nat /\ base \notin D
    BY <1>1 DEF HeadsOK
  <1>6. /\ g.runs \in [D \cup {base} -> Headers] /\ DOMAIN g.runs = D \cup {base} /\ g.runs[base] = e
        /\ \A x \in D : g.runs[x] = h.runs[x]
    BY <1>3, <1>4, <1>5
  <1>7. HeadsOK(g)
    BY <1>4, <1>5, <1>6 DEF HeadsOK
  <1> QED BY <1>1, <1>3, <1>4, <1>6, <1>7 DEF SameLinks

Without(h, r) == [runs |-> [x \in DOMAIN h.runs \ {r} |-> h.runs[x]], partial |-> h.partial]

LEMMA WithoutFields ==
  ASSUME NEW h, HeadsOK(h), NEW r
  PROVE  LET g == Without(h, r)
         IN  /\ HeadsOK(g) /\ g.partial = h.partial /\ DOMAIN g.runs = DOMAIN h.runs \ {r}
             /\ \A x \in DOMAIN h.runs \ {r} : g.runs[x] = h.runs[x] /\ SameLinks(g, h, x)
  <1>1. PICK g, D : g = Without(h, r) /\ D = DOMAIN h.runs \ {r}
    OBVIOUS
  <1>2. g.runs = [x \in D |-> h.runs[x]] /\ g.partial = h.partial /\ g = [runs |-> g.runs, partial |-> g.partial]
    BY <1>1 DEF Without
  <1>3. (\A x \in D : h.runs[x] \in Headers) /\ D \subseteq Nat
    BY <1>1 DEF HeadsOK
  <1>4. g.runs \in [D -> Headers] /\ DOMAIN g.runs = D /\ \A x \in D : g.runs[x] = h.runs[x]
    BY <1>2, <1>3
  <1>5. HeadsOK(g)
    BY <1>2, <1>3, <1>4 DEF HeadsOK
  <1> QED BY <1>1, <1>2, <1>4, <1>5 DEF SameLinks
-----------------------------------------------------------------------------
(***************************************************************************)
(* What holds of the allocator between the steps of one call: what is      *)
(* handed out and the runs are blocks of the tree, runs hold what is in    *)
(* slots, those of `Y` are listed by their class, and the counts are sums. *)
(***************************************************************************)
Granted(g) ==
  /\ g = [at |-> g.at, asked |-> g.asked, align |-> g.align]
  /\ g.at \in Nat /\ g.asked \in AllocSizes /\ g.align \in Aligns
  /\ IF IsSlot(g.asked, g.align) THEN ClassOf(g) \in Classes ELSE g.asked <= SizeOf(0) /\ g.align <= TwoTo[MinLog2]

SlotsIn(G) == {g \in G : IsSlot(g.asked, g.align)}
BigsIn(G)  == G \ SlotsIn(G)

RunBlocks(D, cls) == {<<BucketFor(RunSize(cls[r])), r>> : r \in D}

Places(t, G, D, cls) ==
  /\ TreeOK(t, RunBlocks(D, cls) \cup Used(BigsIn(G)))
  /\ \A r \in D : r + RunSize(cls[r]) <= t.max
  /\ \A g \in BigsIn(G) : g.at + SizeOf(BucketFor(g.asked)) <= t.max /\ g.at \notin D
  /\ \A g, h \in BigsIn(G) : g.at = h.at => g = h

Fills(G, h, cls) ==
  /\ \A g \in SlotsIn(G) : RunAt(g.at, ClassOf(g)) \in DOMAIN h.runs
  /\ \A r \in DOMAIN h.runs : RunFill(OwnedIn(G, r), r, cls[r], h.runs[r].free, h.runs[r].inuse)

RunSum(D, cls) == SumFunction([r \in D |-> RunSize(cls[r])])
SlotSum(G)     == SumFunction([g \in SlotsIn(G) |-> ClassBytes(ClassOf(g))])

Sound(t, G, h, cls, Y, rl, sl) ==
  /\ IsFiniteSet(G) /\ (\A g \in G : Granted(g)) /\ IsFiniteSet(DOMAIN h.runs)
  /\ Places(t, G, DOMAIN h.runs, cls) /\ Fills(G, h, cls) /\ Lists(h, cls, Y)
  /\ rl = RunSum(DOMAIN h.runs, cls) /\ sl = SlotSum(G)

\* A run is where its size allows, and its slots past its header lie in it.
LEMMA RunPlaced ==
  ASSUME BuddyAssumption, SlabAssumption, NEW t, NEW G, NEW D, NEW cls, Places(t, G, D, cls), cls \in [D -> Classes], NEW r \in D
  PROVE  /\ Spot(BucketFor(RunSize(cls[r])), r) /\ r \in Nat /\ ClassSizes(cls[r]) /\ t.max \in Nat /\ t.max <= EndAt
         /\ EndAt \in Nat
  <1>1. PICK X, s : X = RunBlocks(D, cls) \cup Used(BigsIn(G)) /\ s = <<BucketFor(RunSize(cls[r])), r>>
    OBVIOUS
  <1>2. TreeOK(t, X) /\ s \in X /\ s[1] = BucketFor(RunSize(cls[r])) /\ s[2] = r
    BY <1>1 DEF Places, RunBlocks
  <1>3. Spot(s[1], s[2]) /\ t \in Trees
    BY <1>2 DEF TreeOK, Tiling
  <1>4. r \in Nat
    BY <1>2, <1>3, SpotTypes
  <1>5. t.max \in LinkBytes .. EndAt /\ LinkBytes \in Nat /\ EndAt \in Nat
    BY <1>3, TreeTypes, Sizes DEF BuddyAssumption
  <1>6. t.max \in Nat /\ t.max <= EndAt
    BY <1>5
  <1> QED BY <1>2, <1>3, <1>4, <1>5, <1>6, ClassesSized

\* A slot lies past its run's header, within the run, and off its other slots.
LEMMA SlotPlaced ==
  ASSUME BuddyAssumption, SlabAssumption, NEW c \in Classes, NEW r \in Nat, Spot(BucketFor(RunSize(c)), r), NEW p \in SlotAts(r, c)
  PROVE  /\ p \in Nat /\ r + RunBytes <= p /\ p + ClassBytes(c) <= r + RunSize(c) /\ RunAt(p, c) = r
         /\ \A q \in SlotAts(r, c) : p # q => p + ClassBytes(c) <= q \/ q + ClassBytes(c) <= p
         /\ \E k \in Nat : p = r + k * ClassBytes(c)
  <1>1. PICK b, m, n, s : b = ClassBytes(c) /\ m = HeadSlots(c) /\ n = SlotsOf(c) /\ s = RunSize(c)
    OBVIOUS
  <1>2. b \in Nat \ {0} /\ m \in Nat /\ n \in Nat /\ s = n * b /\ RunBytes <= m * b /\ RunBytes \in Nat /\ s \in Nat
    BY <1>1, ClassesSized DEF ClassSizes
  <1>3. PICK k \in m .. n - 1 : p = r + k * b
    BY <1>1 DEF SlotAts
  <1>4. k \in Nat /\ m <= k /\ k + 1 <= n
    BY <1>2, <1>3
  <1>5. m * b <= k * b /\ (k + 1) * b <= n * b /\ k * b \in Nat /\ m * b \in Nat
    <2>1. \A x, y \in Nat : x <= y => x * b <= y * b
      BY <1>2
    <2> QED BY <1>2, <1>4, <2>1
  <1>6. (k + 1) * b = k * b + b
    BY <1>2, <1>4
  <1>7. p \in Nat /\ r + RunBytes <= p /\ p + b <= r + s
    BY <1>2, <1>3, <1>5, <1>6
  <1>8. RunAt(p, c) = r
    <2>1. k * b \in 0 .. s - 1
      BY <1>2, <1>5, <1>6
    <2>2. k * b \in 0 .. RunSize(c) - 1
      BY <1>1, <2>1
    <2>3. RunAt(r + k * b, c) = r
      BY <2>2, RunFound
    <2> QED BY <1>3, <2>3
  <1>9. ASSUME NEW q \in SlotAts(r, c), p # q PROVE p + b <= q \/ q + b <= p
    <2>1. PICK j \in m .. n - 1 : q = r + j * b
      BY <1>1 DEF SlotAts
    <2>2. j \in Nat /\ j # k
      BY <1>2, <1>3, <1>9, <2>1
    <2>3. CASE j < k
      <3>1. (j + 1) * b <= k * b
        <4>1. \A x, y \in Nat : x <= y => x * b <= y * b
          BY <1>2
        <4> QED BY <1>4, <2>2, <2>3, <4>1
      <3>2. (j + 1) * b = j * b + b /\ j * b \in Nat
        BY <1>2, <2>2
      <3> QED BY <1>2, <1>3, <1>5, <2>1, <3>1, <3>2
    <2>4. CASE k < j
      <3>1. (k + 1) * b <= j * b
        <4>1. \A x, y \in Nat : x <= y => x * b <= y * b
          BY <1>2
        <4> QED BY <1>4, <2>2, <2>4, <4>1
      <3>2. j * b \in Nat
        BY <1>2, <2>2
      <3> QED BY <1>2, <1>3, <1>5, <1>6, <2>1, <3>1, <3>2
    <2> QED BY <1>4, <2>2, <2>3, <2>4
  <1> QED BY <1>1, <1>3, <1>4, <1>7, <1>8, <1>9

\* A slot more is its class's bytes more.
LEMMA SlotCounted ==
  ASSUME BuddyAssumption, SlabAssumption, NEW G, IsFiniteSet(G), \A g \in G : Granted(g),
         NEW n, Granted(n), n \notin G, IsSlot(n.asked, n.align)
  PROVE  /\ SlotSum(G) \in Nat /\ SlotSum(G \cup {n}) \in Nat /\ SlotSum(G \cup {n}) = SlotSum(G) + ClassBytes(ClassOf(n))
         /\ SlotsIn(G \cup {n}) = SlotsIn(G) \cup {n} /\ BigsIn(G \cup {n}) = BigsIn(G)
  <1>1. PICK S : S = SlotsIn(G)
    OBVIOUS
  <1>2. SlotsIn(G \cup {n}) = S \cup {n} /\ BigsIn(G \cup {n}) = BigsIn(G) /\ n \notin S
    BY <1>1 DEF SlotsIn, BigsIn
  <1>3. IsFiniteSet(S)
    BY <1>1, FS_Subset DEF SlotsIn
  <1>4. \A g \in S \cup {n} : ClassBytes(ClassOf(g)) \in Nat
    <2>1. ASSUME NEW g \in S \cup {n} PROVE ClassOf(g) \in Classes
      BY <1>1, <2>1 DEF SlotsIn, Granted
    <2> QED BY <2>1, ClassesSized DEF ClassSizes
  <1>5. PICK f, k : f = [g \in S |-> ClassBytes(ClassOf(g))] /\ k = [g \in S \cup {n} |-> ClassBytes(ClassOf(g))]
    OBVIOUS
  <1>6. f \in [S -> Nat] /\ k \in [S \cup {n} -> Nat] /\ (\A g \in S : k[g] = f[g]) /\ k[n] = ClassBytes(ClassOf(n))
    BY <1>4, <1>5
  <1>7. SumFunction(f) \in Nat /\ SumFunction(k) \in Nat /\ SumFunction(k) = SumFunction(f) + k[n]
    BY <1>2, <1>3, <1>6, SumPut
  <1>8. SlotSum(G) = SumFunction(f)
    BY <1>1, <1>5 DEF SlotSum
  <1>9. SlotSum(G \cup {n}) = SumFunction(k)
    BY <1>2, <1>5 DEF SlotSum
  <1> QED BY <1>1, <1>2, <1>6, <1>7, <1>8, <1>9

\* A run more.
RunMore(D, cls, r, kinds) ==
  /\ IsFiniteSet(D) /\ r \notin D /\ cls \in [D -> Classes] /\ kinds \in [D \cup {r} -> Classes]
  /\ \A x \in D : kinds[x] = cls[x]

\* A run more is its size more.
LEMMA RunCounted ==
  ASSUME BuddyAssumption, SlabAssumption, NEW D, NEW r, NEW cls, NEW kinds, RunMore(D, cls, r, kinds)
  PROVE  RunSum(D, cls) \in Nat /\ RunSum(D \cup {r}, kinds) \in Nat /\ RunSum(D \cup {r}, kinds) = RunSum(D, cls) + RunSize(kinds[r])
  <1> USE DEF RunMore
  <1>1. \A c \in Classes : RunSize(c) \in Nat
    BY ClassesSized DEF ClassSizes
  <1>2. PICK f, k : f = [x \in D |-> RunSize(cls[x])] /\ k = [x \in D \cup {r} |-> RunSize(kinds[x])]
    OBVIOUS
  <1>3. f \in [D -> Nat] /\ k \in [D \cup {r} -> Nat] /\ (\A x \in D : k[x] = f[x]) /\ k[r] = RunSize(kinds[r])
    BY <1>1, <1>2
  <1>4. SumFunction(f) \in Nat /\ SumFunction(k) \in Nat /\ SumFunction(k) = SumFunction(f) + k[r]
    BY <1>3, SumPut
  <1>5. RunSum(D, cls) = SumFunction(f) /\ RunSum(D \cup {r}, kinds) = SumFunction(k)
    BY <1>2 DEF RunSum
  <1> QED BY <1>3, <1>4, <1>5

\* The first free slot of a run is handed out.
LEMMA SoundTake ==
  ASSUME BuddyAssumption, SlabAssumption,
         NEW t, NEW G, NEW h, NEW cls, NEW Y, NEW rl, NEW sl, Sound(t, G, h, cls, Y, rl, sl),
         NEW r \in DOMAIN h.runs, h.runs[r].free # <<>>, NEW n, n.at = Head(h.runs[r].free),
         n = [at |-> n.at, asked |-> n.asked, align |-> n.align], n.asked \in AllocSizes, n.align \in Aligns,
         IsSlot(n.asked, n.align), ClassOf(n) = cls[r]
  PROVE  LET g == Holding(h, r, Tail(h.runs[r].free), h.runs[r].inuse + 1)
         IN  /\ Sound(t, G \cup {n}, g, cls, Y, rl, sl + ClassBytes(cls[r]))
             /\ n \notin G /\ Held(g, h, r, Tail(h.runs[r].free), h.runs[r].inuse + 1)
  <1>1. PICK D, c, free, inuse, O : D = DOMAIN h.runs /\ c = cls[r] /\ free = h.runs[r].free /\ inuse = h.runs[r].inuse
                                    /\ O = OwnedIn(G, r)
    OBVIOUS
  <1>2. PICK g : g = Holding(h, r, Tail(free), inuse + 1)
    OBVIOUS
  <1>3. /\ IsFiniteSet(G) /\ (\A x \in G : Granted(x)) /\ IsFiniteSet(D)
        /\ Places(t, G, D, cls) /\ Fills(G, h, cls) /\ Lists(h, cls, Y)
        /\ rl = RunSum(D, cls) /\ sl = SlotSum(G)
    BY <1>1 DEF Sound
  <1>4. HeadsOK(h) /\ cls \in [D -> Classes] /\ c \in Classes
    BY <1>1, <1>3 DEF Lists
  <1>5. RunFill(O, r, c, free, inuse)
    BY <1>1, <1>3 DEF Fills
  <1>6. /\ RunFill(O \cup {n}, r, c, Tail(free), inuse + 1) /\ n \notin O /\ n.at \in SlotAts(r, c) /\ inuse + 1 \in Nat
        /\ Tail(free) \in Seq(Nat)
    <2>1. free # <<>> /\ n.at = Head(free) /\ ClassOf(n) = c
      BY <1>1
    <2>2. RunFill(O \cup {n}, r, c, Tail(free), inuse + 1) /\ n \notin O /\ n.at \in SlotAts(r, c) /\ inuse + 1 \in Nat
      BY ONLY <1>5, <2>1, SlotTaken
    <2> QED BY <2>2 DEF RunFill
  <1>7. Held(g, h, r, Tail(free), inuse + 1)
    BY <1>2, <1>4, <1>6, HoldingFields
  <1>8. n.at \in Nat /\ RunAt(n.at, c) = r
    <2>1. Spot(BucketFor(RunSize(cls[r])), r) /\ r \in Nat
      BY <1>1, <1>3, <1>4, RunPlaced
    <2> QED BY <1>1, <1>4, <1>6, <2>1, SlotPlaced
  <1>9. Granted(n)
    BY <1>1, <1>4, <1>8 DEF Granted
  <1>10. n \notin G
    BY <1>1, <1>6, <1>8 DEF OwnedIn
  <1>11. /\ OwnedIn(G \cup {n}, r) = O \cup {n} /\ \A x \in D \ {r} : OwnedIn(G \cup {n}, x) = OwnedIn(G, x)
    BY <1>1, <1>8 DEF OwnedIn
  <1>12. /\ SlotSum(G \cup {n}) = sl + ClassBytes(c)
         /\ SlotsIn(G \cup {n}) = SlotsIn(G) \cup {n} /\ BigsIn(G \cup {n}) = BigsIn(G)
    <2>1. IsSlot(n.asked, n.align) /\ ClassOf(n) = c /\ IsFiniteSet(G) /\ (\A x \in G : Granted(x)) /\ sl = SlotSum(G)
      BY <1>1, <1>3
    <2> QED BY ONLY BuddyAssumption, SlabAssumption, <1>9, <1>10, <2>1, SlotCounted
  <1>13. Places(t, G \cup {n}, D, cls)
    BY <1>3, <1>12 DEF Places
  <1>14. Fills(G \cup {n}, g, cls)
    <2>1. ASSUME NEW x \in SlotsIn(G \cup {n}) PROVE RunAt(x.at, ClassOf(x)) \in DOMAIN g.runs
      BY <1>1, <1>3, <1>7, <1>8, <1>12 DEF Fills, Held
    <2>2. ASSUME NEW x \in D PROVE RunFill(OwnedIn(G \cup {n}, x), x, cls[x], g.runs[x].free, g.runs[x].inuse)
      <3>1. CASE x = r
        BY <1>1, <1>6, <1>7, <1>11, <3>1 DEF Held
      <3>2. CASE x # r
        <4>1. g.runs[x].free = h.runs[x].free /\ g.runs[x].inuse = h.runs[x].inuse
          BY <1>1, <1>7, <3>2 DEF Held
        <4>2. RunFill(OwnedIn(G, x), x, cls[x], h.runs[x].free, h.runs[x].inuse)
          BY <1>1, <1>3 DEF Fills
        <4> QED BY <1>11, <3>2, <4>1, <4>2
      <3> QED BY <3>1, <3>2
    <2> QED BY <1>1, <1>7, <2>1, <2>2 DEF Fills, Held
  <1>15. Lists(g, cls, Y)
    <2>1. HeadsOK(g) /\ DOMAIN g.runs = D /\ g.partial = h.partial /\ \A x \in D : SameLinks(g, h, x)
      BY <1>1, <1>7 DEF Held
    <2>2. Y \subseteq D
      BY <1>1, <1>3 DEF Lists
    <2> QED BY <1>3, <1>4, <2>1, <2>2, ListsStand
  <1>16. IsFiniteSet(G \cup {n}) /\ \A x \in G \cup {n} : Granted(x)
    BY <1>3, <1>9, FS_AddElement
  <1>17. DOMAIN g.runs = D
    BY <1>1, <1>7 DEF Held
  <1>18. Sound(t, G \cup {n}, g, cls, Y, rl, sl + ClassBytes(c))
    BY <1>3, <1>12, <1>13, <1>14, <1>15, <1>16, <1>17 DEF Sound
  <1> QED BY <1>1, <1>2, <1>7, <1>10, <1>18
LiesIn(n, r) == IsSlot(n.asked, n.align) /\ r = RunAt(n.at, ClassOf(n))

\* A run a slot was given back to, and its slots free.
FreedSlots(h, r, at) == <<at>> \o h.runs[r].free
SlotBack(h, r, at)   == Holding(h, r, FreedSlots(h, r, at), h.runs[r].inuse - 1)

GaveBack(t, G, h, cls, Y, rl, sl, n, r) ==
  /\ Sound(t, G \ {n}, SlotBack(h, r, n.at), cls, Y, rl, sl - ClassBytes(cls[r])) /\ cls[r] = ClassOf(n)
  /\ r \in DOMAIN h.runs /\ Held(SlotBack(h, r, n.at), h, r, FreedSlots(h, r, n.at), h.runs[r].inuse - 1)
  /\ FreedSlots(h, r, n.at) # <<>> /\ (h.runs[r].inuse = 1 <=> OwnedIn(G \ {n}, r) = {})
  /\ h.runs[r].inuse \in Nat \ {0}

\* A slot is given back to its run.
LEMMA SoundGive ==
  ASSUME BuddyAssumption, SlabAssumption,
         NEW t, NEW G, NEW h, NEW cls, NEW Y, NEW rl, NEW sl, Sound(t, G, h, cls, Y, rl, sl),
         NEW n \in G, NEW r, LiesIn(n, r)
  PROVE  GaveBack(t, G, h, cls, Y, rl, sl, n, r)
  <1> USE DEF LiesIn
  <1>1. PICK D, c, free, inuse, O : D = DOMAIN h.runs /\ c = cls[r] /\ free = h.runs[r].free /\ inuse = h.runs[r].inuse
                                    /\ O = OwnedIn(G, r)
    OBVIOUS
  <1>2. PICK m, g : m = <<n.at>> \o free /\ g = Holding(h, r, m, inuse - 1)
    OBVIOUS
  <1>3. /\ IsFiniteSet(G) /\ (\A x \in G : Granted(x)) /\ IsFiniteSet(D)
        /\ Places(t, G, D, cls) /\ Fills(G, h, cls) /\ Lists(h, cls, Y)
        /\ rl = RunSum(D, cls) /\ sl = SlotSum(G)
    BY <1>1 DEF Sound
  <1>4. r \in D /\ n \in O
    BY <1>1, <1>3 DEF Fills, SlotsIn, OwnedIn
  <1>5. HeadsOK(h) /\ cls \in [D -> Classes] /\ c \in Classes
    BY <1>1, <1>3, <1>4 DEF Lists
  <1>6. RunFill(O, r, c, free, inuse) /\ n.at \in Nat
    BY <1>1, <1>3, <1>4 DEF Fills, Granted
  <1>7. /\ RunFill(O \ {n}, r, c, m, inuse - 1) /\ inuse \in Nat \ {0} /\ m # <<>> /\ (inuse = 1 <=> O \ {n} = {})
    BY ONLY <1>2, <1>4, <1>6, SlotGiven
  <1>8. ClassOf(n) = c /\ m \in Seq(Nat) /\ inuse - 1 \in Nat
    BY <1>4, <1>6, <1>7 DEF RunFill
  <1>9. Held(g, h, r, m, inuse - 1)
    BY <1>1, <1>2, <1>4, <1>5, <1>8, HoldingFields
  <1>10. OwnedIn(G \ {n}, r) = O \ {n} /\ \A x \in D \ {r} : OwnedIn(G \ {n}, x) = OwnedIn(G, x)
    BY <1>1 DEF OwnedIn
  <1>11. /\ SlotSum(G \ {n}) = sl - ClassBytes(c)
         /\ SlotsIn(G) = SlotsIn(G \ {n}) \cup {n} /\ BigsIn(G \ {n}) = BigsIn(G)
    <2>1. PICK F : F = G \ {n}
      OBVIOUS
    <2>2. IsFiniteSet(F) /\ n \notin F /\ F \cup {n} = G /\ (\A x \in F : Granted(x)) /\ Granted(n) /\ IsSlot(n.asked, n.align)
      BY <1>3, <2>1, FS_RemoveElement
    <2>3. /\ SlotSum(F) \in Nat /\ SlotSum(F \cup {n}) = SlotSum(F) + ClassBytes(ClassOf(n))
          /\ SlotsIn(F \cup {n}) = SlotsIn(F) \cup {n} /\ BigsIn(F \cup {n}) = BigsIn(F)
      BY ONLY BuddyAssumption, SlabAssumption, <2>2, SlotCounted
    <2>4. ClassBytes(c) \in Nat
      BY <1>5, ClassesSized DEF ClassSizes
    <2>5. sl = SlotSum(F) + ClassBytes(c)
      BY <1>3, <1>8, <2>2, <2>3
    <2>6. SlotSum(F) = sl - ClassBytes(c)
      BY <2>3, <2>4, <2>5
    <2> QED BY <2>1, <2>2, <2>3, <2>6
  <1>12. Places(t, G \ {n}, D, cls)
    BY <1>3, <1>11 DEF Places
  <1>13. Fills(G \ {n}, g, cls)
    <2>1. ASSUME NEW x \in SlotsIn(G \ {n}) PROVE RunAt(x.at, ClassOf(x)) \in DOMAIN g.runs
      BY <1>1, <1>3, <1>9, <1>11 DEF Fills, Held
    <2>2. ASSUME NEW x \in D PROVE RunFill(OwnedIn(G \ {n}, x), x, cls[x], g.runs[x].free, g.runs[x].inuse)
      <3>1. CASE x = r
        BY <1>1, <1>7, <1>9, <1>10, <3>1 DEF Held
      <3>2. CASE x # r
        <4>1. g.runs[x].free = h.runs[x].free /\ g.runs[x].inuse = h.runs[x].inuse
          BY <1>1, <1>9, <3>2 DEF Held
        <4>2. RunFill(OwnedIn(G, x), x, cls[x], h.runs[x].free, h.runs[x].inuse)
          BY <1>1, <1>3 DEF Fills
        <4> QED BY <1>10, <3>2, <4>1, <4>2
      <3> QED BY <3>1, <3>2
    <2> QED BY <1>1, <1>9, <2>1, <2>2 DEF Fills, Held
  <1>14. Lists(g, cls, Y)
    <2>1. HeadsOK(g) /\ DOMAIN g.runs = D /\ g.partial = h.partial /\ \A x \in D : SameLinks(g, h, x)
      BY <1>1, <1>9 DEF Held
    <2>2. Y \subseteq D
      BY <1>1, <1>3 DEF Lists
    <2> QED BY <1>3, <1>5, <2>1, <2>2, ListsStand
  <1>15. IsFiniteSet(G \ {n}) /\ \A x \in G \ {n} : Granted(x)
    BY <1>3, FS_RemoveElement
  <1>16. DOMAIN g.runs = D
    BY <1>1, <1>9 DEF Held
  <1>17. Sound(t, G \ {n}, g, cls, Y, rl, sl - ClassBytes(c))
    BY <1>3, <1>11, <1>12, <1>13, <1>14, <1>15, <1>16 DEF Sound
  <1> QED BY <1>1, <1>2, <1>4, <1>7, <1>8, <1>9, <1>10, <1>17 DEF SlotBack, FreedSlots, GaveBack

\* Nothing but links change: so it stays sound, the runs listed aside.
LEMMA SoundLinked ==
  ASSUME NEW t, NEW G, NEW h, NEW cls, NEW Y, NEW rl, NEW sl, Sound(t, G, h, cls, Y, rl, sl),
         NEW g, Relinked(g, h), NEW Z, Lists(g, cls, Z)
  PROVE  Sound(t, G, g, cls, Z, rl, sl)
  <1>1. /\ IsFiniteSet(G) /\ (\A x \in G : Granted(x)) /\ IsFiniteSet(DOMAIN h.runs)
        /\ Places(t, G, DOMAIN h.runs, cls) /\ Fills(G, h, cls)
        /\ rl = RunSum(DOMAIN h.runs, cls) /\ sl = SlotSum(G)
    BY DEF Sound
  <1>2. DOMAIN g.runs = DOMAIN h.runs
    BY DEF Relinked
  <1>3. Fills(G, g, cls)
    <2>1. ASSUME NEW x \in DOMAIN h.runs PROVE RunFill(OwnedIn(G, x), x, cls[x], g.runs[x].free, g.runs[x].inuse)
      BY <1>1 DEF Fills, Relinked
    <2> QED BY <1>1, <1>2, <2>1 DEF Fills
  <1> QED BY <1>1, <1>2, <1>3 DEF Sound

\* A run leaves its class's list.
LEMMA SoundDrop ==
  ASSUME NEW t, NEW G, NEW h, NEW cls, NEW Y, NEW rl, NEW sl, Sound(t, G, h, cls, Y, rl, sl), NEW r \in Y
  PROVE  Sound(t, G, DropPartial(h, cls[r], r), cls, Y \ {r}, rl, sl) /\ Relinked(DropPartial(h, cls[r], r), h)
  <1>1. PICK g : g = DropPartial(h, cls[r], r)
    OBVIOUS
  <1>2. Lists(g, cls, Y \ {r}) /\ Relinked(g, h)
    BY <1>1, DropLists DEF Sound
  <1> QED BY <1>1, <1>2, SoundLinked

\* A run joins its class's list.
LEMMA SoundPush ==
  ASSUME NEW t, NEW G, NEW h, NEW cls, NEW Y, NEW rl, NEW sl, Sound(t, G, h, cls, Y, rl, sl),
         NEW r \in DOMAIN h.runs, r \notin Y
  PROVE  /\ Sound(t, G, PushPartial(h, cls[r], r), cls, Y \cup {r}, rl, sl) /\ Relinked(PushPartial(h, cls[r], r), h)
         /\ PushPartial(h, cls[r], r).partial[cls[r]] = r
  <1>1. PICK g : g = PushPartial(h, cls[r], r)
    OBVIOUS
  <1>2. Lists(g, cls, Y \cup {r}) /\ Relinked(g, h) /\ g.partial[cls[r]] = r
    BY <1>1, PushLists DEF Sound
  <1> QED BY <1>1, <1>2, SoundLinked
-----------------------------------------------------------------------------
\* The blocks there are: no two at one address, and all within what is taken, as it grows.
BlocksOf(G, D, cls) == RunBlocks(D, cls) \cup Used(BigsIn(G))

\* A block just allocated is at no other's address.
LEMMA NewSpot ==
  ASSUME BuddyAssumption, NEW t, NEW X, NEW b, NEW p, TreeOK(t, X \cup {<<b, p>>}), <<b, p>> \notin X, NEW s \in X
  PROVE  s[2] # p
  <1>1. SUFFICES ASSUME s[2] = p PROVE FALSE
    OBVIOUS
  <1>2. PICK B, u : B = FreeAt(t) \cup (X \cup {<<b, p>>}) /\ u = <<b, p>>
    OBVIOUS
  <1>3. Tiling(B, t.limit) /\ s \in B /\ u \in B /\ s[2] = u[2] /\ s # u
    BY <1>1, <1>2 DEF TreeOK
  <1> QED BY <1>3, TileOnce

\* What lay within the range taken still does.
LEMMA WithinGrown ==
  ASSUME BuddyAssumption, SlabAssumption, NEW t, NEW G, \A g \in G : Granted(g), NEW D, NEW cls \in [D -> Classes],
         Places(t, G, D, cls), NEW u, NEW X, TreeOK(u, X), t.max <= u.max
  PROVE  /\ \A r \in D : r + RunSize(cls[r]) <= u.max
         /\ \A g \in BigsIn(G) : g.at + SizeOf(BucketFor(g.asked)) <= u.max
  <1>1. t.max \in Int /\ u.max \in Int
    <2>1. t \in Trees /\ u \in Trees
      BY DEF Places, TreeOK
    <2>2. t.max \in LinkBytes .. EndAt /\ u.max \in LinkBytes .. EndAt
      BY <2>1, TreeTypes
    <2> QED BY <2>2
  <1>2. ASSUME NEW r \in D PROVE r + RunSize(cls[r]) <= u.max
    <2>1. r \in Nat /\ RunSize(cls[r]) \in Nat
      BY RunPlaced DEF ClassSizes
    <2>2. r + RunSize(cls[r]) <= t.max
      BY DEF Places
    <2> QED BY <1>1, <2>1, <2>2
  <1>3. ASSUME NEW g \in BigsIn(G) PROVE g.at + SizeOf(BucketFor(g.asked)) <= u.max
    <2>1. g.at \in Nat /\ g.asked \in Nat /\ g.asked <= SizeOf(0)
      BY DEF BigsIn, SlotsIn, Granted, SlabAssumption
    <2>2. SizeOf(BucketFor(g.asked)) \in Nat
      BY <2>1, BucketForOK, Sizes
    <2>3. g.at + SizeOf(BucketFor(g.asked)) <= t.max
      BY DEF Places
    <2> QED BY <1>1, <2>1, <2>2, <2>3
  <1> QED BY <1>2, <1>3

\* The tree may grow to no avail.
LEMMA SoundTree ==
  ASSUME BuddyAssumption, SlabAssumption,
         NEW t, NEW G, NEW h, NEW cls, NEW Y, NEW rl, NEW sl, Sound(t, G, h, cls, Y, rl, sl),
         NEW u, TreeOK(u, BlocksOf(G, DOMAIN h.runs, cls)), t.max <= u.max
  PROVE  Sound(u, G, h, cls, Y, rl, sl)
  <1>1. PICK D : D = DOMAIN h.runs
    OBVIOUS
  <1>2. Places(t, G, D, cls) /\ cls \in [D -> Classes] /\ (\A g \in G : Granted(g)) /\ TreeOK(u, BlocksOf(G, D, cls))
    BY <1>1 DEF Sound, Lists
  <1>3. /\ \A r \in D : r + RunSize(cls[r]) <= u.max
        /\ \A g \in BigsIn(G) : g.at + SizeOf(BucketFor(g.asked)) <= u.max
    BY <1>2, WithinGrown
  <1>4. Places(u, G, D, cls)
    BY <1>2, <1>3 DEF Places, BlocksOf
  <1> QED BY <1>1, <1>4 DEF Sound

\* The runs' classes with a run more, and with one fewer.
ClassesWith(cls, D, base, c) == [x \in D \cup {base} |-> IF x = base THEN c ELSE cls[x]]
ClassesBut(cls, D, r)        == [x \in D \ {r} |-> cls[x]]

LEMMA SoundBeside ==
  ASSUME BuddyAssumption, SlabAssumption,
         NEW t, NEW G, NEW h, NEW cls, NEW Y, NEW rl, NEW sl, Sound(t, G, h, cls, Y, rl, sl),
         NEW c \in Classes, NEW u, NEW base \in Nat, t.max <= u.max, base + RunSize(c) <= u.max,
         TreeOK(u, BlocksOf(G, DOMAIN h.runs, cls) \cup {<<BucketFor(RunSize(c)), base>>}),
         <<BucketFor(RunSize(c)), base>> \notin BlocksOf(G, DOMAIN h.runs, cls),
         NEW kinds, kinds = ClassesWith(cls, DOMAIN h.runs, base, c)
  PROVE  /\ Sound(u, G, Beside(h, c, base), kinds, Y, rl + RunSize(c), sl) /\ base \notin DOMAIN h.runs
         /\ DOMAIN Beside(h, c, base).runs = DOMAIN h.runs \cup {base}
         /\ Beside(h, c, base).runs[base].free = FreshSlots(base, c) /\ Beside(h, c, base).runs[base].inuse = 0
         /\ \A x \in DOMAIN h.runs : Beside(h, c, base).runs[x] = h.runs[x]
  <1>1. PICK D, g, b, X, E : /\ D = DOMAIN h.runs /\ g = Beside(h, c, base) /\ b = BucketFor(RunSize(c))
                             /\ X = BlocksOf(G, D, cls) /\ E = D \cup {base}
    OBVIOUS
  <1>2. /\ IsFiniteSet(G) /\ (\A x \in G : Granted(x)) /\ IsFiniteSet(D)
        /\ Places(t, G, D, cls) /\ Fills(G, h, cls) /\ Lists(h, cls, Y)
        /\ rl = RunSum(D, cls) /\ sl = SlotSum(G) /\ HeadsOK(h) /\ cls \in [D -> Classes]
    BY <1>1 DEF Sound, Lists
  <1>3. TreeOK(u, X \cup {<<b, base>>}) /\ <<b, base>> \notin X
    BY <1>1
  <1>4. \A s \in X : s[2] # base
    BY <1>3, NewSpot
  <1>5. base \notin D
    <2>1. SUFFICES ASSUME base \in D PROVE FALSE
      OBVIOUS
    <2>2. <<BucketFor(RunSize(cls[base])), base>> \in X
      BY <1>1, <2>1 DEF BlocksOf, RunBlocks
    <2> QED BY <1>4, <2>2
  <1>6. \A x \in BigsIn(G) : x.at # base
    <2>1. ASSUME NEW x \in BigsIn(G) PROVE <<BucketFor(x.asked), x.at>> \in X
      BY <1>1 DEF BlocksOf, Used
    <2> QED BY <1>4, <2>1
  <1>7. /\ kinds \in [E -> Classes] /\ kinds[base] = c /\ \A x \in D : kinds[x] = cls[x]
    BY <1>1, <1>2, <1>5 DEF ClassesWith
  <1>8. RunFill({}, base, c, FreshSlots(base, c), 0) /\ FreshSlots(base, c) \in Seq(Nat)
    BY SlotsFresh DEF RunFill
  <1>9. /\ HeadsOK(g) /\ g.partial = h.partial /\ DOMAIN g.runs = E
        /\ g.runs[base].free = FreshSlots(base, c) /\ g.runs[base].inuse = 0
        /\ \A x \in D : g.runs[x] = h.runs[x] /\ SameLinks(g, h, x)
    BY <1>1, <1>2, <1>5, <1>8, BesideFields
  <1>10. RunBlocks(E, kinds) = RunBlocks(D, cls) \cup {<<b, base>>}
    BY <1>1, <1>7 DEF RunBlocks
  <1>11. Places(u, G, E, kinds)
    <2>1. RunBlocks(E, kinds) \cup Used(BigsIn(G)) = X \cup {<<b, base>>}
      BY <1>1, <1>10 DEF BlocksOf
    <2>2. TreeOK(u, RunBlocks(E, kinds) \cup Used(BigsIn(G)))
      BY <1>3, <2>1
    <2>3. /\ \A r \in D : r + RunSize(cls[r]) <= u.max
          /\ \A x \in BigsIn(G) : x.at + SizeOf(BucketFor(x.asked)) <= u.max
      BY <1>2, <1>3, WithinGrown
    <2>4. \A r \in E : r + RunSize(kinds[r]) <= u.max
      BY <1>1, <1>7, <2>3
    <2> QED BY <1>1, <1>2, <1>6, <2>2, <2>3, <2>4 DEF Places
  <1>12. Fills(G, g, kinds)
    <2>1. OwnedIn(G, base) = {}
      BY <1>1, <1>2, <1>5 DEF Fills, OwnedIn, SlotsIn
    <2>2. ASSUME NEW x \in E PROVE RunFill(OwnedIn(G, x), x, kinds[x], g.runs[x].free, g.runs[x].inuse)
      <3>1. CASE x = base
        BY <1>7, <1>8, <1>9, <2>1, <3>1
      <3>2. CASE x # base
        <4>1. x \in D
          BY <1>1, <3>2
        <4> QED BY <1>1, <1>2, <1>7, <1>9, <4>1 DEF Fills
      <3> QED BY <3>1, <3>2
    <2>3. \A x \in SlotsIn(G) : RunAt(x.at, ClassOf(x)) \in E
      BY <1>1, <1>2 DEF Fills
    <2> QED BY <1>9, <2>2, <2>3 DEF Fills
  <1>13. Lists(g, kinds, Y)
    <2>1. Y \subseteq D
      BY <1>1, <1>2 DEF Lists
    <2>2. \A x \in Y : SameLinks(g, h, x) /\ kinds[x] = cls[x]
      BY <1>7, <1>9, <2>1
    <2>3. kinds \in [DOMAIN g.runs -> Classes]
      BY <1>7, <1>9
    <2> QED BY <1>2, <1>9, <2>2, <2>3, ListsStand
  <1>14. rl + RunSize(c) = RunSum(E, kinds) /\ IsFiniteSet(E)
    <2>1. RunMore(D, cls, base, kinds)
      BY <1>1, <1>2, <1>5, <1>7 DEF RunMore
    <2> QED BY <1>1, <1>2, <1>7, <2>1, RunCounted, FS_AddElement
  <1>15. Sound(u, G, g, kinds, Y, rl + RunSize(c), sl)
    BY <1>2, <1>9, <1>11, <1>12, <1>13, <1>14 DEF Sound
  <1> QED BY <1>1, <1>5, <1>9, <1>15

\* A run none is in goes back to the tree.
LEMMA SoundWithout ==
  ASSUME BuddyAssumption, SlabAssumption,
         NEW t, NEW G, NEW h, NEW cls, NEW Y, NEW rl, NEW sl, Sound(t, G, h, cls, Y, rl, sl),
         NEW r \in DOMAIN h.runs \ Y, OwnedIn(G, r) = {},
         NEW kinds, kinds = ClassesBut(cls, DOMAIN h.runs, r)
  PROVE  /\ Sound(Freed(t, r, RunSize(cls[r])), G, Without(h, r), kinds, Y, rl - RunSize(cls[r]), sl)
         /\ DOMAIN Without(h, r).runs = DOMAIN h.runs \ {r} /\ \A x \in DOMAIN h.runs \ {r} : Without(h, r).runs[x] = h.runs[x]
  <1>1. PICK D, g, c, b, E, u : /\ D = DOMAIN h.runs /\ g = Without(h, r) /\ c = cls[r] /\ b = BucketFor(RunSize(c))
                                /\ E = D \ {r} /\ u = Freed(t, r, RunSize(c))
    OBVIOUS
  <1>2. /\ IsFiniteSet(G) /\ (\A x \in G : Granted(x)) /\ IsFiniteSet(D)
        /\ Places(t, G, D, cls) /\ Fills(G, h, cls) /\ Lists(h, cls, Y)
        /\ rl = RunSum(D, cls) /\ sl = SlotSum(G) /\ HeadsOK(h) /\ cls \in [D -> Classes] /\ c \in Classes
    BY <1>1 DEF Sound, Lists
  <1>3. kinds \in [E -> Classes] /\ \A x \in E : kinds[x] = cls[x]
    BY <1>1, <1>2 DEF ClassesBut
  <1>4. PICK X : X = RunBlocks(E, kinds) \cup Used(BigsIn(G))
    OBVIOUS
  <1>5. RunBlocks(D, cls) = RunBlocks(E, kinds) \cup {<<b, r>>}
    BY <1>1, <1>3 DEF RunBlocks
  <1>6. TreeOK(t, X \cup {<<b, r>>})
    <2>1. RunBlocks(D, cls) \cup Used(BigsIn(G)) = X \cup {<<b, r>>}
      BY <1>4, <1>5
    <2> QED BY <1>2, <2>1 DEF Places
  <1>7. <<b, r>> \notin X
    <2>1. <<b, r>> \notin RunBlocks(E, kinds)
      BY <1>1 DEF RunBlocks
    <2>2. \A x \in BigsIn(G) : x.at # r
      BY <1>1, <1>2 DEF Places
    <2>3. <<b, r>> \notin Used(BigsIn(G))
      BY <2>2 DEF Used
    <2> QED BY <1>4, <2>1, <2>3
  <1>8. r \in Nat /\ ClassSizes(c) /\ t.max \in Nat /\ r + RunSize(c) <= t.max
    BY <1>1, <1>2, RunPlaced DEF Places
  <1>9. r + LinkBytes <= t.max
    <2>1. b \in Buckets /\ SizeOf(b) = RunSize(c)
      BY <1>1, <1>8 DEF ClassSizes
    <2>2. LinkBytes <= RunSize(c) /\ LinkBytes \in Nat /\ RunSize(c) \in Nat
      BY <2>1, Sizes
    <2> QED BY <1>8, <2>2
  <1>10. TreeOK(u, X) /\ u.max = t.max
    <2>1. TreeOK(t, X \cup {<<BucketFor(RunSize(c)), r>>}) /\ <<BucketFor(RunSize(c)), r>> \notin X
      BY <1>1, <1>6, <1>7
    <2> QED BY <1>1, <1>9, <2>1, FreedOK
  <1>11. Places(u, G, E, kinds)
    <2>1. \A x \in E : x + RunSize(kinds[x]) <= u.max
      BY <1>1, <1>2, <1>3, <1>10 DEF Places
    <2>2. \A x \in BigsIn(G) : x.at + SizeOf(BucketFor(x.asked)) <= u.max /\ x.at \notin E
      BY <1>1, <1>2, <1>10 DEF Places
    <2>3. \A x, y \in BigsIn(G) : x.at = y.at => x = y
      BY <1>2 DEF Places
    <2> QED BY <1>4, <1>10, <2>1, <2>2, <2>3 DEF Places
  <1>12. /\ HeadsOK(g) /\ g.partial = h.partial /\ DOMAIN g.runs = E
         /\ \A x \in E : g.runs[x] = h.runs[x] /\ SameLinks(g, h, x)
    BY <1>1, <1>2, WithoutFields
  <1>13. Fills(G, g, kinds)
    <2>1. ASSUME NEW x \in E PROVE RunFill(OwnedIn(G, x), x, kinds[x], g.runs[x].free, g.runs[x].inuse)
      BY <1>1, <1>2, <1>3, <1>12 DEF Fills
    <2>2. \A x \in SlotsIn(G) : RunAt(x.at, ClassOf(x)) \in E
      BY <1>1, <1>2 DEF Fills, OwnedIn, SlotsIn
    <2> QED BY <1>12, <2>1, <2>2 DEF Fills
  <1>14. Lists(g, kinds, Y)
    <2>1. Y \subseteq E
      BY <1>1, <1>2 DEF Lists
    <2>2. \A x \in Y : SameLinks(g, h, x) /\ kinds[x] = cls[x]
      BY <1>3, <1>12, <2>1
    <2>3. kinds \in [DOMAIN g.runs -> Classes]
      BY <1>3, <1>12
    <2> QED BY <1>2, <1>12, <2>2, <2>3, ListsStand
  <1>15. rl - RunSize(c) = RunSum(E, kinds) /\ IsFiniteSet(E)
    <2>1. IsFiniteSet(E) /\ E \cup {r} = D /\ r \notin E
      BY <1>1, <1>2, FS_RemoveElement
    <2>2. cls \in [E \cup {r} -> Classes]
      BY <1>2, <2>1
    <2>3. RunSum(E, kinds) \in Nat /\ RunSum(E \cup {r}, cls) = RunSum(E, kinds) + RunSize(cls[r])
      <3>1. RunMore(E, kinds, r, cls)
        BY <1>3, <2>1, <2>2 DEF RunMore
      <3> QED BY <3>1, RunCounted
    <2>4. RunSize(c) \in Nat /\ rl = RunSum(E, kinds) + RunSize(c)
      BY <1>1, <1>2, <1>8, <2>1, <2>3 DEF ClassSizes
    <2> QED BY <2>1, <2>3, <2>4
  <1>16. Sound(u, G, g, kinds, Y, rl - RunSize(c), sl)
    BY <1>2, <1>11, <1>12, <1>13, <1>14, <1>15 DEF Sound
  <1> QED BY <1>1, <1>12, <1>16

\* A page or more is a block of its own: granted, and given back.
LEMMA SoundBig ==
  ASSUME BuddyAssumption, SlabAssumption,
         NEW t, NEW G, NEW h, NEW cls, NEW Y, NEW rl, NEW sl, Sound(t, G, h, cls, Y, rl, sl),
         NEW n, Granted(n), ~ IsSlot(n.asked, n.align), NEW u, t.max <= u.max, n.at + SizeOf(BucketFor(n.asked)) <= u.max,
         TreeOK(u, BlocksOf(G, DOMAIN h.runs, cls) \cup {<<BucketFor(n.asked), n.at>>}),
         <<BucketFor(n.asked), n.at>> \notin BlocksOf(G, DOMAIN h.runs, cls)
  PROVE  Sound(u, G \cup {n}, h, cls, Y, rl, sl)
  <1>1. PICK D, b, X : D = DOMAIN h.runs /\ b = BucketFor(n.asked) /\ X = BlocksOf(G, D, cls)
    OBVIOUS
  <1>2. /\ IsFiniteSet(G) /\ (\A x \in G : Granted(x)) /\ IsFiniteSet(D)
        /\ Places(t, G, D, cls) /\ Fills(G, h, cls) /\ Lists(h, cls, Y)
        /\ rl = RunSum(D, cls) /\ sl = SlotSum(G) /\ cls \in [D -> Classes]
    BY <1>1 DEF Sound, Lists
  <1>3. TreeOK(u, X \cup {<<b, n.at>>}) /\ <<b, n.at>> \notin X
    BY <1>1
  <1>4. \A s \in X : s[2] # n.at
    BY <1>3, NewSpot
  <1>5. n.at \notin D
    <2>1. ASSUME NEW r \in D PROVE <<BucketFor(RunSize(cls[r])), r>> \in X
      BY <1>1 DEF BlocksOf, RunBlocks
    <2> QED BY <1>4, <2>1
  <1>6. \A x \in BigsIn(G) : x.at # n.at
    <2>1. ASSUME NEW x \in BigsIn(G) PROVE <<BucketFor(x.asked), x.at>> \in X
      BY <1>1 DEF BlocksOf, Used
    <2> QED BY <1>4, <2>1
  <1>7. SlotsIn(G \cup {n}) = SlotsIn(G) /\ BigsIn(G \cup {n}) = BigsIn(G) \cup {n} /\ \A r : OwnedIn(G \cup {n}, r) = OwnedIn(G, r)
    BY DEF SlotsIn, BigsIn, OwnedIn
  <1>8. Places(u, G \cup {n}, D, cls)
    <2>1. RunBlocks(D, cls) \cup Used(BigsIn(G \cup {n})) = X \cup {<<b, n.at>>}
      BY <1>1, <1>7 DEF BlocksOf, Used
    <2>2. TreeOK(u, RunBlocks(D, cls) \cup Used(BigsIn(G \cup {n})))
      BY <1>3, <2>1
    <2>3. /\ \A r \in D : r + RunSize(cls[r]) <= u.max
          /\ \A x \in BigsIn(G) : x.at + SizeOf(BucketFor(x.asked)) <= u.max
      BY <1>2, <1>3, WithinGrown
    <2>4. \A x, y \in BigsIn(G \cup {n}) : x.at = y.at => x = y
      BY <1>2, <1>6, <1>7 DEF Places
    <2>5. \A x \in BigsIn(G \cup {n}) : x.at + SizeOf(BucketFor(x.asked)) <= u.max /\ x.at \notin D
      BY <1>2, <1>5, <1>7, <2>3 DEF Places
    <2> QED BY <2>2, <2>3, <2>4, <2>5 DEF Places
  <1>9. Fills(G \cup {n}, h, cls) /\ SlotSum(G \cup {n}) = sl
    BY <1>2, <1>7 DEF Fills, SlotSum
  <1>10. IsFiniteSet(G \cup {n}) /\ \A x \in G \cup {n} : Granted(x)
    BY <1>2, FS_AddElement
  <1> QED BY <1>1, <1>2, <1>8, <1>9, <1>10 DEF Sound

\* A page or more goes back to the tree.
LEMMA SoundFreeBig ==
  ASSUME BuddyAssumption, SlabAssumption,
         NEW t, NEW G, NEW h, NEW cls, NEW Y, NEW rl, NEW sl, Sound(t, G, h, cls, Y, rl, sl),
         NEW n \in G, ~ IsSlot(n.asked, n.align)
  PROVE  Sound(Freed(t, n.at, n.asked), G \ {n}, h, cls, Y, rl, sl)
  <1>1. PICK D, b, F, X, u : /\ D = DOMAIN h.runs /\ b = BucketFor(n.asked) /\ F = G \ {n} /\ X = BlocksOf(F, D, cls)
                             /\ u = Freed(t, n.at, n.asked)
    OBVIOUS
  <1>2. /\ IsFiniteSet(G) /\ (\A x \in G : Granted(x)) /\ IsFiniteSet(D)
        /\ Places(t, G, D, cls) /\ Fills(G, h, cls) /\ Lists(h, cls, Y)
        /\ rl = RunSum(D, cls) /\ sl = SlotSum(G) /\ cls \in [D -> Classes]
    BY <1>1 DEF Sound, Lists
  <1>3. SlotsIn(F) = SlotsIn(G) /\ BigsIn(F) = BigsIn(G) \ {n} /\ n \in BigsIn(G) /\ \A r : OwnedIn(F, r) = OwnedIn(G, r)
    BY <1>1 DEF SlotsIn, BigsIn, OwnedIn
  <1>4. \A x \in BigsIn(G) : x.at \notin D /\ (x.at = n.at => x = n)
    BY <1>2, <1>3 DEF Places
  <1>5. <<b, n.at>> \notin X
    <2>1. <<b, n.at>> \notin RunBlocks(D, cls)
      BY <1>3, <1>4 DEF RunBlocks
    <2>2. <<b, n.at>> \notin Used(BigsIn(F))
      BY <1>3, <1>4 DEF Used
    <2> QED BY <1>1, <2>1, <2>2 DEF BlocksOf
  <1>6. TreeOK(t, X \cup {<<b, n.at>>})
    <2>1. RunBlocks(D, cls) \cup Used(BigsIn(G)) = X \cup {<<b, n.at>>}
      BY <1>1, <1>3 DEF BlocksOf, Used
    <2> QED BY <1>2, <2>1 DEF Places
  <1>7. n.at + LinkBytes <= t.max
    <2>1. n.at \in Nat /\ n.asked \in Nat /\ n.asked <= SizeOf(0)
      BY <1>2 DEF Granted, SlabAssumption
    <2>2. LinkBytes <= SizeOf(b) /\ SizeOf(b) \in Nat /\ LinkBytes \in Nat
      BY <1>1, <2>1, BucketForOK, Sizes
    <2>3. n.at + SizeOf(b) <= t.max
      BY <1>1, <1>2, <1>3 DEF Places
    <2>4. t \in Trees
      BY <1>6 DEF TreeOK
    <2>5. t.max \in LinkBytes .. EndAt
      BY <2>4, TreeTypes
    <2> QED BY <2>1, <2>2, <2>3, <2>5
  <1>8. TreeOK(u, X) /\ u.max = t.max
    <2>1. TreeOK(t, X \cup {<<BucketFor(n.asked), n.at>>}) /\ <<BucketFor(n.asked), n.at>> \notin X
      BY <1>1, <1>5, <1>6
    <2> QED BY <1>1, <1>7, <2>1, FreedOK
  <1>9. Places(u, F, D, cls)
    <2>1. TreeOK(u, RunBlocks(D, cls) \cup Used(BigsIn(F)))
      BY <1>1, <1>8 DEF BlocksOf
    <2> QED BY <1>2, <1>3, <1>8, <2>1 DEF Places
  <1>10. Fills(F, h, cls) /\ SlotSum(F) = sl
    BY <1>2, <1>3 DEF Fills, SlotSum
  <1>11. IsFiniteSet(F) /\ \A x \in F : Granted(x)
    BY <1>1, <1>2, FS_RemoveElement
  <1> QED BY <1>1, <1>2, <1>9, <1>10, <1>11 DEF Sound
-----------------------------------------------------------------------------
(***************************************************************************)
(* Between calls: runs listed are those with a slot free, and none is      *)
(* empty.  Then each operation's headers, whole.                           *)
(***************************************************************************)
WithFree(h) == {r \in DOMAIN h.runs : h.runs[r].free # <<>>}

Settled(t, G, h, cls, rl, sl) ==
  Sound(t, G, h, cls, WithFree(h), rl, sl) /\ \A x \in DOMAIN h.runs : h.runs[x].inuse # 0

\* A slot taken of a run; a block's slot given back, with its run's last or not.
TakenFrom(h, c, r) ==
  LET taken == Holding(h, r, Tail(h.runs[r].free), h.runs[r].inuse + 1)
  IN  IF taken.runs[r].free = <<>> THEN DropPartial(taken, c, r) ELSE taken

GivenTo(h, c, r, at) ==
  IF WasFull(h.runs[r]) THEN PushPartial(SlotBack(h, r, at), c, r) ELSE SlotBack(h, r, at)

EmptiedOf(h, c, r, at) ==
  Without(IF WasFull(h.runs[r]) THEN SlotBack(h, r, at) ELSE DropPartial(SlotBack(h, r, at), c, r), r)

\* A slot asked for.
Asks(n) ==
  /\ n = [at |-> n.at, asked |-> n.asked, align |-> n.align] /\ n.asked \in AllocSizes /\ n.align \in Aligns
  /\ IsSlot(n.asked, n.align)

\* A slot taken: its run leaves the list where that was its last.
LEMMA TakeSettles ==
  ASSUME BuddyAssumption, SlabAssumption,
         NEW t, NEW G, NEW h, NEW cls, NEW rl, NEW sl, Sound(t, G, h, cls, WithFree(h), rl, sl),
         NEW r \in WithFree(h), \A x \in DOMAIN h.runs \ {r} : h.runs[x].inuse # 0,
         NEW n, Asks(n), n.at = Head(h.runs[r].free), ClassOf(n) = cls[r]
  PROVE  Settled(t, G \cup {n}, TakenFrom(h, cls[r], r), cls, rl, sl + ClassBytes(cls[r])) /\ n \notin G
  <1>1. PICK Y, m, u, D : Y = WithFree(h) /\ m = Tail(h.runs[r].free) /\ u = h.runs[r].inuse + 1 /\ D = DOMAIN h.runs
    OBVIOUS
  <1>2. PICK g : g = Holding(h, r, m, u)
    OBVIOUS
  <1>3. r \in D /\ h.runs[r].free # <<>> /\ Sound(t, G, h, cls, Y, rl, sl)
    BY <1>1 DEF WithFree
  <1>4. Sound(t, G \cup {n}, g, cls, Y, rl, sl + ClassBytes(cls[r])) /\ n \notin G /\ Held(g, h, r, m, u)
    BY <1>1, <1>2, <1>3, SoundTake DEF Asks
  <1>5. /\ DOMAIN g.runs = D /\ g.runs[r].free = m /\ g.runs[r].inuse = u
        /\ \A x \in D \ {r} : g.runs[x].free = h.runs[x].free /\ g.runs[x].inuse = h.runs[x].inuse
    BY <1>1, <1>4 DEF Held
  <1>6. u # 0
    <2>1. HeadsOK(h)
      BY <1>3 DEF Sound, Lists
    <2>2. h.runs[r].inuse \in Nat
      BY <1>1, <1>3, <2>1, HeaderTypes
    <2> QED BY <1>1, <2>2
  <1>7. TakenFrom(h, cls[r], r) = IF m = <<>> THEN DropPartial(g, cls[r], r) ELSE g
    BY <1>1, <1>2, <1>5 DEF TakenFrom
  <1>8. CASE m = <<>>
    <2>1. PICK d : d = DropPartial(g, cls[r], r)
      OBVIOUS
    <2>2. Sound(t, G \cup {n}, d, cls, Y \ {r}, rl, sl + ClassBytes(cls[r])) /\ Relinked(d, g)
      <3>1. r \in Y
        BY <1>1
      <3> QED BY <1>4, <2>1, <3>1, SoundDrop
    <2>3. DOMAIN d.runs = D /\ \A x \in D : d.runs[x].free = g.runs[x].free /\ d.runs[x].inuse = g.runs[x].inuse
      BY <1>5, <2>2 DEF Relinked
    <2>4. WithFree(d) = Y \ {r}
      BY <1>1, <1>3, <1>5, <1>8, <2>3 DEF WithFree
    <2>5. \A x \in DOMAIN d.runs : d.runs[x].inuse # 0
      BY <1>1, <1>5, <1>6, <2>3
    <2> QED BY <1>4, <1>7, <1>8, <2>1, <2>2, <2>4, <2>5 DEF Settled
  <1>9. CASE m # <<>>
    <2>1. WithFree(g) = Y
      BY <1>1, <1>3, <1>5, <1>9 DEF WithFree
    <2>2. \A x \in DOMAIN g.runs : g.runs[x].inuse # 0
      BY <1>1, <1>5, <1>6
    <2> QED BY <1>4, <1>7, <1>9, <2>1, <2>2 DEF Settled
  <1> QED BY <1>8, <1>9

\* What a list's head names is a run of its class, with a slot free.
LEMMA HeadListed ==
  ASSUME NEW h, NEW cls, Lists(h, cls, WithFree(h)), NEW c \in Classes, h.partial[c] # NoRun
  PROVE  h.partial[c] \in WithFree(h) /\ cls[h.partial[c]] = c
  <1>1. PICK l : Chain(h, c, l) /\ Runs(l) = {r \in WithFree(h) : cls[r] = c}
    BY DEF Lists
  <1>2. HeadsOK(h)
    BY DEF Lists
  <1>3. l # <<>> /\ h.partial[c] = l[1] /\ l[1] \in Runs(l)
    BY <1>1, <1>2, ChainTypes
  <1> QED BY <1>1, <1>3

\* A run made of a block, and listed.
LEMMA OpenSettles ==
  ASSUME BuddyAssumption, SlabAssumption,
         NEW t, NEW G, NEW h, NEW cls, NEW rl, NEW sl, Settled(t, G, h, cls, rl, sl),
         NEW c \in Classes, NEW got, Found(got, t, BlocksOf(G, DOMAIN h.runs, cls), BucketFor(RunSize(c))), got.at # None
  PROVE  \E kinds :
           /\ Sound(got.tree, G, Opened(h, c, got.at), kinds, WithFree(Opened(h, c, got.at)), rl + RunSize(c), sl)
           /\ got.at \in WithFree(Opened(h, c, got.at)) /\ kinds[got.at] = c
           /\ Opened(h, c, got.at).partial[c] = got.at
           /\ \A x \in DOMAIN Opened(h, c, got.at).runs \ {got.at} : Opened(h, c, got.at).runs[x].inuse # 0
  <1>1. PICK D, Y, base, u : D = DOMAIN h.runs /\ Y = WithFree(h) /\ base = got.at /\ u = got.tree
    OBVIOUS
  <1>2. PICK kinds : kinds = ClassesWith(cls, D, base, c)
    OBVIOUS
  <1>3. PICK b : b = Beside(h, c, base)
    OBVIOUS
  <1>4. /\ base \in Nat /\ t.max <= u.max /\ base + SizeOf(BucketFor(RunSize(c))) <= u.max
        /\ TreeOK(u, BlocksOf(G, D, cls) \cup {<<BucketFor(RunSize(c)), base>>})
        /\ <<BucketFor(RunSize(c)), base>> \notin BlocksOf(G, D, cls)
    BY <1>1 DEF Found
  <1>5. SizeOf(BucketFor(RunSize(c))) = RunSize(c)
    BY ClassesSized DEF ClassSizes
  <1>6. Sound(t, G, h, cls, Y, rl, sl) /\ \A x \in D : h.runs[x].inuse # 0
    BY <1>1 DEF Settled
  <1>7. /\ Sound(u, G, b, kinds, Y, rl + RunSize(c), sl) /\ base \notin D /\ DOMAIN b.runs = D \cup {base}
        /\ b.runs[base].free = FreshSlots(base, c) /\ \A x \in D : b.runs[x] = h.runs[x]
    <2>1. /\ base \in Nat /\ t.max <= u.max /\ base + RunSize(c) <= u.max /\ c \in Classes
          /\ TreeOK(u, BlocksOf(G, DOMAIN h.runs, cls) \cup {<<BucketFor(RunSize(c)), base>>})
          /\ <<BucketFor(RunSize(c)), base>> \notin BlocksOf(G, DOMAIN h.runs, cls)
      BY <1>1, <1>4, <1>5
    <2>2. kinds = ClassesWith(cls, DOMAIN h.runs, base, c)
      BY <1>1, <1>2
    <2>3. Sound(t, G, h, cls, Y, rl, sl)
      BY <1>6
    <2>4. /\ Sound(u, G, Beside(h, c, base), kinds, Y, rl + RunSize(c), sl) /\ base \notin DOMAIN h.runs
          /\ DOMAIN Beside(h, c, base).runs = DOMAIN h.runs \cup {base}
          /\ Beside(h, c, base).runs[base].free = FreshSlots(base, c)
          /\ \A x \in DOMAIN h.runs : Beside(h, c, base).runs[x] = h.runs[x]
      BY ONLY <2>1, <2>2, <2>3, BuddyAssumption, SlabAssumption, SoundBeside
    <2> QED BY <1>1, <1>3, <2>4
  <1>8. FreshSlots(base, c) # <<>>
    BY <1>4, SlotsFresh
  <1>9. kinds[base] = c /\ base \in DOMAIN b.runs /\ base \notin Y
    BY <1>1, <1>2, <1>7 DEF WithFree, ClassesWith
  <1>10. PICK o : o = PushPartial(b, kinds[base], base)
    OBVIOUS
  <1>11. Opened(h, c, got.at) = o
    BY <1>1, <1>3, <1>9, <1>10 DEF Opened, Beside
  <1>12. Sound(u, G, o, kinds, Y \cup {base}, rl + RunSize(c), sl) /\ Relinked(o, b) /\ o.partial[c] = base
    BY <1>7, <1>9, <1>10, SoundPush
  <1>13. DOMAIN o.runs = D \cup {base} /\ \A x \in D \cup {base} : o.runs[x].free = b.runs[x].free /\ o.runs[x].inuse = b.runs[x].inuse
    BY <1>7, <1>12 DEF Relinked
  <1>14. WithFree(o) = Y \cup {base}
    BY <1>1, <1>7, <1>8, <1>13 DEF WithFree
  <1>15. \A x \in DOMAIN o.runs \ {base} : o.runs[x].inuse # 0
    BY <1>6, <1>7, <1>13
  <1>16. base \in WithFree(o)
    BY <1>14
  <1> QED BY <1>1, <1>9, <1>11, <1>12, <1>14, <1>15, <1>16

\* A slot given back: its run joins the list, or goes back to the tree.
LEMMA GiveSettles ==
  ASSUME BuddyAssumption, SlabAssumption,
         NEW t, NEW G, NEW h, NEW cls, NEW rl, NEW sl, Settled(t, G, h, cls, rl, sl),
         NEW n \in G, IsSlot(n.asked, n.align), NEW c, c = ClassOf(n), NEW r, r = RunAt(n.at, c)
  PROVE  /\ h.runs[r].inuse = 1 =>
              \E kinds : Settled(Freed(t, r, RunSize(c)), G \ {n}, EmptiedOf(h, c, r, n.at), kinds, rl - RunSize(c), sl - ClassBytes(c))
         /\ h.runs[r].inuse # 1 => Settled(t, G \ {n}, GivenTo(h, c, r, n.at), cls, rl, sl - ClassBytes(c))
  <1>1. PICK Y, m, u, D : Y = WithFree(h) /\ m = FreedSlots(h, r, n.at) /\ u = h.runs[r].inuse - 1 /\ D = DOMAIN h.runs
    OBVIOUS
  <1>2. PICK g : g = SlotBack(h, r, n.at)
    OBVIOUS
  <1>3. Sound(t, G, h, cls, Y, rl, sl) /\ \A x \in D : h.runs[x].inuse # 0
    BY <1>1 DEF Settled
  <1>4. LiesIn(n, r)
    BY DEF LiesIn
  <1>5. /\ Sound(t, G \ {n}, g, cls, Y, rl, sl - ClassBytes(cls[r])) /\ cls[r] = c /\ r \in D
        /\ Held(g, h, r, m, u) /\ m # <<>> /\ (h.runs[r].inuse = 1 <=> OwnedIn(G \ {n}, r) = {}) /\ h.runs[r].inuse \in Nat \ {0}
    <2>1. n \in G /\ Sound(t, G, h, cls, Y, rl, sl)
      BY <1>3
    <2>2. GaveBack(t, G, h, cls, Y, rl, sl, n, r)
      BY ONLY <1>4, <2>1, BuddyAssumption, SlabAssumption, SoundGive
    <2> QED BY <1>1, <1>2, <2>2 DEF GaveBack
  <1>6. /\ DOMAIN g.runs = D /\ g.runs[r].free = m /\ g.runs[r].inuse = u
        /\ \A x \in D \ {r} : g.runs[x].free = h.runs[x].free /\ g.runs[x].inuse = h.runs[x].inuse
    BY <1>1, <1>5 DEF Held
  <1>7. r \in Y <=> h.runs[r].free # <<>>
    BY <1>1, <1>5 DEF WithFree
  <1>8. ASSUME h.runs[r].inuse = 1
        PROVE  \E kinds : Settled(Freed(t, r, RunSize(c)), G \ {n}, EmptiedOf(h, c, r, n.at), kinds, rl - RunSize(c), sl - ClassBytes(c))
    <2>1. PICK d : d = IF WasFull(h.runs[r]) THEN g ELSE DropPartial(g, c, r)
      OBVIOUS
    <2>2. EmptiedOf(h, c, r, n.at) = Without(d, r)
      BY <1>1, <1>2, <2>1 DEF EmptiedOf
    <2>3. /\ Sound(t, G \ {n}, d, cls, Y \ {r}, rl, sl - ClassBytes(cls[r])) /\ DOMAIN d.runs = D
          /\ \A x \in D : d.runs[x].free = g.runs[x].free /\ d.runs[x].inuse = g.runs[x].inuse
      <3>1. CASE h.runs[r].free = <<>>
        <4>1. d = g /\ Y \ {r} = Y
          BY <1>7, <2>1, <3>1 DEF WasFull
        <4> QED BY <1>5, <1>6, <4>1
      <3>2. CASE h.runs[r].free # <<>>
        <4>1. d = DropPartial(g, cls[r], r) /\ r \in Y
          BY <1>5, <1>7, <2>1, <3>2 DEF WasFull
        <4>2. Sound(t, G \ {n}, d, cls, Y \ {r}, rl, sl - ClassBytes(cls[r])) /\ Relinked(d, g)
          BY <1>5, <4>1, SoundDrop
        <4> QED BY <1>6, <4>2 DEF Relinked
      <3> QED BY <3>1, <3>2
    <2>4. PICK kinds, w : kinds = ClassesBut(cls, DOMAIN d.runs, r) /\ w = Without(d, r)
      OBVIOUS
    <2>5. r \in DOMAIN d.runs \ (Y \ {r}) /\ OwnedIn(G \ {n}, r) = {}
      BY <1>5, <1>8, <2>3
    <2>6. Sound(t, G \ {n}, d, cls, Y \ {r}, rl, sl - ClassBytes(cls[r])) /\ kinds = ClassesBut(cls, DOMAIN d.runs, r)
      BY <2>3, <2>4
    <2>7. /\ Sound(Freed(t, r, RunSize(cls[r])), G \ {n}, Without(d, r), kinds, Y \ {r}, rl - RunSize(cls[r]), sl - ClassBytes(cls[r]))
          /\ DOMAIN Without(d, r).runs = DOMAIN d.runs \ {r} /\ \A x \in DOMAIN d.runs \ {r} : Without(d, r).runs[x] = d.runs[x]
      <3>1. PICK H, Z, s : H = G \ {n} /\ Z = Y \ {r} /\ s = sl - ClassBytes(cls[r])
        OBVIOUS
      <3>2. /\ r \in DOMAIN d.runs \ Z /\ OwnedIn(H, r) = {} /\ Sound(t, H, d, cls, Z, rl, s)
            /\ kinds = ClassesBut(cls, DOMAIN d.runs, r)
        BY <2>5, <2>6, <3>1
      <3>3. /\ Sound(Freed(t, r, RunSize(cls[r])), H, Without(d, r), kinds, Z, rl - RunSize(cls[r]), s)
            /\ DOMAIN Without(d, r).runs = DOMAIN d.runs \ {r} /\ \A x \in DOMAIN d.runs \ {r} : Without(d, r).runs[x] = d.runs[x]
        BY ONLY <3>2, BuddyAssumption, SlabAssumption, SoundWithout
      <3> QED BY <3>1, <3>3
    <2>8. DOMAIN w.runs = D \ {r} /\ \A x \in D \ {r} : w.runs[x].free = h.runs[x].free /\ w.runs[x].inuse = h.runs[x].inuse
      BY <1>6, <2>3, <2>4, <2>7
    <2>9. WithFree(w) = Y \ {r}
      BY <1>1, <2>8 DEF WithFree
    <2>10. \A x \in DOMAIN w.runs : w.runs[x].inuse # 0
      BY <1>3, <2>8
    <2>11. Settled(Freed(t, r, RunSize(c)), G \ {n}, w, kinds, rl - RunSize(c), sl - ClassBytes(c))
      BY <1>5, <2>4, <2>7, <2>9, <2>10 DEF Settled
    <2> QED BY <2>2, <2>4, <2>11
  <1>9. ASSUME h.runs[r].inuse # 1 PROVE Settled(t, G \ {n}, GivenTo(h, c, r, n.at), cls, rl, sl - ClassBytes(c))
    <2>1. PICK d : d = IF WasFull(h.runs[r]) THEN PushPartial(g, c, r) ELSE g
      OBVIOUS
    <2>2. GivenTo(h, c, r, n.at) = d
      BY <1>1, <1>2, <2>1 DEF GivenTo
    <2>3. /\ Sound(t, G \ {n}, d, cls, Y \cup {r}, rl, sl - ClassBytes(cls[r])) /\ DOMAIN d.runs = D
          /\ \A x \in D : d.runs[x].free = g.runs[x].free /\ d.runs[x].inuse = g.runs[x].inuse
      <3>1. CASE h.runs[r].free = <<>>
        <4>1. d = PushPartial(g, cls[r], r) /\ r \notin Y /\ r \in DOMAIN g.runs
          BY <1>5, <1>6, <1>7, <2>1, <3>1 DEF WasFull
        <4>2. Sound(t, G \ {n}, d, cls, Y \cup {r}, rl, sl - ClassBytes(cls[r])) /\ Relinked(d, g)
          BY <1>5, <4>1, SoundPush
        <4> QED BY <1>6, <4>2 DEF Relinked
      <3>2. CASE h.runs[r].free # <<>>
        <4>1. d = g /\ Y \cup {r} = Y
          BY <1>7, <2>1, <3>2 DEF WasFull
        <4> QED BY <1>5, <1>6, <4>1
      <3> QED BY <3>1, <3>2
    <2>4. WithFree(d) = Y \cup {r}
      BY <1>1, <1>5, <1>6, <2>3 DEF WithFree
    <2>5. u # 0
      BY <1>1, <1>5, <1>9
    <2>6. \A x \in DOMAIN d.runs : d.runs[x].inuse # 0
      BY <1>3, <1>6, <2>3, <2>5
    <2> QED BY <1>5, <2>2, <2>3, <2>4, <2>6 DEF Settled
  <1> QED BY <1>8, <1>9
-----------------------------------------------------------------------------
(***************************************************************************)
(* The invariant of a guest's slabs, and that each call keeps it.          *)
(***************************************************************************)
SlabInv ==
  /\ Cardinality(live) <= MostLive
  /\ \E cls : Settled(pages, live, Heads, cls, runLive, slotLive)

\* It holds of an allocator just made.
LEMMA SlabStarts ==
  ASSUME BuddyAssumption, SlabAssumption, SlabInit
  PROVE  SlabInv
  <1>1. PICK h, e : h = Heads /\ e = [x \in {} |-> 0]
    OBVIOUS
  <1>2. pages = NewTree /\ live = {} /\ h = [runs |-> e, partial |-> [c \in Classes |-> NoRun]] /\ runLive = 0 /\ slotLive = 0
    BY <1>1 DEF SlabInit, Heads
  <1>3. h.runs = e /\ DOMAIN h.runs = {} /\ h.partial = [c \in Classes |-> NoRun] /\ h = [runs |-> h.runs, partial |-> h.partial]
    BY <1>1, <1>2
  <1>4. HeadsOK(h)
    <2>1. h.runs \in [DOMAIN h.runs -> Headers]
      BY <1>1, <1>3
    <2>2. h.partial \in [Classes -> Int]
      BY <1>3 DEF NoRun
    <2> QED BY <1>3, <2>1, <2>2 DEF HeadsOK
  <1>5. Lists(h, e, {})
    <2>1. e \in [DOMAIN h.runs -> Classes]
      BY <1>1, <1>3
    <2>2. ASSUME NEW c \in Classes PROVE Chain(h, c, <<>>) /\ Runs(<<>>) = {r \in {} : e[r] = c}
      <3>1. PICK l : l = <<>>
        OBVIOUS
      <3>2. h.partial[c] = NoRun /\ Len(l) = 0 /\ l \in Seq(DOMAIN h.runs)
        BY <1>3, <3>1
      <3>3. Chain(h, c, l) /\ Runs(l) = {}
        BY <3>1, <3>2 DEF Chain, NoTwice, Runs
      <3> QED BY <3>1, <3>3
    <2> QED BY <1>4, <2>1, <2>2 DEF Lists
  <1>6. WithFree(h) = {} /\ \A x \in DOMAIN h.runs : h.runs[x].inuse # 0
    BY <1>3 DEF WithFree
  <1>7. SlotsIn({}) = {} /\ BigsIn({}) = {} /\ RunBlocks({}, e) = {} /\ Used({}) = {}
    BY DEF SlotsIn, BigsIn, RunBlocks, Used
  <1>8. Places(NewTree, {}, {}, e)
    <2>1. TreeOK(NewTree, {})
      BY StartsOK
    <2> QED BY <1>7, <2>1 DEF Places
  <1>9. Fills({}, h, e)
    BY <1>3, <1>7 DEF Fills
  <1>10. RunSum({}, e) = 0 /\ SlotSum({}) = 0
    <2>1. PICK w : w = [r \in {} |-> RunSize(e[r])]
      OBVIOUS
    <2>2. SumFunction(w) = 0
      BY <2>1, SumNone
    <2>3. PICK v : v = [g \in {} |-> ClassBytes(ClassOf(g))]
      OBVIOUS
    <2>4. SumFunction(v) = 0
      BY <2>3, SumNone
    <2> QED BY <1>7, <2>1, <2>2, <2>3, <2>4 DEF RunSum, SlotSum
  <1>11. IsFiniteSet({}) /\ Cardinality({}) = 0
    BY FS_EmptySet
  <1>12. Sound(NewTree, {}, h, e, {}, 0, 0)
    BY <1>3, <1>5, <1>8, <1>9, <1>10, <1>11 DEF Sound
  <1>13. Settled(pages, live, Heads, e, runLive, slotLive)
    BY <1>1, <1>2, <1>6, <1>12 DEF Settled
  <1>14. Cardinality(live) <= MostLive
    BY <1>2, <1>11 DEF SlabAssumption
  <1> QED BY <1>13, <1>14 DEF SlabInv

\* One allocation more, below the bound, is within it.
LEMMA OneMore ==
  ASSUME SlabAssumption, NEW G, IsFiniteSet(G), Cardinality(G) < MostLive, NEW n
  PROVE  Cardinality(G \cup {n}) <= MostLive
  <1>1. Cardinality(G) \in Nat /\ MostLive \in Nat
    BY FS_CardinalityType DEF SlabAssumption
  <1>2. Cardinality(G \cup {n}) = Cardinality(G) \/ Cardinality(G \cup {n}) = Cardinality(G) + 1
    BY FS_AddElement
  <1> QED BY <1>1, <1>2

\* A page or more asked for.
LEMMA AllocPagesInv ==
  ASSUME BuddyAssumption, SlabAssumption, SlabInv, Cardinality(live) < MostLive,
         NEW bytes \in AllocSizes, NEW align \in Aligns, AllocPages(bytes, align)
  PROVE  SlabInv'
  <1>1. PICK cls : Settled(pages, live, Heads, cls, runLive, slotLive)
    BY DEF SlabInv
  <1>2. PICK t, G, h, Y : t = pages /\ G = live /\ h = Heads /\ Y = WithFree(h)
    OBVIOUS
  <1>3. Sound(t, G, h, cls, Y, runLive, slotLive) /\ \A x \in DOMAIN h.runs : h.runs[x].inuse # 0
    BY <1>1, <1>2 DEF Settled
  <1>4. PICK got : got = IF align > TwoTo[MinLog2] THEN Over(pages, None) ELSE Allocated(pages, bytes)
    OBVIOUS
  <1>5. /\ ~ IsSlot(bytes, align) /\ pages' = got.tree /\ Heads' = Heads /\ runLive' = runLive /\ slotLive' = slotLive
        /\ got.at = None => live' = live
        /\ got.at # None => live' = live \cup {[at |-> got.at, asked |-> bytes, align |-> align]}
    BY <1>4 DEF AllocPages, Heads, Handed
  <1>6. IsFiniteSet(G) /\ Cardinality(G) < MostLive
    BY <1>2, <1>3 DEF Sound
  <1>7. CASE align > TwoTo[MinLog2]
    <2>1. got.tree = pages /\ got.at = None
      BY <1>4, <1>7 DEF Over
    <2> QED BY <1>1, <1>5, <2>1 DEF SlabInv
  <1>8. CASE ~ align > TwoTo[MinLog2]
    <2>1. got = Allocated(t, bytes) /\ bytes \in Nat
      BY <1>2, <1>4, <1>8 DEF SlabAssumption
    <2>2. PICK X : X = BlocksOf(G, DOMAIN h.runs, cls)
      OBVIOUS
    <2>3. TreeOK(t, X)
      BY <1>3, <2>2 DEF Sound, Places, BlocksOf
    <2>4. Found(got, t, X, BucketFor(bytes)) /\ (got.at # None => bytes <= SizeOf(0))
      BY <2>1, <2>3, AllocatedOK
    <2>5. CASE got.at = None
      <3>1. PICK u : u = got.tree
        OBVIOUS
      <3>2. TreeOK(u, BlocksOf(G, DOMAIN h.runs, cls)) /\ t.max <= u.max
        BY <2>2, <2>4, <2>5, <3>1 DEF Found
      <3>3. Sound(u, G, h, cls, Y, runLive, slotLive)
        BY <1>3, <3>2, SoundTree
      <3>4. pages' = u /\ live' = G /\ Heads' = h
        BY <1>2, <1>5, <2>5, <3>1
      <3>5. Settled(pages', live', Heads', cls, runLive', slotLive')
        BY <1>2, <1>3, <1>5, <3>3, <3>4 DEF Settled
      <3> QED BY <1>2, <1>5, <2>5, <3>5 DEF SlabInv
    <2>6. CASE got.at # None
      <3>1. PICK u, n : u = got.tree /\ n = [at |-> got.at, asked |-> bytes, align |-> align]
        OBVIOUS
      <3>2. n.at = got.at /\ n.asked = bytes /\ n.align = align /\ n = [at |-> n.at, asked |-> n.asked, align |-> n.align]
        BY <3>1
      <3>3. /\ TreeOK(u, BlocksOf(G, DOMAIN h.runs, cls) \cup {<<BucketFor(n.asked), n.at>>})
            /\ <<BucketFor(n.asked), n.at>> \notin BlocksOf(G, DOMAIN h.runs, cls)
            /\ t.max <= u.max /\ n.at \in Nat /\ n.at + SizeOf(BucketFor(n.asked)) <= u.max
        BY <2>2, <2>4, <2>6, <3>1, <3>2 DEF Found
      <3>4. align <= TwoTo[MinLog2]
        <4>1. align \in Nat /\ TwoTo[MinLog2] \in Nat
          BY Powers DEF SlabAssumption, BuddyAssumption
        <4> QED BY <1>8, <4>1
      <3>5. Granted(n) /\ ~ IsSlot(n.asked, n.align)
        BY <1>5, <2>4, <2>6, <3>2, <3>3, <3>4 DEF Granted
      <3>6. Sound(u, G \cup {n}, h, cls, Y, runLive, slotLive)
        BY <1>3, <3>3, <3>5, SoundBig
      <3>7. pages' = u /\ live' = G \cup {n} /\ Heads' = h
        BY <1>2, <1>5, <2>6, <3>1
      <3>8. Settled(pages', live', Heads', cls, runLive', slotLive')
        BY <1>2, <1>3, <1>5, <3>6, <3>7 DEF Settled
      <3>9. Cardinality(live') <= MostLive
        BY <1>6, <3>7, OneMore
      <3> QED BY <3>8, <3>9 DEF SlabInv
    <2> QED BY <2>5, <2>6
  <1> QED BY <1>7, <1>8
-----------------------------------------------------------------------------
\* A slot taken of a run with one free, whether it was listed or was just made.
LEMMA TakeSlotInv ==
  ASSUME BuddyAssumption, SlabAssumption, Cardinality(live) < MostLive,
         NEW h, NEW cls, NEW r, Sound(pages', live, h, cls, WithFree(h), runLive', slotLive), r \in WithFree(h),
         \A x \in DOMAIN h.runs \ {r} : h.runs[x].inuse # 0,
         NEW bytes \in AllocSizes, NEW align \in Aligns, IsSlot(bytes, align),
         NEW c \in Classes, c = ClassFor(bytes, align), cls[r] = c, h.partial[c] = r, TakeSlot(h, c, bytes, align)
  PROVE  SlabInv'
  <1>1. PICK n, g : n = [at |-> Head(h.runs[r].free), asked |-> bytes, align |-> align] /\ g = TakenFrom(h, c, r)
    OBVIOUS
  <1>2. n.at = Head(h.runs[r].free) /\ n.asked = bytes /\ n.align = align /\ Asks(n) /\ ClassOf(n) = cls[r]
    BY <1>1 DEF Asks, ClassOf
  <1>3. runs' = g.runs /\ partial' = g.partial /\ slotLive' = slotLive + ClassBytes(c) /\ live' = live \cup {n}
    BY <1>1 DEF TakeSlot, TakenFrom, Handed
  <1>4. PICK t, G, rl, sl : t = pages' /\ G = live /\ rl = runLive' /\ sl = slotLive
    OBVIOUS
  <1>5. Sound(t, G, h, cls, WithFree(h), rl, sl)
    BY <1>4
  <1>6. Settled(t, G \cup {n}, TakenFrom(h, cls[r], r), cls, rl, sl + ClassBytes(cls[r]))
    BY <1>2, <1>5, TakeSettles
  <1>7. Settled(t, G \cup {n}, g, cls, rl, sl + ClassBytes(c))
    BY <1>1, <1>6
  <1>8. g = [runs |-> g.runs, partial |-> g.partial] /\ IsFiniteSet(G)
    BY <1>5, <1>7 DEF Settled, Sound, Lists, HeadsOK
  <1>9. Heads' = g
    BY <1>3, <1>8 DEF Heads
  <1>10. Cardinality(live') <= MostLive
    BY <1>3, <1>4, <1>8, OneMore
  <1>11. Settled(pages', live', Heads', cls, runLive', slotLive')
    BY <1>3, <1>4, <1>7, <1>9
  <1> QED BY <1>10, <1>11 DEF SlabInv

\* A slot asked for.
LEMMA AllocSlotInv ==
  ASSUME BuddyAssumption, SlabAssumption, HeadsEnough, SlabInv, Cardinality(live) < MostLive,
         NEW bytes \in AllocSizes, NEW align \in Aligns, AllocSlot(bytes, align)
  PROVE  SlabInv'
  <1>1. PICK cls : Settled(pages, live, Heads, cls, runLive, slotLive)
    BY DEF SlabInv
  <1>2. PICK t, G, h, rl, sl : t = pages /\ G = live /\ h = Heads /\ rl = runLive /\ sl = slotLive
    OBVIOUS
  <1>3. Settled(t, G, h, cls, rl, sl)
    BY <1>1, <1>2
  <1>4. Sound(t, G, h, cls, WithFree(h), rl, sl) /\ \A x \in DOMAIN h.runs : h.runs[x].inuse # 0
    BY <1>3 DEF Settled
  <1>5. PICK c, got : c = ClassFor(bytes, align) /\ got = Allocated(pages, RunSize(c))
    OBVIOUS
  <1>6. IsSlot(bytes, align) /\ c \in Classes
    BY <1>5 DEF AllocSlot, HeadsEnough
  <1>7. h.partial = partial
    BY <1>2 DEF Heads
  <1>8. CASE partial[c] # NoRun
    <2>1. PICK r : r = h.partial[c]
      OBVIOUS
    <2>2. r \in WithFree(h) /\ cls[r] = c
      BY <1>4, <1>6, <1>7, <1>8, <2>1, HeadListed DEF Sound
    <2>3. TakeSlot(Heads, c, bytes, align) /\ pages' = pages /\ runLive' = runLive
      BY <1>5, <1>6, <1>8 DEF AllocSlot
    <2>4. TakeSlot(h, c, bytes, align)
      BY <1>2, <2>3 DEF TakeSlot
    <2>5. Sound(pages', live, h, cls, WithFree(h), runLive', slotLive)
      BY <1>2, <1>4, <2>3
    <2>6. \A x \in DOMAIN h.runs \ {r} : h.runs[x].inuse # 0
      BY <1>4
    <2> QED BY <1>5, <1>6, <2>1, <2>2, <2>4, <2>5, <2>6, TakeSlotInv
  <1>9. CASE partial[c] = NoRun
    <2>1. pages' = got.tree
      BY <1>5, <1>6, <1>9 DEF AllocSlot
    <2>2. PICK X : X = BlocksOf(G, DOMAIN h.runs, cls)
      OBVIOUS
    <2>3. Found(got, t, X, BucketFor(RunSize(c)))
      <3>1. TreeOK(t, X)
        BY <1>4, <2>2 DEF Sound, Places, BlocksOf
      <3>2. RunSize(c) \in Nat
        BY <1>6, ClassesSized DEF ClassSizes
      <3> QED BY <1>2, <1>5, <3>1, <3>2, AllocatedOK
    <2>4. CASE got.at = None
      <3>1. PICK u : u = got.tree
        OBVIOUS
      <3>2. TreeOK(u, BlocksOf(G, DOMAIN h.runs, cls)) /\ t.max <= u.max
        BY <2>2, <2>3, <2>4, <3>1 DEF Found
      <3>3. Sound(u, G, h, cls, WithFree(h), rl, sl)
        BY <1>4, <3>2, SoundTree
      <3>4. live' = live /\ Heads' = Heads /\ runLive' = runLive /\ slotLive' = slotLive
        BY <1>5, <1>6, <1>9, <2>4 DEF AllocSlot, Heads
      <3>5. Settled(u, G, h, cls, rl, sl)
        BY <1>4, <3>3 DEF Settled
      <3>6. Settled(pages', live', Heads', cls, runLive', slotLive')
        BY <1>2, <2>1, <3>1, <3>4, <3>5
      <3> QED BY <3>4, <3>6 DEF SlabInv
    <2>5. CASE got.at # None
      <3>1. PICK base, o : base = got.at /\ o = Opened(h, c, got.at)
        OBVIOUS
      <3>2. Found(got, t, BlocksOf(G, DOMAIN h.runs, cls), BucketFor(RunSize(c)))
        BY <2>2, <2>3
      <3>3. PICK kinds :
              /\ Sound(got.tree, G, o, kinds, WithFree(o), rl + RunSize(c), sl)
              /\ base \in WithFree(o) /\ kinds[base] = c /\ o.partial[c] = base
              /\ \A x \in DOMAIN o.runs \ {base} : o.runs[x].inuse # 0
        BY <1>3, <1>6, <2>5, <3>1, <3>2, OpenSettles
      <3>4. TakeSlot(Opened(Heads, c, got.at), c, bytes, align) /\ runLive' = runLive + RunSize(c)
        BY <1>5, <1>6, <1>9, <2>5 DEF AllocSlot
      <3>5. TakeSlot(o, c, bytes, align)
        <4>1. o = Opened(Heads, c, got.at)
          BY <1>2, <3>1
        <4> QED BY <3>4, <4>1 DEF TakeSlot
      <3>6. Sound(pages', live, o, kinds, WithFree(o), runLive', slotLive)
        BY <1>2, <2>1, <3>3, <3>4
      <3> QED BY <1>5, <1>6, <3>3, <3>5, <3>6, TakeSlotInv
    <2> QED BY <2>4, <2>5
  <1> QED BY <1>8, <1>9

\* One fewer is within it still.
LEMMA OneLess ==
  ASSUME SlabAssumption, NEW G, IsFiniteSet(G), Cardinality(G) <= MostLive, NEW n \in G
  PROVE  Cardinality(G \ {n}) <= MostLive
  <1>1. Cardinality(G) \in Nat /\ MostLive \in Nat /\ Cardinality(G \ {n}) = Cardinality(G) - 1
    BY FS_CardinalityType, FS_RemoveElement DEF SlabAssumption
  <1> QED BY <1>1

\* A slot, or a page or more, given back.
LEMMA DeallocInv ==
  ASSUME BuddyAssumption, SlabAssumption, SlabInv, NEW block \in live, Dealloc(block)
  PROVE  SlabInv'
  <1>1. PICK cls : Settled(pages, live, Heads, cls, runLive, slotLive)
    BY DEF SlabInv
  <1>2. PICK t, G, h, rl, sl : t = pages /\ G = live /\ h = Heads /\ rl = runLive /\ sl = slotLive
    OBVIOUS
  <1>3. Settled(t, G, h, cls, rl, sl) /\ block \in G
    BY <1>1, <1>2
  <1>4. Sound(t, G, h, cls, WithFree(h), rl, sl) /\ \A x \in DOMAIN h.runs : h.runs[x].inuse # 0
    BY <1>3 DEF Settled
  <1>5. live' = G \ {block} /\ Cardinality(live') <= MostLive
    <2>1. live' = G \ {block} /\ IsFiniteSet(G) /\ Cardinality(G) <= MostLive
      BY <1>2, <1>4 DEF Dealloc, Sound, SlabInv
    <2> QED BY <1>3, <2>1, OneLess
  <1>6. CASE ~ IsSlot(block.asked, block.align)
    <2>1. PICK u : u = Freed(t, block.at, block.asked)
      OBVIOUS
    <2>2. pages' = u /\ Heads' = h /\ runLive' = rl /\ slotLive' = sl
      BY <1>2, <1>6, <2>1 DEF Dealloc, Heads
    <2>3. Sound(u, G \ {block}, h, cls, WithFree(h), rl, sl)
      BY <1>3, <1>4, <1>6, <2>1, SoundFreeBig
    <2>4. Settled(pages', live', Heads', cls, runLive', slotLive')
      BY <1>4, <1>5, <2>2, <2>3 DEF Settled
    <2> QED BY <1>5, <2>4 DEF SlabInv
  <1>7. CASE IsSlot(block.asked, block.align)
    <2>1. PICK c, r : c = ClassOf(block) /\ r = RunAt(block.at, c)
      OBVIOUS
    <2>2. PICK g : g = SlotBack(h, r, block.at)
      OBVIOUS
    <2>3. h.runs = runs /\ h.partial = partial
      BY <1>2 DEF Heads
    <2>4. g = Holding(Heads, r, <<block.at>> \o runs[r].free, runs[r].inuse - 1)
      BY <1>2, <2>2, <2>3 DEF SlotBack, FreedSlots
    <2>5. /\ slotLive' = slotLive - ClassBytes(c)
          /\ IF runs[r].inuse = 1
               THEN /\ runs' = Without(IF WasFull(runs[r]) THEN g ELSE DropPartial(g, c, r), r).runs
                    /\ partial' = Without(IF WasFull(runs[r]) THEN g ELSE DropPartial(g, c, r), r).partial
                    /\ runLive' = runLive - RunSize(c) /\ pages' = Freed(pages, r, RunSize(c))
               ELSE /\ runs' = (IF WasFull(runs[r]) THEN PushPartial(g, c, r) ELSE g).runs
                    /\ partial' = (IF WasFull(runs[r]) THEN PushPartial(g, c, r) ELSE g).partial
                    /\ pages' = pages /\ runLive' = runLive
      BY <1>7, <2>1, <2>4 DEF Dealloc, GiveRun, GiveSlot, Without, ClassOf
    <2>6. CASE runs[r].inuse = 1
      <3>1. PICK e, u : e = EmptiedOf(h, c, r, block.at) /\ u = Freed(t, r, RunSize(c))
        OBVIOUS
      <3>2. PICK kinds : Settled(u, G \ {block}, e, kinds, rl - RunSize(c), sl - ClassBytes(c))
        BY <1>3, <1>7, <2>1, <2>3, <2>6, <3>1, GiveSettles
      <3>3. runs' = e.runs /\ partial' = e.partial /\ runLive' = rl - RunSize(c) /\ pages' = u /\ slotLive' = sl - ClassBytes(c)
        BY <1>2, <2>2, <2>3, <2>5, <2>6, <3>1 DEF EmptiedOf
      <3>4. e = [runs |-> e.runs, partial |-> e.partial]
        BY <3>2 DEF Settled, Sound, Lists, HeadsOK
      <3>5. Heads' = e
        BY <3>3, <3>4 DEF Heads
      <3>6. Settled(pages', live', Heads', kinds, runLive', slotLive')
        BY <1>5, <3>2, <3>3, <3>5
      <3> QED BY <1>5, <3>6 DEF SlabInv
    <2>7. CASE runs[r].inuse # 1
      <3>1. PICK e : e = GivenTo(h, c, r, block.at)
        OBVIOUS
      <3>2. Settled(t, G \ {block}, e, cls, rl, sl - ClassBytes(c))
        BY <1>3, <1>7, <2>1, <2>3, <2>7, <3>1, GiveSettles
      <3>3. runs' = e.runs /\ partial' = e.partial /\ runLive' = rl /\ pages' = t /\ slotLive' = sl - ClassBytes(c)
        BY <1>2, <2>2, <2>3, <2>5, <2>7, <3>1 DEF GivenTo
      <3>4. e = [runs |-> e.runs, partial |-> e.partial]
        BY <3>2 DEF Settled, Sound, Lists, HeadsOK
      <3>5. Heads' = e
        BY <3>3, <3>4 DEF Heads
      <3>6. Settled(pages', live', Heads', cls, runLive', slotLive')
        BY <1>5, <3>2, <3>3, <3>5
      <3> QED BY <1>5, <3>6 DEF SlabInv
    <2> QED BY <2>6, <2>7
  <1> QED BY <1>6, <1>7
-----------------------------------------------------------------------------
(***************************************************************************)
(* What the invariant says of what is handed out.                          *)
(***************************************************************************)
\* The block of the tree that an allocation lies in.
HomeOf(g) ==
  IF IsSlot(g.asked, g.align) THEN <<BucketFor(RunSize(ClassOf(g))), RunAt(g.at, ClassOf(g))>>
  ELSE <<BucketFor(g.asked), g.at>>

\* A slot in its run; a page or more in its block.
Lodged(G, D, cls, g, r, b) ==
  /\ r \in D /\ r \in Nat /\ cls[r] = ClassOf(g) /\ ClassOf(g) \in Classes /\ g \in OwnedIn(G, r)
  /\ Spot(BucketFor(RunSize(ClassOf(g))), r) /\ g.at \in SlotAts(r, ClassOf(g))
  /\ b = ClassBytes(ClassOf(g)) /\ ClassSizes(ClassOf(g)) /\ Taking(g) = b
  /\ r + RunBytes <= g.at /\ g.at + b <= r + RunSize(ClassOf(g))
  /\ HomeOf(g) = <<BucketFor(RunSize(ClassOf(g))), r>>

\* A slot lies in a run of its class.
LEMMA SlotLodged ==
  ASSUME BuddyAssumption, SlabAssumption,
         NEW t, NEW G, NEW h, NEW cls, NEW Y, NEW rl, NEW sl, Sound(t, G, h, cls, Y, rl, sl),
         NEW g \in G, IsSlot(g.asked, g.align)
  PROVE  /\ Lodged(G, DOMAIN h.runs, cls, g, RunAt(g.at, ClassOf(g)), ClassBytes(ClassOf(g)))
         /\ RunAt(g.at, ClassOf(g)) + RunSize(ClassOf(g)) <= t.max
  <1>1. PICK D, c, r, b : D = DOMAIN h.runs /\ c = ClassOf(g) /\ r = RunAt(g.at, c) /\ b = ClassBytes(c)
    OBVIOUS
  <1>2. Places(t, G, D, cls) /\ Fills(G, h, cls) /\ cls \in [D -> Classes]
    BY <1>1 DEF Sound, Lists
  <1>3. r \in D /\ g \in OwnedIn(G, r)
    BY <1>1, <1>2 DEF Fills, SlotsIn, OwnedIn
  <1>4. cls[r] = c /\ g.at \in SlotAts(r, c) /\ c \in Classes
    BY <1>1, <1>2, <1>3 DEF Fills, RunFill
  <1>5. /\ Spot(BucketFor(RunSize(cls[r])), r) /\ r \in Nat /\ ClassSizes(cls[r])
    BY <1>2, <1>3, RunPlaced
  <1>6. r + RunBytes <= g.at /\ g.at + ClassBytes(c) <= r + RunSize(c)
    BY <1>4, <1>5, SlotPlaced
  <1>7. r + RunSize(cls[r]) <= t.max
    BY <1>2, <1>3 DEF Places
  <1>8. Taking(g) = b /\ HomeOf(g) = <<BucketFor(RunSize(c)), r>>
    BY <1>1 DEF Taking, HomeOf
  <1> QED BY <1>1, <1>3, <1>4, <1>5, <1>6, <1>7, <1>8 DEF Lodged

\* Either way it lies in a block of the tree's, which fits it.
Within(g, X, t) ==
  /\ HomeOf(g) \in X /\ HomeOf(g)[2] \in Nat /\ HomeOf(g)[2] <= g.at /\ g.at + Taking(g) <= EndOf(HomeOf(g))
  /\ EndOf(HomeOf(g)) \in Nat /\ g.at \in Nat /\ Taking(g) \in Nat \ {0} /\ g.at + Taking(g) <= t.max

LEMMA AllWithin ==
  ASSUME BuddyAssumption, SlabAssumption,
         NEW t, NEW G, NEW h, NEW cls, NEW Y, NEW rl, NEW sl, Sound(t, G, h, cls, Y, rl, sl), NEW g \in G
  PROVE  Within(g, BlocksOf(G, DOMAIN h.runs, cls), t)
  <1>1. PICK D, X : D = DOMAIN h.runs /\ X = BlocksOf(G, D, cls)
    OBVIOUS
  <1>2. Places(t, G, D, cls) /\ Granted(g) /\ cls \in [D -> Classes]
    BY <1>1 DEF Sound, Lists
  <1>3. CASE IsSlot(g.asked, g.align)
    <2>1. PICK c, r, b, s : c = ClassOf(g) /\ r = RunAt(g.at, c) /\ b = ClassBytes(c) /\ s = HomeOf(g)
      OBVIOUS
    <2>2. Lodged(G, D, cls, g, r, b) /\ r + RunSize(c) <= t.max
      BY <1>1, <1>3, <2>1, SlotLodged
    <2>3. s = <<BucketFor(RunSize(c)), r>> /\ r \in D /\ cls[r] = c
      BY <2>1, <2>2 DEF Lodged
    <2>4. s \in X /\ s[2] = r /\ s[1] = BucketFor(RunSize(c))
      BY <1>1, <2>3 DEF BlocksOf, RunBlocks
    <2>5. SizeOf(BucketFor(RunSize(c))) = RunSize(c) /\ RunSize(c) \in Nat \ {0} /\ b \in Nat \ {0} /\ RunBytes \in Nat
      BY <2>1, <2>2 DEF Lodged, ClassSizes
    <2>6. r \in Nat /\ g.at \in Nat /\ r + RunBytes <= g.at /\ g.at + b <= r + RunSize(c) /\ Taking(g) = b
      BY <1>2, <2>1, <2>2 DEF Lodged, Granted
    <2>7. t.max \in Nat
      BY <1>2, <2>3, RunPlaced
    <2>8. r <= g.at /\ g.at + b <= t.max
      BY <2>2, <2>5, <2>6, <2>7
    <2>9. EndOf(s) = r + RunSize(c) /\ r + RunSize(c) \in Nat
      BY <2>4, <2>5, <2>6 DEF EndOf
    <2>10. g.at + b <= r + RunSize(c)
      BY <2>6
    <2> QED BY <1>1, <2>1, <2>4, <2>5, <2>6, <2>8, <2>9, <2>10 DEF Within
  <1>4. CASE ~ IsSlot(g.asked, g.align)
    <2>1. PICK s, b : s = HomeOf(g) /\ b = BucketFor(g.asked)
      OBVIOUS
    <2>2. s = <<b, g.at>> /\ Taking(g) = SizeOf(b)
      BY <1>4, <2>1 DEF HomeOf, Taking
    <2>3. s[1] = b /\ s[2] = g.at /\ g.at \in Nat
      BY <1>2, <2>2 DEF Granted
    <2>4. g \in BigsIn(G) /\ s \in X
      BY <1>1, <1>4, <2>1, <2>2 DEF BigsIn, SlotsIn, BlocksOf, Used
    <2>5. b \in Buckets /\ SizeOf(b) \in Nat \ {0}
      <3>1. g.asked \in Nat /\ g.asked <= SizeOf(0)
        BY <1>2, <1>4 DEF Granted, SlabAssumption
      <3> QED BY <2>1, <3>1, BucketForOK, Sizes
    <2>6. g.at + SizeOf(b) <= t.max
      BY <1>2, <2>1, <2>4 DEF Places
    <2>7. EndOf(s) = g.at + SizeOf(b) /\ g.at + SizeOf(b) \in Nat
      BY <2>3, <2>5 DEF EndOf
    <2> QED BY <1>1, <2>1, <2>2, <2>3, <2>4, <2>5, <2>6, <2>7 DEF Within
  <1> QED BY <1>3, <1>4

\* An allocation is a slot of a run, or lies to one side of it.
Aside(g, r, size) == r + size <= g.at \/ g.at + Taking(g) <= r

LEMMA InRunOrAside ==
  ASSUME BuddyAssumption, SlabAssumption,
         NEW t, NEW G, NEW h, NEW cls, NEW Y, NEW rl, NEW sl, Sound(t, G, h, cls, Y, rl, sl),
         NEW g \in G, NEW r \in DOMAIN h.runs
  PROVE  g \in OwnedIn(G, r) \/ Aside(g, r, RunSize(cls[r]))
  <1>1. PICK D, X, s, u, size : /\ D = DOMAIN h.runs /\ X = BlocksOf(G, D, cls) /\ s = <<BucketFor(RunSize(cls[r])), r>>
                                /\ u = HomeOf(g) /\ size = RunSize(cls[r])
    OBVIOUS
  <1>2. Places(t, G, D, cls) /\ cls \in [D -> Classes]
    BY <1>1 DEF Sound, Lists
  <1>3. s \in X /\ s[1] = BucketFor(RunSize(cls[r])) /\ s[2] = r
    BY <1>1 DEF BlocksOf, RunBlocks
  <1>4. EndOf(s) = r + size /\ r \in Nat /\ size \in Nat
    BY <1>1, <1>2, <1>3, RunPlaced DEF ClassSizes, EndOf
  <1>5. /\ u \in X /\ u[2] \in Nat /\ u[2] <= g.at /\ g.at + Taking(g) <= EndOf(u) /\ EndOf(u) \in Nat
        /\ g.at \in Nat /\ Taking(g) \in Nat
    BY <1>1, AllWithin DEF Within
  <1>6. CASE u # s
    <2>1. EndOf(s) <= u[2] \/ EndOf(u) <= s[2]
      BY <1>1, <1>2, <1>3, <1>5, <1>6 DEF Places, BlocksOf, TreeOK, Tiling
    <2>2. r + size <= g.at \/ g.at + Taking(g) <= r
      BY <1>3, <1>4, <1>5, <2>1
    <2> QED BY <1>1, <2>2 DEF Aside
  <1>7. CASE u = s
    <2>1. CASE IsSlot(g.asked, g.align)
      <3>1. u = <<BucketFor(RunSize(ClassOf(g))), RunAt(g.at, ClassOf(g))>>
        BY <1>1, <2>1 DEF HomeOf
      <3>2. RunAt(g.at, ClassOf(g)) = r
        BY <1>1, <1>7, <3>1
      <3> QED BY <2>1, <3>2 DEF OwnedIn
    <2>2. CASE ~ IsSlot(g.asked, g.align)
      <3>1. g \in BigsIn(G) /\ g.at = r
        BY <1>1, <1>7, <2>2 DEF HomeOf, BigsIn, SlotsIn
      <3> QED BY <1>1, <1>2, <3>1 DEF Places
    <2> QED BY <2>1, <2>2
  <1> QED BY <1>6, <1>7
-----------------------------------------------------------------------------

\* No two allocations overlap.
LEMMA TwoApart ==
  ASSUME BuddyAssumption, SlabAssumption,
         NEW t, NEW G, NEW h, NEW cls, NEW Y, NEW rl, NEW sl, Sound(t, G, h, cls, Y, rl, sl),
         NEW g \in G, NEW f \in G, g # f
  PROVE  g.at + Taking(g) <= f.at \/ f.at + Taking(f) <= g.at
  <1>1. PICK D, X, u, v : D = DOMAIN h.runs /\ X = BlocksOf(G, D, cls) /\ u = HomeOf(g) /\ v = HomeOf(f)
    OBVIOUS
  <1>2. Places(t, G, D, cls)
    BY <1>1 DEF Sound
  <1>3. /\ u \in X /\ u[2] \in Nat /\ u[2] <= g.at /\ g.at + Taking(g) <= EndOf(u) /\ EndOf(u) \in Nat
        /\ g.at \in Nat /\ Taking(g) \in Nat
    BY <1>1, AllWithin DEF Within
  <1>4. /\ v \in X /\ v[2] \in Nat /\ v[2] <= f.at /\ f.at + Taking(f) <= EndOf(v) /\ EndOf(v) \in Nat
        /\ f.at \in Nat /\ Taking(f) \in Nat
    BY <1>1, AllWithin DEF Within
  <1>5. CASE u # v
    <2>1. EndOf(u) <= v[2] \/ EndOf(v) <= u[2]
      BY <1>1, <1>2, <1>3, <1>4, <1>5 DEF Places, BlocksOf, TreeOK, Tiling
    <2> QED BY <1>3, <1>4, <2>1
  <1>6. CASE u = v
    <2>1. ASSUME NEW a \in G, NEW b \in G, IsSlot(a.asked, a.align), ~ IsSlot(b.asked, b.align)
          PROVE  HomeOf(a)[2] # HomeOf(b)[2]
      <3>1. PICK r : r = RunAt(a.at, ClassOf(a))
        OBVIOUS
      <3>2. r \in D /\ HomeOf(a) = <<BucketFor(RunSize(ClassOf(a))), r>>
        BY <1>1, <2>1, <3>1, SlotLodged DEF Lodged
      <3>3. b \in BigsIn(G) /\ HomeOf(b) = <<BucketFor(b.asked), b.at>>
        BY <2>1 DEF BigsIn, SlotsIn, HomeOf
      <3> QED BY <1>2, <3>2, <3>3 DEF Places
    <2>2. CASE IsSlot(g.asked, g.align) /\ IsSlot(f.asked, f.align)
      <3>1. PICK r, q : r = RunAt(g.at, ClassOf(g)) /\ q = RunAt(f.at, ClassOf(f))
        OBVIOUS
      <3>2. Lodged(G, D, cls, g, r, ClassBytes(ClassOf(g))) /\ Lodged(G, D, cls, f, q, ClassBytes(ClassOf(f)))
        BY <1>1, <2>2, <3>1, SlotLodged
      <3>3. u = <<BucketFor(RunSize(ClassOf(g))), r>> /\ v = <<BucketFor(RunSize(ClassOf(f))), q>>
        BY <1>1, <3>2 DEF Lodged
      <3>4. r = q
        <4>1. u[2] = r /\ v[2] = q
          BY <3>3
        <4> QED BY <1>6, <4>1
      <3>5. PICK c : c = ClassOf(g)
        OBVIOUS
      <3>6. ClassOf(f) = c
        BY <3>2, <3>4, <3>5 DEF Lodged
      <3>7. /\ g.at \in SlotAts(r, c) /\ f.at \in SlotAts(r, c) /\ Taking(g) = ClassBytes(c) /\ Taking(f) = ClassBytes(c)
            /\ c \in Classes /\ r \in Nat /\ Spot(BucketFor(RunSize(c)), r) /\ r \in D
            /\ g \in OwnedIn(G, r) /\ f \in OwnedIn(G, r)
        BY <3>2, <3>4, <3>5, <3>6 DEF Lodged
      <3>8. g.at # f.at
        <4>1. RunFill(OwnedIn(G, r), r, cls[r], h.runs[r].free, h.runs[r].inuse)
          BY <1>1, <3>7 DEF Sound, Fills
        <4> QED BY <3>7, <4>1 DEF RunFill
      <3>9. g.at + ClassBytes(c) <= f.at \/ f.at + ClassBytes(c) <= g.at
        BY <3>7, <3>8, SlotPlaced
      <3> QED BY <3>7, <3>9
    <2>3. CASE ~ IsSlot(g.asked, g.align) /\ ~ IsSlot(f.asked, f.align)
      <3>1. g \in BigsIn(G) /\ f \in BigsIn(G) /\ g.at = f.at
        BY <1>1, <1>6, <2>3 DEF HomeOf, BigsIn, SlotsIn
      <3> QED BY <1>2, <3>1 DEF Places
    <2> QED BY <1>1, <1>6, <2>1, <2>2, <2>3
  <1> QED BY <1>5, <1>6

\* An allocation is as large and as aligned as it was asked for.
LEMMA AsAsked ==
  ASSUME BuddyAssumption, SlabAssumption,
         NEW t, NEW G, NEW h, NEW cls, NEW Y, NEW rl, NEW sl, Sound(t, G, h, cls, Y, rl, sl), NEW g \in G
  PROVE  g.asked <= Taking(g) /\ g.at % g.align = 0 /\ g.at + Taking(g) <= EndAt
  <1>1. PICK D : D = DOMAIN h.runs
    OBVIOUS
  <1>2. Places(t, G, D, cls) /\ Granted(g) /\ cls \in [D -> Classes]
    BY <1>1 DEF Sound, Lists
  <1>3. g.at + Taking(g) <= EndAt
    <2>1. t \in Trees /\ EndAt \in Nat /\ LinkBytes \in Nat
      BY <1>2, Sizes DEF Places, TreeOK, BuddyAssumption
    <2>2. t.max \in Nat /\ t.max <= EndAt
      BY <2>1, TreeTypes
    <2>3. g.at \in Nat /\ Taking(g) \in Nat /\ g.at + Taking(g) <= t.max
      BY AllWithin DEF Within
    <2> QED BY <2>1, <2>2, <2>3
  <1>4. CASE IsSlot(g.asked, g.align)
    <2>1. PICK c, r, b : c = ClassOf(g) /\ r = RunAt(g.at, c) /\ b = ClassBytes(c)
      OBVIOUS
    <2>2. Lodged(G, D, cls, g, r, b)
      BY <1>1, <1>4, <2>1, SlotLodged
    <2>3. /\ Spot(BucketFor(RunSize(c)), r) /\ r \in Nat /\ g.at \in SlotAts(r, c) /\ c \in Classes /\ Taking(g) = b /\ ClassSizes(c)
      BY <2>1, <2>2 DEF Lodged
    <2>4. c = ClassFor(g.asked, g.align)
      BY <2>1 DEF ClassOf
    <2>5. g.asked <= b /\ g.align \in Nat \ {0} /\ \A k \in Nat : (k * b) % g.align = 0
      BY <1>2, <1>4, <2>1, <2>4, ClassFits DEF Granted
    <2>6. PICK k \in Nat : g.at = r + k * b
      BY <2>1, <2>3, SlotPlaced
    <2>7. SizeOf(BucketFor(RunSize(c))) = SlotsOf(c) * b /\ SlotsOf(c) \in Nat /\ b \in Nat
      BY <2>1, <2>3 DEF ClassSizes
    <2>8. PICK n \in Nat : n = SlotsOf(c)
      BY <2>7
    <2>9. PICK j \in Int : r = j * (n * b) /\ j \in Nat
      <3>1. BucketFor(RunSize(c)) \in Buckets
        BY <2>3 DEF Spot
      <3>2. PICK j \in 0 .. TwoTo[BucketFor(RunSize(c))] - 1 : r = j * SizeOf(BucketFor(RunSize(c)))
        BY <2>3 DEF Spot
      <3>3. j \in Nat
        BY <3>1, <3>2, Sizes
      <3> QED BY <2>7, <2>8, <3>2, <3>3
    <2>10. g.at = (j * n + k) * b
      <3>1. PICK q \in Nat : q = j * n
        BY <2>8, <2>9
      <3>2. r = q * b
        BY <2>7, <2>8, <2>9, <3>1
      <3>3. g.at = (q + k) * b
        BY <2>6, <2>7, <3>1, <3>2
      <3> QED BY <3>1, <3>3
    <2>11. j * n + k \in Nat
      BY <2>6, <2>8, <2>9
    <2>12. g.at % g.align = 0
      BY <2>5, <2>10, <2>11
    <2> QED BY <1>3, <2>3, <2>5, <2>12
  <1>5. CASE ~ IsSlot(g.asked, g.align)
    <2>1. g.asked \in Nat /\ g.asked <= SizeOf(0) /\ g.align <= TwoTo[MinLog2] /\ g.align \in Aligns
      BY <1>2, <1>5 DEF Granted, SlabAssumption
    <2>2. g.asked <= Taking(g)
      BY <1>5, <2>1, BucketForOK DEF Taking
    <2>3. HomeOf(g) = <<BucketFor(g.asked), g.at>> /\ HomeOf(g) \in BlocksOf(G, D, cls)
      BY <1>1, <1>5, AllWithin DEF HomeOf, Within
    <2>4. Spot(BucketFor(g.asked), g.at)
      <3>1. PICK s : s = HomeOf(g)
        OBVIOUS
      <3>2. Spot(s[1], s[2])
        BY <1>2, <2>3, <3>1 DEF Places, BlocksOf, TreeOK, Tiling
      <3> QED BY <2>3, <3>1, <3>2
    <2>5. g.at % g.align = 0
      BY <2>1, <2>4, BlockAligned
    <2> QED BY <1>3, <2>2, <2>5
  <1> QED BY <1>4, <1>5

\* A run's free slots are within the range, and at no allocation's address.
LEMMA FreeOfAll ==
  ASSUME BuddyAssumption, SlabAssumption,
         NEW t, NEW G, NEW h, NEW cls, NEW Y, NEW rl, NEW sl, Sound(t, G, h, cls, Y, rl, sl),
         NEW r \in DOMAIN h.runs, NEW p \in Runs(h.runs[r].free)
  PROVE  p \in 0 .. EndAt /\ \A g \in G : p # g.at
  <1>1. PICK D, c, free : D = DOMAIN h.runs /\ c = cls[r] /\ free = h.runs[r].free
    OBVIOUS
  <1>2. Places(t, G, D, cls) /\ cls \in [D -> Classes] /\ c \in Classes
    BY <1>1 DEF Sound, Lists
  <1>3. RunFill(OwnedIn(G, r), r, c, free, h.runs[r].inuse)
    BY <1>1 DEF Sound, Fills
  <1>4. p \in SlotAts(r, c)
    BY <1>1, <1>3 DEF RunFill
  <1>5. Spot(BucketFor(RunSize(c)), r) /\ r \in Nat /\ ClassSizes(c) /\ t.max \in Nat /\ t.max <= EndAt /\ EndAt \in Nat
    BY <1>1, <1>2, RunPlaced
  <1>6. p \in Nat /\ r + RunBytes <= p /\ p + ClassBytes(c) <= r + RunSize(c)
    BY <1>2, <1>4, <1>5, SlotPlaced
  <1>7. RunBytes \in Nat \ {0} /\ ClassBytes(c) \in Nat \ {0} /\ RunSize(c) \in Nat
    BY <1>5 DEF ClassSizes
  <1>8. r + RunSize(c) <= t.max
    BY <1>1, <1>2 DEF Places
  <1>9. p \in 0 .. EndAt
    BY <1>5, <1>6, <1>7, <1>8
  <1>10. ASSUME NEW g \in G PROVE p # g.at
    <2>1. CASE g \in OwnedIn(G, r)
      BY <1>1, <1>3, <2>1 DEF RunFill
    <2>2. CASE Aside(g, r, RunSize(cls[r]))
      <3>1. g.at \in Nat /\ Taking(g) \in Nat \ {0}
        BY AllWithin DEF Within
      <3>2. r + RunSize(c) <= g.at \/ g.at + Taking(g) <= r
        BY <1>1, <2>2 DEF Aside
      <3> QED BY <1>5, <1>6, <1>7, <3>1, <3>2
    <2> QED BY <2>1, <2>2, InRunOrAside
  <1> QED BY <1>9, <1>10

\* A header lies off what is handed out.
LEMMA HeaderClear ==
  ASSUME BuddyAssumption, SlabAssumption,
         NEW t, NEW G, NEW h, NEW cls, NEW Y, NEW rl, NEW sl, Sound(t, G, h, cls, Y, rl, sl),
         NEW g \in G, NEW r \in DOMAIN h.runs
  PROVE  r + RunBytes <= g.at \/ g.at + Taking(g) <= r
  <1>1. PICK D, c : D = DOMAIN h.runs /\ c = cls[r]
    OBVIOUS
  <1>2. Places(t, G, D, cls) /\ cls \in [D -> Classes] /\ c \in Classes
    BY <1>1 DEF Sound, Lists
  <1>3. Spot(BucketFor(RunSize(c)), r) /\ r \in Nat /\ ClassSizes(c)
    BY <1>1, <1>2, RunPlaced
  <1>4. CASE g \in OwnedIn(G, r)
    <2>1. g.at \in SlotAts(r, c)
      BY <1>1, <1>4 DEF Sound, Fills, RunFill
    <2> QED BY <1>2, <1>3, <2>1, SlotPlaced
  <1>5. CASE Aside(g, r, RunSize(cls[r]))
    <2>1. RunBytes <= RunSize(c) /\ RunSize(c) \in Nat /\ RunBytes \in Nat
      <3>1. PICK m, n, b : m = HeadSlots(c) /\ n = SlotsOf(c) /\ b = ClassBytes(c)
        OBVIOUS
      <3>2. m \in Nat /\ n \in Nat /\ b \in Nat /\ m < n /\ RunSize(c) = n * b /\ RunBytes <= m * b /\ RunBytes \in Nat
        BY <1>3, <3>1 DEF ClassSizes
      <3>3. m * b <= n * b /\ m * b \in Nat /\ n * b \in Nat
        BY <3>2
      <3> QED BY <3>2, <3>3
    <2>2. r + RunSize(c) <= g.at \/ g.at + Taking(g) <= r
      BY <1>1, <1>5 DEF Aside
    <2>3. g.at \in Nat
      BY AllWithin DEF Within
    <2> QED BY <1>3, <2>1, <2>2, <2>3
  <1> QED BY <1>4, <1>5, InRunOrAside
-----------------------------------------------------------------------------
(***************************************************************************)
(* The invariant in the words of the property.                             *)
(***************************************************************************)
\* What there is, under the names it has.
Kinds(cls) ==
  /\ Sound(pages, live, Heads, cls, WithFree(Heads), runLive, slotLive)
  /\ Heads.runs = runs /\ Heads.partial = partial /\ InSlots = SlotsIn(live)
  /\ \A r \in DOMAIN runs : /\ Owned(r) = OwnedIn(live, r) /\ Owned(r) # {} /\ ClassOfRun(r) = cls[r] /\ cls[r] \in Classes
                            /\ RunFill(Owned(r), r, cls[r], runs[r].free, runs[r].inuse)

\* A run's class, by what is in it, is the one it was made for.
LEMMA KindsFound ==
  ASSUME BuddyAssumption, SlabAssumption, SlabInv
  PROVE  \E cls : Kinds(cls)
  <1>1. PICK cls : Settled(pages, live, Heads, cls, runLive, slotLive)
    BY DEF SlabInv
  <1>2. Heads.runs = runs /\ Heads.partial = partial
    BY DEF Heads
  <1>3. Sound(pages, live, Heads, cls, WithFree(Heads), runLive, slotLive) /\ \A r \in DOMAIN runs : runs[r].inuse # 0
    BY <1>1, <1>2 DEF Settled
  <1>4. InSlots = SlotsIn(live)
    BY DEF InSlots, SlotsIn
  <1>5. ASSUME NEW r \in DOMAIN runs
        PROVE  /\ Owned(r) = OwnedIn(live, r) /\ Owned(r) # {} /\ ClassOfRun(r) = cls[r] /\ cls[r] \in Classes
               /\ RunFill(Owned(r), r, cls[r], runs[r].free, runs[r].inuse)
    <2>1. Owned(r) = OwnedIn(live, r)
      BY DEF Owned, InSlots, OwnedIn
    <2>2. RunFill(Owned(r), r, cls[r], runs[r].free, runs[r].inuse)
      BY <1>2, <1>3, <2>1 DEF Sound, Fills
    <2>3. Owned(r) # {}
      <3>1. SUFFICES ASSUME Owned(r) = {} PROVE FALSE
        OBVIOUS
      <3>2. runs[r].inuse = Cardinality({})
        BY <2>2, <3>1 DEF RunFill
      <3> QED BY <1>3, <3>2, FS_EmptySet
    <2>4. (CHOOSE g \in Owned(r) : TRUE) \in Owned(r)
      BY <2>3
    <2>5. ClassOfRun(r) = cls[r]
      BY <2>2, <2>4 DEF ClassOfRun, RunFill
    <2>6. cls[r] \in Classes
      BY <1>2, <1>3 DEF Sound, Lists
    <2> QED BY <2>1, <2>2, <2>3, <2>5, <2>6
  <1> QED BY <1>2, <1>3, <1>4, <1>5 DEF Kinds

\* So what is handed out lies apart.
LEMMA ApartHolds ==
  ASSUME BuddyAssumption, SlabAssumption, NEW cls, Kinds(cls)
  PROVE  AllocationsApart
  <1>1. PICK t, h, Y, rl, sl, G : t = pages /\ h = Heads /\ Y = WithFree(h) /\ rl = runLive /\ sl = slotLive /\ G = live
    OBVIOUS
  <1>2. Sound(t, G, h, cls, Y, rl, sl) /\ DOMAIN h.runs = DOMAIN runs
    BY <1>1 DEF Kinds
  <1>3. ASSUME NEW g \in live, NEW f \in live, g # f PROVE g.at + Taking(g) <= f.at \/ f.at + Taking(f) <= g.at
    BY <1>1, <1>2, <1>3, TwoApart
  <1>4. ASSUME NEW g \in live PROVE g.asked <= Taking(g) /\ g.at % g.align = 0 /\ g.at + Taking(g) <= EndAt
    BY <1>1, <1>2, AsAsked
  <1>5. ASSUME NEW g \in live, NEW r \in DOMAIN runs PROVE r + RunBytes <= g.at \/ g.at + Taking(g) <= r
    BY <1>1, <1>2, HeaderClear
  <1> QED BY <1>3, <1>4, <1>5 DEF AllocationsApart

\* So lists are exact.
LEMMA ExactHolds ==
  ASSUME BuddyAssumption, SlabAssumption, NEW cls, Kinds(cls)
  PROVE  PartialExact
  <1>1. PICK t, h, Y, rl, sl, G : t = pages /\ h = Heads /\ Y = WithFree(h) /\ rl = runLive /\ sl = slotLive /\ G = live
    OBVIOUS
  <1>2. Sound(t, G, h, cls, Y, rl, sl) /\ h.runs = runs
    BY <1>1 DEF Kinds
  <1>3. Lists(h, cls, Y) /\ HeadsOK(Heads) /\ IsFiniteSet(DOMAIN runs)
    BY <1>1, <1>2 DEF Sound, Lists
  <1>4. ASSUME NEW c \in Classes PROVE WalkFrom(c) = {r \in DOMAIN runs : ClassOfRun(r) = c /\ runs[r].free # <<>>}
    <2>1. PICK l : Chain(h, c, l) /\ Runs(l) = {r \in Y : cls[r] = c}
      BY <1>3 DEF Lists
    <2>2. WalkFrom(c) = Runs(l)
      BY <1>1, <1>3, <2>1, WalkListed
    <2>3. {r \in Y : cls[r] = c} = {r \in DOMAIN runs : ClassOfRun(r) = c /\ runs[r].free # <<>>}
      BY <1>1, <1>2 DEF WithFree, Kinds
    <2> QED BY <2>1, <2>2, <2>3
  <1>5. ASSUME NEW r \in DOMAIN runs
        PROVE  /\ Owned(r) # {} /\ \A g \in Owned(r) : ClassOf(g) = ClassOfRun(r)
               /\ runs[r].inuse = Cardinality(Owned(r))
               /\ runs[r].inuse + Len(runs[r].free) = SlotsOf(ClassOfRun(r)) - HeadSlots(ClassOfRun(r))
               /\ \A i \in DOMAIN runs[r].free, g \in live : runs[r].free[i] # g.at
    <2>1. RunFill(Owned(r), r, ClassOfRun(r), runs[r].free, runs[r].inuse) /\ Owned(r) # {}
      BY DEF Kinds
    <2>2. ASSUME NEW i \in DOMAIN runs[r].free, NEW g \in live PROVE runs[r].free[i] # g.at
      <3>1. PICK p : p = runs[r].free[i]
        OBVIOUS
      <3>2. p \in Runs(h.runs[r].free) /\ r \in DOMAIN h.runs
        <4>1. runs[r].free \in Seq(Nat)
          BY <2>1 DEF RunFill
        <4> QED BY <1>2, <3>1, <4>1 DEF Runs
      <3> QED BY <1>1, <1>2, <3>1, <3>2, FreeOfAll
    <2> QED BY <2>1, <2>2 DEF RunFill
  <1> QED BY <1>4, <1>5 DEF PartialExact

\* So counts are sums.
LEMMA CountsHeld ==
  ASSUME BuddyAssumption, SlabAssumption, NEW cls, Kinds(cls)
  PROVE  CountsHold
  <1>1. runLive = RunSum(DOMAIN runs, cls) /\ slotLive = SlotSum(live)
    BY DEF Kinds, Sound
  <1>2. [g \in InSlots |-> Taking(g)] = [g \in SlotsIn(live) |-> ClassBytes(ClassOf(g))]
    <2>1. \A g \in InSlots : Taking(g) = ClassBytes(ClassOf(g))
      BY DEF InSlots, Taking
    <2> QED BY <2>1 DEF Kinds
  <1>3. [r \in DOMAIN runs |-> RunSize(ClassOfRun(r))] = [r \in DOMAIN runs |-> RunSize(cls[r])]
    BY DEF Kinds
  <1>4. live = {} => DOMAIN runs = {}
    <2>1. \A r \in DOMAIN runs : Owned(r) # {} /\ Owned(r) \subseteq live
      BY DEF Kinds, OwnedIn
    <2> QED BY <2>1
  <1> QED BY <1>1, <1>2, <1>3, <1>4 DEF CountsHold, RunSum, SlotSum
-----------------------------------------------------------------------------

\* A sum is a number.
LEMMA SumNat ==
  ASSUME NEW S, IsFiniteSet(S), NEW w \in [S -> Nat]
  PROVE  SumFunction(w) \in Nat
  <1>1. PICK it : Summed(S, w, it) /\ SumFunction(w) = it[S]
    BY SumIs
  <1>2. \A s \in SUBSET S : it[s] \in Nat
    BY <1>1, TakenFirst DEF AnyFirst
  <1> QED BY <1>1, <1>2

\* So its variables are in range.
LEMMA TypesHold ==
  ASSUME BuddyAssumption, SlabAssumption, NEW cls, Kinds(cls), Cardinality(live) <= MostLive
  PROVE  SlabTypeOK
  <1>1. PICK t, h, Y, rl, sl, G : t = pages /\ h = Heads /\ Y = WithFree(h) /\ rl = runLive /\ sl = slotLive /\ G = live
    OBVIOUS
  <1>2. Sound(t, G, h, cls, Y, rl, sl) /\ h.runs = runs /\ h.partial = partial
    BY <1>1 DEF Kinds
  <1>3. /\ Lists(h, cls, Y) /\ HeadsOK(h) /\ IsFiniteSet(DOMAIN runs) /\ IsFiniteSet(G) /\ cls \in [DOMAIN runs -> Classes]
        /\ rl = RunSum(DOMAIN runs, cls) /\ sl = SlotSum(G)
    BY <1>2 DEF Sound, Lists
  <1>4. ASSUME NEW r \in DOMAIN runs PROVE runs[r].inuse \in 0 .. MostLive /\ runs[r].free \in Seq(0 .. EndAt)
    <2>1. RunFill(Owned(r), r, cls[r], runs[r].free, runs[r].inuse) /\ Owned(r) \subseteq G
      BY <1>1 DEF Kinds, OwnedIn
    <2>2. Cardinality(Owned(r)) <= Cardinality(G) /\ Cardinality(Owned(r)) \in Nat /\ Cardinality(G) \in Nat
      BY <1>3, <2>1, FS_Subset, FS_CardinalityType
    <2>3. runs[r].inuse \in 0 .. MostLive
      BY <1>1, <2>1, <2>2 DEF RunFill, SlabAssumption
    <2>4. PICK f : f = runs[r].free
      OBVIOUS
    <2>5. f \in Seq(Nat)
      BY <2>1, <2>4 DEF RunFill
    <2>6. ASSUME NEW i \in 1 .. Len(f) PROVE f[i] \in 0 .. EndAt
      <3>1. r \in DOMAIN h.runs /\ f[i] \in Runs(h.runs[r].free)
        BY <1>2, <2>4 DEF Runs
      <3> QED BY <1>2, <3>1, FreeOfAll
    <2>7. PICK n, T : n = Len(f) /\ T = 0 .. EndAt
      OBVIOUS
    <2>8. n \in Nat /\ f = [i \in 1 .. n |-> f[i]] /\ \A i \in 1 .. n : f[i] \in T
      BY <2>5, <2>6, <2>7
    <2>9. f \in [1 .. n -> T]
      BY <2>8
    <2>10. f \in Seq(T)
      BY <2>8, <2>9
    <2> QED BY <2>3, <2>4, <2>7, <2>10
  <1>5. partial \in [Classes -> DOMAIN runs \cup {NoRun}]
    <2>1. partial \in [Classes -> Int]
      BY <1>2, <1>3 DEF HeadsOK
    <2>2. ASSUME NEW c \in Classes PROVE partial[c] \in DOMAIN runs \cup {NoRun}
      <3>1. PICK l : Chain(h, c, l)
        BY <1>3 DEF Lists
      <3> QED BY <1>2, <1>3, <3>1, ChainTypes
    <2> QED BY <2>1, <2>2
  <1>6. rl \in Nat
    <2>1. PICK w : w = [r \in DOMAIN runs |-> RunSize(cls[r])]
      OBVIOUS
    <2>2. \A c \in Classes : RunSize(c) \in Nat
      BY ClassesSized DEF ClassSizes
    <2>3. w \in [DOMAIN runs -> Nat]
      BY <1>3, <2>1, <2>2
    <2> QED BY <1>3, <2>1, <2>3, SumNat DEF RunSum
  <1>7. sl \in Nat
    <2>1. PICK S, w : S = SlotsIn(G) /\ w = [g \in S |-> ClassBytes(ClassOf(g))]
      OBVIOUS
    <2>2. \A g \in S : ClassOf(g) \in Classes
      BY <1>2, <2>1 DEF SlotsIn, Sound, Granted
    <2>3. \A c \in Classes : ClassBytes(c) \in Nat
      BY ClassesSized DEF ClassSizes
    <2>4. w \in [S -> Nat] /\ IsFiniteSet(S)
      BY <1>3, <2>1, <2>2, <2>3, FS_Subset DEF SlotsIn
    <2> QED BY <1>3, <2>1, <2>4, SumNat DEF SlotSum
  <1> QED BY <1>1, <1>4, <1>5, <1>6, <1>7 DEF SlabTypeOK

(***************************************************************************)
(* Where every class a request may fall in has a list's head: whatever is  *)
(* asked for and given back, what is handed out lies apart and off the     *)
(* headers, each class lists its runs that have a slot free, and what is   *)
(* counted is what is held (kit alloc/slab.hpp).                           *)
(***************************************************************************)
THEOREM SlabRunsAgree ==
  ASSUME BuddyAssumption, SlabAssumption, HeadsEnough
  PROVE  SlabSpec => []RunsAgree
  <1>1. SlabInit => SlabInv
    BY SlabStarts
  <1>2. SlabInv /\ [SlabNext]_slabVars => SlabInv'
    <2>1. SUFFICES ASSUME SlabInv, [SlabNext]_slabVars PROVE SlabInv'
      OBVIOUS
    <2>2. ASSUME NEW bytes \in AllocSizes, NEW align \in Aligns, Cardinality(live) < MostLive, AllocPages(bytes, align)
          PROVE  SlabInv'
      BY <2>1, <2>2, AllocPagesInv
    <2>3. ASSUME NEW bytes \in AllocSizes, NEW align \in Aligns, Cardinality(live) < MostLive, AllocSlot(bytes, align)
          PROVE  SlabInv'
      BY <2>1, <2>3, AllocSlotInv
    <2>4. ASSUME NEW block \in live, Dealloc(block) PROVE SlabInv'
      BY <2>1, <2>4, DeallocInv
    <2>5. CASE UNCHANGED slabVars
      <3>1. pages' = pages /\ live' = live /\ Heads' = Heads /\ runLive' = runLive /\ slotLive' = slotLive
        BY <2>5 DEF slabVars, Heads
      <3> QED BY <2>1, <3>1 DEF SlabInv
    <2> QED BY <2>1, <2>2, <2>3, <2>4, <2>5 DEF SlabNext
  <1>3. SlabInv => RunsAgree
    <2>1. SUFFICES ASSUME SlabInv PROVE RunsAgree
      OBVIOUS
    <2>2. PICK cls : Kinds(cls)
      BY <2>1, KindsFound
    <2>3. Cardinality(live) <= MostLive
      BY <2>1 DEF SlabInv
    <2> QED BY <2>2, <2>3, TypesHold, ApartHolds, ExactHolds, CountsHeld DEF RunsAgree
  <1> QED BY <1>1, <1>2, <1>3, PTL DEF SlabSpec
=============================================================================
