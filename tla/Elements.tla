------------------------------ MODULE Elements ------------------------------
(***************************************************************************)
(* What several proofs rest on: the elements of a sequence, as it is taken *)
(* from its head and put to at its end, a ring's frames or a turn's        *)
(* records; remainders, which wrap a position or a generation; and what a  *)
(* walk over 0 .. n comes to.                                              *)
(***************************************************************************)
EXTENDS Integers, Sequences, SequenceTheorems, WellFoundedInduction, TLAPS

\* A sequence's elements are its head and its tail's.
LEMMA TakeHead ==
  ASSUME NEW S, NEW s \in Seq(S), s # <<>>
  PROVE  /\ Head(s) \in {s[i] : i \in 1 .. Len(s)}
         /\ {s[i] : i \in 1 .. Len(s)} =
              {Tail(s)[i] : i \in 1 .. Len(Tail(s))} \cup {Head(s)}
  <1>1. /\ Len(Tail(s)) = Len(s) - 1 /\ Len(s) \in Nat /\ Len(s) >= 1
        /\ \A i \in 1 .. Len(Tail(s)) : Tail(s)[i] = s[i + 1]
        /\ Head(s) = s[1]
    OBVIOUS
  <1>2. ASSUME NEW i \in 1 .. Len(s)
        PROVE  s[i] \in {Tail(s)[j] : j \in 1 .. Len(Tail(s))} \cup {Head(s)}
    <2>1. CASE i = 1
      BY <1>1, <2>1
    <2>2. CASE i # 1
      <3>1. i - 1 \in 1 .. Len(Tail(s)) /\ (i - 1) + 1 = i
        BY <1>1, <2>2
      <3>2. Tail(s)[i - 1] = s[i]
        BY <1>1, <3>1
      <3> QED BY <3>1, <3>2
    <2> QED BY <2>1, <2>2
  <1>3. ASSUME NEW j \in 1 .. Len(Tail(s))
        PROVE  Tail(s)[j] \in {s[i] : i \in 1 .. Len(s)}
    <2>1. j + 1 \in 1 .. Len(s) /\ Tail(s)[j] = s[j + 1]
      BY <1>1
    <2> QED BY <2>1
  <1>4. Head(s) \in {s[i] : i \in 1 .. Len(s)}
    BY <1>1
  <1> QED BY <1>2, <1>3, <1>4

\* One put at the end is the only one added.
LEMMA PutLast ==
  ASSUME NEW S, NEW s \in Seq(S), NEW e
  PROVE  {Append(s, e)[i] : i \in 1 .. Len(Append(s, e))} =
           {s[i] : i \in 1 .. Len(s)} \cup {e}
  <1> DEFINE t == Append(s, e)
  <1>1. /\ Len(t) = Len(s) + 1 /\ Len(s) \in Nat
        /\ \A i \in 1 .. Len(s) : t[i] = s[i]
        /\ t[Len(s) + 1] = e
    OBVIOUS
  <1> HIDE DEF t
  <1>2. ASSUME NEW i \in 1 .. Len(t)
        PROVE  t[i] \in {s[j] : j \in 1 .. Len(s)} \cup {e}
    <2>1. i = Len(s) + 1 \/ i \in 1 .. Len(s)
      BY <1>1
    <2> QED BY <1>1, <2>1
  <1>3. ASSUME NEW j \in 1 .. Len(s)
        PROVE  s[j] \in {t[i] : i \in 1 .. Len(t)}
    <2>1. j \in 1 .. Len(t) /\ t[j] = s[j]
      BY <1>1
    <2> QED BY <2>1
  <1>4. e \in {t[i] : i \in 1 .. Len(t)}
    <2>1. Len(s) + 1 \in 1 .. Len(t)
      BY <1>1
    <2> QED BY <1>1, <2>1
  <1>5. {t[i] : i \in 1 .. Len(t)} = {s[i] : i \in 1 .. Len(s)} \cup {e}
    BY <1>2, <1>3, <1>4
  <1> QED BY <1>5 DEF t

\* Three put at once.
LEMMA PutThree ==
  ASSUME NEW S, NEW s \in Seq(S), NEW v \in Seq(S), Len(v) = 3
  PROVE  /\ s \o v \in Seq(S) /\ Len(s) \in Nat /\ Len(s \o v) = Len(s) + 3
         /\ \A i \in 1 .. Len(s) : (s \o v)[i] = s[i] /\ i \in 1 .. Len(s \o v)
         /\ (s \o v)[Len(s) + 1] = v[1] /\ (s \o v)[Len(s) + 2] = v[2] /\ (s \o v)[Len(s) + 3] = v[3]
         /\ \A i \in 1 .. Len(s \o v) : i \in 1 .. Len(s) \/ i \in {Len(s) + 1, Len(s) + 2, Len(s) + 3}
  <1>1. /\ s \o v \in Seq(S) /\ Len(s \o v) = Len(s) + Len(v)
        /\ \A i \in 1 .. Len(s) + Len(v) : (s \o v)[i] = IF i <= Len(s) THEN s[i] ELSE v[i - Len(s)]
    BY ConcatProperties
  <1> DEFINE t == s \o v
  <1>2. Len(s) \in Nat
    OBVIOUS
  <1> HIDE DEF t
  <1> QED BY <1>1, <1>2 DEF t
-----------------------------------------------------------------------------
(* Remainders, which wrap a position or a generation.                      *)

\* A number is its quotient's multiple and its remainder, and no other.
LEMMA DivMod ==
  ASSUME NEW c \in Nat \ {0}, NEW x \in Int
  PROVE  x = c * (x \div c) + (x % c) /\ x % c \in 0 .. c - 1 /\ x \div c \in Int
  OBVIOUS

LEMMA Multiple ==
  ASSUME NEW c \in Nat \ {0}, NEW d \in Int, c * d < c, -c < c * d
  PROVE  d = 0
  <1>1. CASE d >= 1
    <2>1. c * d >= c
      BY <1>1
    <2> QED BY <2>1
  <1>2. CASE d <= -1
    <2>1. c * d <= -c
      BY <1>2
    <2> QED BY <2>1
  <1> QED BY <1>1, <1>2

LEMMA Remainder ==
  ASSUME NEW c \in Nat \ {0}, NEW q \in Int, NEW r \in 0 .. c - 1
  PROVE  (c * q + r) % c = r
  <1> DEFINE x == c * q + r
  <1>1. x \in Int
    OBVIOUS
  <1> HIDE DEF x
  <1>2. x = c * (x \div c) + (x % c) /\ x % c \in 0 .. c - 1 /\ x \div c \in Int
    BY <1>1, DivMod
  <1> USE DEF x
  <1>3. q - (x \div c) \in Int
    BY <1>2
  <1>4. c * (q - (x \div c)) = (x % c) - r
    BY <1>2
  <1>5. c * (q - (x \div c)) < c /\ -c < c * (q - (x \div c))
    BY <1>2, <1>4
  <1>6. q - (x \div c) = 0
    BY <1>3, <1>5, Multiple
  <1> QED BY <1>2, <1>4, <1>6

\* Within one turn of the width either way, the remainder is a turn added or taken.
LEMMA Around ==
  ASSUME NEW c \in Nat \ {0}, NEW x \in Int, -c <= x, x < c + c
  PROVE  x % c = IF x < 0 THEN x + c ELSE IF x < c THEN x ELSE x - c
  <1>1. CASE x < 0
    <2>1. x + c \in 0 .. c - 1 /\ x = c * (-1) + (x + c)
      BY <1>1
    <2> QED BY <1>1, <2>1, Remainder
  <1>2. CASE 0 <= x /\ x < c
    <2>1. x \in 0 .. c - 1 /\ x = c * 0 + x
      BY <1>2
    <2> QED BY <1>2, <2>1, Remainder
  <1>3. CASE c <= x
    <2>1. x - c \in 0 .. c - 1 /\ x = c * 1 + (x - c)
      BY <1>3
    <2> QED BY <1>3, <2>1, Remainder
  <1> QED BY <1>1, <1>2, <1>3
-----------------------------------------------------------------------------
(* Recursion on 0 .. n.                                                    *)

\* What 0 is of, and each number after one that is, all are.
LEMMA UpTo ==
  ASSUME NEW n \in Nat, NEW P, 0 \in P, \A i \in 1 .. n : i - 1 \in P => i \in P
  PROVE  0 .. n \subseteq P
  <1> DEFINE T == (0 .. n) \ P
             R == OpToRel(<, Nat)
  <1>1. SUFFICES ASSUME T # {} PROVE FALSE
    OBVIOUS
  <1>2. T \subseteq Nat
    OBVIOUS
  <1>3. IsWellFoundedOn(R, Nat)
    BY NatLessThanWellFounded
  <1>4. \A x, y \in Nat : x < y => <<x, y>> \in R
    BY DEF OpToRel
  <1> HIDE DEF R
  <1>5. PICK x \in T : \A y \in T : ~ (<<y, x>> \in R)
    BY <1>1, <1>2, <1>3, WFMin
  <1>6. x # 0 /\ x \in 1 .. n /\ x - 1 \in 0 .. n /\ x - 1 < x
    OBVIOUS
  <1>7. x - 1 \in P
    BY <1>2, <1>4, <1>5, <1>6
  <1> QED BY <1>6, <1>7

\* A function by recursion on 0 .. n: its value at 0, and by each number the step to it.
StepsOn(step, n, S) == step \in [1 .. n -> [S -> S]]
Follows(f, n, S, b, step) ==
  f \in [0 .. n -> S] /\ f[0] = b /\ \A i \in 1 .. n : f[i] = step[i][f[i - 1]]

LEMMA Recursion ==
  ASSUME NEW n \in Nat, NEW S, NEW b \in S, NEW step, StepsOn(step, n, S)
  PROVE  \E f : Follows(f, n, S, b, step)
  <1> USE DEF StepsOn
  <1> DEFINE Goes(m, f) == f \in [0 .. m -> S] /\ f[0] = b /\ \A i \in 1 .. m : f[i] = step[i][f[i - 1]]
             P == {m \in 0 .. n : \E f : Goes(m, f)}
  <1>1. 0 \in P
    <2>1. PICK f : f = [i \in 0 .. 0 |-> b]
      OBVIOUS
    <2>2. Goes(0, f)
      BY <2>1
    <2> QED BY <2>2
  <1>2. ASSUME NEW m \in 1 .. n, m - 1 \in P PROVE m \in P
    <2>1. PICK f : Goes(m - 1, f)
      BY <1>2
    <2>2. PICK h : h = [i \in 0 .. m |-> IF i = m THEN step[m][f[m - 1]] ELSE f[i]]
      OBVIOUS
    <2>3. f[m - 1] \in S
      BY <2>1
    <2>4. h \in [0 .. m -> S]
      BY <2>1, <2>2, <2>3
    <2>5. h[0] = b /\ \A i \in 1 .. m : h[i] = step[i][h[i - 1]]
      BY <2>1, <2>2
    <2>6. Goes(m, h) /\ m \in 0 .. n
      BY <2>4, <2>5
    <2> HIDE DEF Goes
    <2> QED BY <2>6
  <1> HIDE DEF P
  <1>3. 0 .. n \subseteq P
    BY <1>1, <1>2, UpTo
  <1>4. n \in P
    BY <1>3
  <1> QED BY <1>4 DEF P, Follows
=============================================================================
