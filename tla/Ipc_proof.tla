------------------------------ MODULE Ipc_proof -------------------------------
(***************************************************************************)
(* What a guest and its host pass through shared memory.  The ring         *)
(* implements a bounded queue, for any number of frames and any width of   *)
(* position it divides, and what its consumer looks at stands until it     *)
(* advances.  Over it, a guest's files and the host's, for any number of   *)
(* opens and any size of the submission ring: an answer is told once and   *)
(* to the owner that asked, a write is committed once, no turn is rung     *)
(* over records still being run, no record throws but a write the host     *)
(* refuses, and between turns the two ends agree on what is open.  And the *)
(* words a turn's records lie in, for any range and any sizes of records,  *)
(* implement the log a program was promised.                               *)
(***************************************************************************)
EXTENDS Ring, Files, Records, Elements
-----------------------------------------------------------------------------
LEMMA Widths ==
  ASSUME RingAssumption
  PROVE  /\ Cap \in Nat \ {0} /\ PosMod \in Nat \ {0} /\ Cap < PosMod
         /\ Position = 0 .. PosMod - 1 /\ SlotIds = 0 .. Cap - 1
         /\ None \notin Position /\ None \notin SlotIds /\ None \notin Pkts
         /\ Oversize \notin Pkts
  BY DEF RingAssumption, Position, SlotIds

\* The position i frames past the head.
Pos(i) == (head + i) % PosMod

\* How the length and the positions move with the head and the tail.
LEMMA Lengths ==
  ASSUME RingAssumption, NEW h \in Position, NEW t \in Position
  PROVE  /\ LenOf(h, t) \in 0 .. PosMod - 1
         /\ (h + LenOf(h, t)) % PosMod = t
         /\ (t + 1) % PosMod \in Position
         /\ (h + 1) % PosMod \in Position
         /\ LenOf(h, t) < Cap => LenOf(h, (t + 1) % PosMod) = LenOf(h, t) + 1
         /\ LenOf(h, t) # 0 => LenOf((h + 1) % PosMod, t) = LenOf(h, t) - 1
  <1>0. /\ PosMod \in Nat \ {0} /\ Cap \in Nat /\ Cap < PosMod
        /\ h \in 0 .. PosMod - 1 /\ t \in 0 .. PosMod - 1 /\ Position = 0 .. PosMod - 1
    BY Widths
  <1> DEFINE n == LenOf(h, t)
             u == (t + 1) % PosMod
             g == (h + 1) % PosMod
  <1>1. n = IF t - h < 0 THEN t - h + PosMod ELSE t - h
    <2>1. t - h \in Int /\ -PosMod <= t - h /\ t - h < PosMod + PosMod /\ t - h < PosMod
      BY <1>0
    <2> QED BY <1>0, <2>1, Around DEF LenOf
  <1>2. u = IF t + 1 < PosMod THEN t + 1 ELSE 0
    <2>1. t + 1 \in Int /\ -PosMod <= t + 1 /\ t + 1 < PosMod + PosMod /\ ~ (t + 1 < 0)
      BY <1>0
    <2>2. u = IF t + 1 < PosMod THEN t + 1 ELSE (t + 1) - PosMod
      BY <1>0, <2>1, Around
    <2>3. ~ (t + 1 < PosMod) => (t + 1) - PosMod = 0
      BY <1>0
    <2> QED BY <2>2, <2>3
  <1>3. g = IF h + 1 < PosMod THEN h + 1 ELSE 0
    <2>1. h + 1 \in Int /\ -PosMod <= h + 1 /\ h + 1 < PosMod + PosMod /\ ~ (h + 1 < 0)
      BY <1>0
    <2>2. g = IF h + 1 < PosMod THEN h + 1 ELSE (h + 1) - PosMod
      BY <1>0, <2>1, Around
    <2>3. ~ (h + 1 < PosMod) => (h + 1) - PosMod = 0
      BY <1>0
    <2> QED BY <2>2, <2>3
  <1>4. n \in 0 .. PosMod - 1
    BY <1>0, <1>1
  <1>5. (h + n) % PosMod = t
    <2> HIDE DEF n
    <2>1. h + n \in Int /\ -PosMod <= h + n /\ h + n < PosMod + PosMod /\ ~ (h + n < 0)
      BY <1>0, <1>4
    <2>2. (h + n) % PosMod = IF h + n < PosMod THEN h + n ELSE (h + n) - PosMod
      BY <1>0, <2>1, Around
    <2>3. IF h + n < PosMod THEN h + n = t ELSE (h + n) - PosMod = t
      BY <1>0, <1>1
    <2> QED BY <2>2, <2>3
  <1>6. u \in Position /\ g \in Position
    BY <1>0, <1>2, <1>3
  <1>7. n < Cap => LenOf(h, u) = n + 1
    <2> HIDE DEF n, u
    <2>1. u - h \in Int /\ -PosMod <= u - h /\ u - h < PosMod + PosMod /\ u - h < PosMod
      BY <1>0, <1>6
    <2>2. LenOf(h, u) = IF u - h < 0 THEN u - h + PosMod ELSE u - h
      BY <1>0, <2>1, Around DEF LenOf
    <2> QED BY <1>0, <1>1, <1>2, <2>2
  <1>8. n # 0 => LenOf(g, t) = n - 1
    <2> HIDE DEF n, g
    <2>1. t - g \in Int /\ -PosMod <= t - g /\ t - g < PosMod + PosMod /\ t - g < PosMod
      BY <1>0, <1>6
    <2>2. LenOf(g, t) = IF t - g < 0 THEN t - g + PosMod ELSE t - g
      BY <1>0, <2>1, Around DEF LenOf
    <2> QED BY <1>0, <1>1, <1>3, <2>2
  <1> QED BY <1>4, <1>5, <1>6, <1>7, <1>8

LEMMA Positions ==
  ASSUME RingAssumption, NEW h \in Position, NEW i \in 0 .. Cap
  PROVE  /\ (h + i) % PosMod \in Position
         /\ SlotAt((h + i) % PosMod) \in SlotIds
         /\ (h + 0) % PosMod = h
         /\ (((h + 1) % PosMod) + i) % PosMod = (h + (i + 1)) % PosMod
  <1>0. /\ PosMod \in Nat \ {0} /\ Cap \in Nat \ {0} /\ Cap < PosMod /\ i < PosMod
        /\ h \in 0 .. PosMod - 1 /\ Position = 0 .. PosMod - 1 /\ SlotIds = 0 .. Cap - 1
    BY Widths
  <1> DEFINE g == (h + 1) % PosMod
             p == (h + i) % PosMod
  <1>1. p \in 0 .. PosMod - 1
    <2>1. h + i \in Int
      BY <1>0
    <2> QED BY <1>0, <2>1, DivMod
  <1>2. SlotAt(p) \in 0 .. Cap - 1
    <2> HIDE DEF p
    <2>1. p \in Int
      BY <1>0, <1>1
    <2> QED BY <1>0, <2>1, DivMod DEF SlotAt
  <1>3. (h + 0) % PosMod = h
    <2>1. h + 0 = h /\ h \in Int /\ -PosMod <= h /\ h < PosMod + PosMod /\ ~ (h < 0) /\ h < PosMod
      BY <1>0
    <2> QED BY <1>0, <2>1, Around
  <1>4. (g + i) % PosMod = (h + (i + 1)) % PosMod
    <2>1. h + 1 \in Int /\ -PosMod <= h + 1 /\ h + 1 < PosMod + PosMod /\ ~ (h + 1 < 0)
      BY <1>0
    <2>2. g = IF h + 1 < PosMod THEN h + 1 ELSE (h + 1) - PosMod
      BY <1>0, <2>1, Around
    <2>3. g \in 0 .. PosMod - 1
      BY <1>0, <2>1, DivMod
    <2> HIDE DEF g
    <2>4. CASE h + 1 < PosMod
      <3>1. g + i = h + (i + 1)
        BY <1>0, <2>2, <2>4
      <3> QED BY <3>1
    <2>5. CASE ~ (h + 1 < PosMod)
      <3>1. g = 0 /\ g + i = i /\ h + (i + 1) = PosMod + i
        BY <1>0, <2>2, <2>5
      <3>2. i % PosMod = i
        <4>1. i \in Int /\ -PosMod <= i /\ i < PosMod + PosMod /\ ~ (i < 0)
          BY <1>0
        <4> QED BY <1>0, <4>1, Around
      <3>3. (PosMod + i) % PosMod = i
        <4>1. /\ PosMod + i \in Int /\ -PosMod <= PosMod + i /\ PosMod + i < PosMod + PosMod
              /\ ~ (PosMod + i < 0) /\ ~ (PosMod + i < PosMod) /\ (PosMod + i) - PosMod = i
          BY <1>0
        <4> QED BY <1>0, <4>1, Around
      <3> QED BY <3>1, <3>2, <3>3
    <2> QED BY <2>4, <2>5
  <1> QED BY <1>0, <1>1, <1>2, <1>3, <1>4

\* Positions fewer than Cap apart are of different slots: what a width that
\* Cap divides is for.
LEMMA Apart ==
  ASSUME RingAssumption, NEW h \in Position,
         NEW i \in 0 .. Cap - 1, NEW j \in 0 .. Cap - 1,
         SlotAt((h + i) % PosMod) = SlotAt((h + j) % PosMod)
  PROVE  i = j
  <1>0. /\ PosMod \in Nat \ {0} /\ Cap \in Nat \ {0} /\ Cap < PosMod /\ i < PosMod /\ j < PosMod
        /\ h \in 0 .. PosMod - 1
    BY Widths
  <1>1. PICK k \in Int : PosMod = Cap * k
    <2>1. PosMod = Cap * (PosMod \div Cap) + (PosMod % Cap) /\ PosMod \div Cap \in Int
      BY <1>0, DivMod
    <2>2. PosMod % Cap = 0
      BY DEF RingAssumption
    <2>3. Cap * (PosMod \div Cap) \in Int
      BY <1>0, <2>1
    <2>4. PosMod = Cap * (PosMod \div Cap)
      BY <2>1, <2>2, <2>3
    <2> QED BY <2>1, <2>4
  <1>2. ASSUME NEW m \in 0 .. Cap - 1
        PROVE  \E a \in Int : h + m = Cap * a + SlotAt((h + m) % PosMod)
    <2> DEFINE p == (h + m) % PosMod
    <2>1. h + m \in Int /\ -PosMod <= h + m /\ h + m < PosMod + PosMod /\ ~ (h + m < 0)
      BY <1>0
    <2>2. p = IF h + m < PosMod THEN h + m ELSE (h + m) - PosMod
      BY <1>0, <2>1, Around
    <2> HIDE DEF p
    <2>3. p \in Int
      BY <1>0, <2>1, <2>2
    <2>4. p = Cap * (p \div Cap) + SlotAt(p) /\ p \div Cap \in Int /\ SlotAt(p) \in Int
      BY <1>0, <2>3, DivMod DEF SlotAt
    <2>5. CASE h + m < PosMod
      BY <2>2, <2>4, <2>5 DEF p
    <2>6. CASE ~ (h + m < PosMod)
      <3>1. h + m = Cap * (p \div Cap) + SlotAt(p) + Cap * k
        BY <1>0, <1>1, <2>1, <2>2, <2>4, <2>6
      <3>2. (p \div Cap) + k \in Int
        BY <1>1, <2>4
      <3>3. h + m = Cap * ((p \div Cap) + k) + SlotAt(p)
        BY <1>0, <1>1, <2>4, <3>1
      <3> QED BY <3>2, <3>3 DEF p
    <2> QED BY <2>5, <2>6
  <1>3. PICK a \in Int : h + i = Cap * a + SlotAt((h + i) % PosMod)
    BY <1>2
  <1>4. PICK b \in Int : h + j = Cap * b + SlotAt((h + j) % PosMod)
    BY <1>2
  <1> DEFINE r == SlotAt((h + i) % PosMod)
  <1>5. r \in Int /\ h + i = Cap * a + r /\ h + j = Cap * b + r
    <2>1. i \in 0 .. Cap
      BY <1>0
    <2>2. r \in SlotIds
      BY <2>1, Positions
    <2>3. r \in Int
      BY <1>0, <2>2, Widths
    <2> QED BY <1>3, <1>4, <2>3
  <1> HIDE DEF r
  <1>6. a - b \in Int /\ Cap * (a - b) = i - j
    BY <1>0, <1>5
  <1>7. Cap * (a - b) < Cap /\ -Cap < Cap * (a - b)
    BY <1>0, <1>6
  <1>8. a - b = 0
    BY <1>0, <1>6, <1>7, Multiple
  <1>9. Cap * (a - b) = 0
    BY <1>0, <1>8
  <1> QED BY <1>0, <1>6, <1>9
-----------------------------------------------------------------------------
(***************************************************************************)
(* The inductive invariant.  `Stands`: a frame waiting has its packet in   *)
(* its own slot or none, and no writer begun over it, so that no store of  *)
(* a producer reaches it.                                                  *)
(***************************************************************************)
SlotOf(i) == SlotAt(Pos(i))

Stands(i) ==
  /\ frames[SlotOf(i)].pkt_at \in {None, SlotOf(i)}
  /\ frames[SlotOf(i)].pkt_at # None => slots[SlotOf(i)] \in Pkts /\ begun # SlotOf(i)

RingInv ==
  /\ RingTypeOK
  /\ Length <= Cap
  /\ \A i \in 0 .. Length - 1 : Stands(i)
  /\ producer = "inplace" => begun = None
  /\ view # None => view = head /\ Length # 0

Items == [msg : Msgs, pkt : Pkts \cup {None}]

\* What every step keeps but the advance: the frames waiting.
KeepsItems ==
  \A p \in Position : (\E i \in 0 .. Length - 1 : p = Pos(i)) => ItemAt(p)' = ItemAt(p)

LEMMA Counts ==
  ASSUME RingAssumption, RingInv
  PROVE  /\ Length \in 0 .. Cap /\ Cap \in Nat \ {0}
         /\ Pos(Length) = tail /\ Pos(0) = head
         /\ \A i \in 0 .. Cap : Pos(i) \in Position /\ SlotOf(i) \in SlotIds
         /\ head \in Position /\ tail \in Position
  <1>1. head \in Position /\ tail \in Position /\ Length <= Cap
    BY DEF RingInv, RingTypeOK
  <1>2. Cap \in Nat \ {0} /\ PosMod \in Nat \ {0}
    BY Widths
  <1>3. Length \in 0 .. PosMod - 1 /\ (head + Length) % PosMod = tail
    BY <1>1, Lengths DEF Length
  <1>4. Length \in 0 .. Cap
    BY <1>1, <1>2, <1>3
  <1>5. ASSUME NEW i \in 0 .. Cap PROVE Pos(i) \in Position /\ SlotOf(i) \in SlotIds
    BY <1>1, <1>5, Positions DEF Pos, SlotOf
  <1>6. Pos(0) = head
    <2>1. 0 \in 0 .. Cap
      BY <1>2
    <2> QED BY <1>1, <2>1, Positions DEF Pos
  <1> QED BY <1>1, <1>2, <1>3, <1>4, <1>5, <1>6 DEF Pos

\* The slot at the tail is no waiting frame's, while there is room.
LEMMA TailFree ==
  ASSUME RingAssumption, RingInv, Room, NEW i \in 0 .. Length - 1
  PROVE  SlotOf(i) # SlotAt(tail)
  <1>1. Length \in 0 .. Cap /\ Cap \in Nat \ {0} /\ Pos(Length) = tail /\ head \in Position
    BY Counts
  <1>2. i \in 0 .. Cap - 1 /\ Length \in 0 .. Cap - 1 /\ i # Length
    BY <1>1 DEF Room
  <1> QED BY <1>1, <1>2, Apart DEF SlotOf, Pos

LEMMA FrameTyped ==
  ASSUME RingAssumption, RingInv, NEW i \in 0 .. Length - 1
  PROVE  /\ frames[SlotOf(i)].msg \in Msgs
         /\ ItemAt(Pos(i)) \in Items
         /\ ItemAt(Pos(i)) = [msg |-> frames[SlotOf(i)].msg,
                              pkt |-> IF frames[SlotOf(i)].pkt_at = None THEN None ELSE slots[SlotOf(i)]]
  <1>1. Length \in 0 .. Cap /\ Cap \in Nat \ {0}
    BY Counts
  <1>2. i \in 0 .. Cap
    BY <1>1
  <1>3. SlotOf(i) \in SlotIds
    BY <1>2, Counts
  <1>4. frames[SlotOf(i)] \in Frame
    BY <1>3 DEF RingInv, RingTypeOK
  <1>5. Stands(i)
    BY DEF RingInv
  <1> QED BY <1>4, <1>5 DEF Stands, ItemAt, SlotOf, Items, Frame

\* A step that leaves a waiting frame's words, and its packet's if it has one.
LEMMA ItemsKept ==
  ASSUME RingAssumption, RingInv,
         \A i \in 0 .. Length - 1 :
           /\ frames'[SlotOf(i)] = frames[SlotOf(i)]
           /\ frames[SlotOf(i)].pkt_at # None => slots'[SlotOf(i)] = slots[SlotOf(i)]
  PROVE  KeepsItems
  <1> SUFFICES ASSUME NEW p \in Position, NEW i \in 0 .. Length - 1, p = Pos(i)
               PROVE  ItemAt(p)' = ItemAt(p)
    BY DEF KeepsItems
  <1>1. Stands(i)
    BY DEF RingInv
  <1> QED BY <1>1 DEF Stands, ItemAt, SlotOf

LEMMA WaitingTyped ==
  ASSUME RingAssumption, RingInv
  PROVE  /\ Waiting \in Seq(Items) /\ Len(Waiting) = Length
         /\ \A i \in 1 .. Length : Waiting[i] = ItemAt(Pos(i - 1))
  <1>1. Length \in 0 .. Cap /\ Cap \in Nat \ {0} /\ head \in Int
    BY Counts, Widths
  <1>2. ASSUME NEW i \in 1 .. Length
        PROVE  /\ ItemAt((head + i - 1) % PosMod) = ItemAt(Pos(i - 1))
               /\ ItemAt(Pos(i - 1)) \in Items
    <2>1. head + i - 1 = head + (i - 1) /\ i - 1 \in 0 .. Length - 1
      BY <1>1
    <2> QED BY <2>1, FrameTyped DEF Pos
  <1>3. Waiting = [i \in 1 .. Length |-> ItemAt((head + i - 1) % PosMod)]
    BY DEF Waiting
  <1> HIDE DEF Waiting, ItemAt, Items
  <1>4. \A i \in 1 .. Length : Waiting[i] = ItemAt(Pos(i - 1)) /\ Waiting[i] \in Items
    BY <1>2, <1>3
  <1>5. Length \in Nat
    BY <1>1
  <1>6. Waiting \in [1 .. Length -> Items]
    BY <1>3, <1>4
  <1> QED BY <1>4, <1>5, <1>6

LEMMA WaitingSame ==
  ASSUME RingAssumption, RingInv, UNCHANGED <<head, tail>>, KeepsItems
  PROVE  Waiting' = Waiting
  <1>1. Length' = Length /\ Length \in 0 .. Cap /\ Cap \in Nat \ {0} /\ head \in Int
    BY Counts, Widths DEF Length
  <1>2. ASSUME NEW i \in 1 .. Length
        PROVE  ItemAt((head + i - 1) % PosMod)' = ItemAt((head + i - 1) % PosMod)
    <2>1. head + i - 1 = head + (i - 1) /\ i - 1 \in 0 .. Length - 1 /\ i - 1 \in 0 .. Cap
      BY <1>1
    <2>2. PICK p \in Position : p = (head + i - 1) % PosMod
      BY <2>1, Counts DEF Pos
    <2>3. ItemAt(p)' = ItemAt(p)
      BY <2>1, <2>2 DEF KeepsItems, Pos
    <2>4. (head' + i - 1) % PosMod = p
      BY <2>2
    <2> QED BY <2>2, <2>3, <2>4 DEF ItemAt
  <1> QED BY <1>1, <1>2 DEF Waiting

LEMMA WaitingPut ==
  ASSUME RingAssumption, RingInv, Length < Cap, UNCHANGED head, Length' = Length + 1, KeepsItems,
         NEW t \in Position, t = tail, NEW e \in Items, ItemAt(t)' = e
  PROVE  Waiting' = Append(Waiting, e)
  <1>1. Length \in 0 .. Cap /\ Cap \in Nat \ {0} /\ head \in Int /\ Length \in Nat
    BY Counts, Widths
  <1>2. Waiting \in Seq(Items) /\ Len(Waiting) = Length
        /\ \A i \in 1 .. Length : Waiting[i] = ItemAt(Pos(i - 1))
    BY WaitingTyped
  <1>3. ASSUME NEW i \in 1 .. Length + 1
        PROVE  ItemAt((head + i - 1) % PosMod)' = IF i = Length + 1 THEN e ELSE Waiting[i]
    <2>1. head + i - 1 = head + (i - 1) /\ i - 1 \in 0 .. Length /\ i - 1 \in 0 .. Cap
      BY <1>1
    <2>2. PICK p \in Position : p = Pos(i - 1) /\ p = (head + i - 1) % PosMod
      BY <2>1, Counts DEF Pos
    <2>3. (head' + i - 1) % PosMod = p
      BY <2>2
    <2>4. CASE i = Length + 1
      <3>1. p = t
        BY <1>1, <2>2, <2>4, Counts
      <3> QED BY <2>3, <2>4, <3>1 DEF ItemAt
    <2>5. CASE i # Length + 1
      <3>1. i - 1 \in 0 .. Length - 1 /\ i \in 1 .. Length
        BY <1>1, <2>5
      <3>2. ItemAt(p)' = ItemAt(p)
        BY <2>2, <3>1 DEF KeepsItems
      <3>3. Waiting[i] = ItemAt(p)
        BY <1>2, <2>2, <3>1
      <3> QED BY <2>3, <2>5, <3>2, <3>3 DEF ItemAt
    <2> QED BY <2>4, <2>5
  <1> DEFINE A == Append(Waiting, e)
  <1>4. /\ A \in Seq(Items) /\ Len(A) = Length + 1
        /\ \A i \in 1 .. Length + 1 : A[i] = IF i = Length + 1 THEN e ELSE Waiting[i]
    BY <1>1, <1>2, AppendProperties
  <1>5. Waiting' = [i \in 1 .. Length + 1 |-> ItemAt((head + i - 1) % PosMod)']
    BY DEF Waiting
  <1>6. Waiting' = [i \in 1 .. Length + 1 |-> IF i = Length + 1 THEN e ELSE Waiting[i]]
    BY <1>3, <1>5
  <1> HIDE DEF A
  <1>7. A = [i \in 1 .. Length + 1 |-> A[i]]
    BY <1>4
  <1>8. A = [i \in 1 .. Length + 1 |-> IF i = Length + 1 THEN e ELSE Waiting[i]]
    BY <1>4, <1>7
  <1> QED BY <1>6, <1>8 DEF A

LEMMA WaitingTake ==
  ASSUME RingAssumption, RingInv, Length # 0, head' = (head + 1) % PosMod, Length' = Length - 1,
         UNCHANGED <<frames, slots>>
  PROVE  Waiting # <<>> /\ Waiting' = Tail(Waiting)
  <1>1. Length \in 0 .. Cap /\ Cap \in Nat \ {0} /\ head \in Int /\ Length \in Nat /\ Length - 1 \in Nat
        /\ head \in Position
    BY Counts, Widths
  <1>2. Waiting \in Seq(Items) /\ Len(Waiting) = Length
        /\ \A i \in 1 .. Length : Waiting[i] = ItemAt(Pos(i - 1))
    BY WaitingTyped
  <1>3. ASSUME NEW i \in 1 .. Length - 1
        PROVE  ItemAt((head + i - 1) % PosMod)' = Waiting[i + 1]
    <2>1. i - 1 \in 0 .. Cap /\ i + 1 \in 1 .. Length /\ (i - 1) + 1 = i /\ (i + 1) - 1 = i
      BY <1>1
    <2>2. head' + i - 1 = head' + (i - 1)
      <3>1. head' \in Int
        BY <1>1, Lengths, Widths
      <3> QED BY <2>1, <3>1
    <2>3. (head' + (i - 1)) % PosMod = (head + ((i - 1) + 1)) % PosMod
      BY <1>1, <2>1, Positions
    <2>4. (head' + i - 1) % PosMod = Pos(i)
      BY <2>1, <2>2, <2>3 DEF Pos
    <2>5. Waiting[i + 1] = ItemAt(Pos(i))
      BY <1>2, <2>1
    <2> QED BY <2>4, <2>5 DEF ItemAt
  <1>4. Waiting' = [i \in 1 .. Length - 1 |-> ItemAt((head + i - 1) % PosMod)']
    BY DEF Waiting
  <1>5. Waiting' = [i \in 1 .. Length - 1 |-> Waiting[i + 1]]
    BY <1>3, <1>4
  <1>6. Waiting # <<>>
    BY <1>1, <1>2
  <1> DEFINE B == Tail(Waiting)
  <1>7. B \in Seq(Items) /\ Len(B) = Length - 1 /\ \A i \in 1 .. Length - 1 : B[i] = Waiting[i + 1]
    BY <1>1, <1>2, <1>6, HeadTailProperties
  <1> HIDE DEF B
  <1>8. B = [i \in 1 .. Length - 1 |-> B[i]]
    BY <1>7
  <1>9. B = [i \in 1 .. Length - 1 |-> Waiting[i + 1]]
    BY <1>7, <1>8
  <1> QED BY <1>5, <1>6, <1>9 DEF B
-----------------------------------------------------------------------------
LEMMA InitRing ==
  ASSUME RingAssumption, RingInit
  PROVE  RingInv /\ Waiting = <<>>
  <1>1. /\ Cap \in Nat \ {0} /\ PosMod \in Nat \ {0} /\ 0 \in Position
    BY Widths
  <1>2. Length = 0
    <2>1. LenOf(0, 0) = 0 % PosMod
      BY DEF LenOf
    <2>2. 0 % PosMod = 0
      BY <1>1, Around
    <2> QED BY <2>1, <2>2 DEF RingInit, Length
  <1>3. (CHOOSE m \in Msgs : TRUE) \in Msgs
    BY DEF RingAssumption
  <1>4. RingTypeOK
    <2>1. frames \in [SlotIds -> Frame]
      BY <1>3 DEF RingInit, Frame
    <2> QED BY <1>1, <2>1 DEF RingInit, RingTypeOK
  <1>5. RingInv
    BY <1>1, <1>2, <1>4 DEF RingInv, RingInit
  <1> QED BY <1>2, <1>5, WaitingTyped

\* Steps that move neither end: a store into a slot no waiting frame is of, a
\* writer begun, a look.
LEMMA StoreSteps ==
  ASSUME RingAssumption, RingInv, UNCHANGED <<head, tail, frames, producer>>,
         RingTypeOK',
         \A i \in 0 .. Length - 1 : frames[SlotOf(i)].pkt_at # None =>
           slots'[SlotOf(i)] = slots[SlotOf(i)] /\ begun' # SlotOf(i),
         producer = "inplace" => begun' = None,
         view' # None => view' = head /\ Length # 0
  PROVE  RingInv' /\ KeepsItems /\ Waiting' = Waiting
  <1>1. Length' = Length
    BY DEF Length
  <1>2. ASSUME NEW i \in 0 .. Length - 1 PROVE Stands(i)'
    <2>1. Stands(i) /\ SlotOf(i)' = SlotOf(i)
      BY DEF RingInv, SlotOf, Pos
    <2> QED BY <2>1 DEF Stands
  <1>3. KeepsItems
    BY ItemsKept
  <1>4. Waiting' = Waiting
    BY <1>3, WaitingSame
  <1>5. RingInv'
    BY <1>1, <1>2 DEF RingInv
  <1> QED BY <1>3, <1>4, <1>5

\* A frame published: the one after the last.
LEMMA PublishSteps ==
  ASSUME RingAssumption, RingInv, Room, UNCHANGED <<head, view, producer>>,
         NEW m \in Msgs, NEW at \in {None, SlotAt(tail)}, Publish(m, at),
         slots' \in [SlotIds -> Pkts \cup {Oversize, None}],
         begun' \in SlotIds \cup {None},
         \A s \in SlotIds \ {SlotAt(tail)} : slots'[s] = slots[s],
         at # None => slots'[at] \in Pkts /\ begun' = None,
         begun' \in {None, begun}
  PROVE  RingInv' /\ KeepsItems /\ Queue!Next
  <1>0. /\ Length \in 0 .. Cap /\ Cap \in Nat \ {0} /\ Length < Cap /\ Pos(Length) = tail
        /\ \A i \in 0 .. Cap : Pos(i) \in Position /\ SlotOf(i) \in SlotIds
        /\ head \in Position /\ tail \in Position
    BY Counts DEF Room
  <1>1. /\ tail' = (tail + 1) % PosMod /\ tail' \in Position
        /\ Length' = Length + 1
    BY <1>0, Lengths DEF Publish, Length
  <1>2. SlotOf(Length) = SlotAt(tail) /\ SlotAt(tail) \in SlotIds
    <2>1. SlotOf(Length) = SlotAt(tail)
      BY <1>0 DEF SlotOf
    <2> QED BY <1>0, <2>1
  <1>3. /\ frames' \in [SlotIds -> Frame]
        /\ frames'[SlotAt(tail)] = [msg |-> m, pkt_at |-> at]
        /\ \A s \in SlotIds \ {SlotAt(tail)} : frames'[s] = frames[s]
    <2>1. frames \in [SlotIds -> Frame]
      BY DEF RingInv, RingTypeOK
    <2>2. [msg |-> m, pkt_at |-> at] \in Frame
      BY <1>2 DEF Frame
    <2> QED BY <1>2, <2>1, <2>2 DEF Publish
  <1>4. \A i \in 0 .. Length - 1 : SlotOf(i) \in SlotIds \ {SlotAt(tail)}
    <2>1. \A i \in 0 .. Length - 1 : i \in 0 .. Cap
      BY <1>0
    <2> QED BY <1>0, <2>1, TailFree
  <1>5. KeepsItems
    BY <1>3, <1>4, ItemsKept
  <1>6. ASSUME NEW i \in 0 .. Length' - 1 PROVE Stands(i)'
    <2>1. SlotOf(i)' = SlotOf(i)
      BY DEF SlotOf, Pos
    <2>2. CASE i = Length
      <3>1. SlotOf(i)' = SlotAt(tail)
        BY <1>2, <2>1, <2>2
      <3>2. /\ frames'[SlotOf(i)'].pkt_at = at
            /\ at \in {None, SlotOf(i)'}
            /\ at # None => slots'[SlotOf(i)'] \in Pkts /\ begun' # SlotOf(i)'
        <4>1. None \notin SlotIds
          BY Widths
        <4> QED BY <1>2, <1>3, <3>1, <4>1
      <3> QED BY <3>2 DEF Stands
    <2>3. CASE i # Length
      <3>1. i \in 0 .. Length - 1
        BY <1>0, <1>1, <2>3
      <3>2. Stands(i) /\ SlotOf(i) \in SlotIds \ {SlotAt(tail)}
        BY <1>4, <3>1 DEF RingInv
      <3>3. frames'[SlotOf(i)] = frames[SlotOf(i)] /\ slots'[SlotOf(i)] = slots[SlotOf(i)]
        BY <1>3, <3>2
      <3>4. SlotOf(i) # None
        BY <3>2, Widths
      <3> QED BY <2>1, <3>2, <3>3, <3>4 DEF Stands
    <2> QED BY <2>2, <2>3
  <1>7. RingInv'
    <2>1. RingTypeOK'
      BY <1>0, <1>1, <1>3 DEF RingInv, RingTypeOK
    <2>2. Length' <= Cap
      BY <1>0, <1>1
    <2>3. producer' = "inplace" => begun' = None
      BY DEF RingInv
    <2>4. view' # None => view' = head' /\ Length' # 0
      BY <1>0, <1>1 DEF RingInv
    <2> QED BY <1>6, <2>1, <2>2, <2>3, <2>4 DEF RingInv
  <1>8. Queue!Next
    <2>1. PICK t \in Position : t = tail
      BY <1>0
    <2> DEFINE e == [msg |-> m, pkt |-> IF at = None THEN None ELSE slots'[at]]
    <2>2. e \in Items
      BY DEF Items
    <2>3. ItemAt(t)' = e
      BY <1>3, <2>1 DEF ItemAt
    <2> HIDE DEF e
    <2>4. Waiting' = Append(Waiting, e)
      BY <1>0, <1>1, <1>5, <2>1, <2>2, <2>3, WaitingPut
    <2>5. Len(Waiting) < Cap
      BY <1>0, WaitingTyped
    <2> QED BY <2>2, <2>4, <2>5 DEF Queue!Next, Queue!Enqueue, Items
  <1> QED BY <1>5, <1>7, <1>8

LEMMA AdvanceSteps ==
  ASSUME RingAssumption, RingInv, Advance
  PROVE  RingInv' /\ Queue!Next
  <1>0. /\ Length \in 0 .. Cap /\ Cap \in Nat \ {0} /\ Length # 0
        /\ head \in Position /\ tail \in Position
        /\ head' = (head + 1) % PosMod /\ view' = None
        /\ UNCHANGED <<tail, frames, slots, begun, producer>>
    BY Counts DEF Advance
  <1>1. Length' = Length - 1 /\ head' \in Position
    BY <1>0, Lengths DEF Length
  <1>2. ASSUME NEW i \in 0 .. Length' - 1 PROVE Stands(i)'
    <2>1. i + 1 \in 0 .. Length - 1 /\ i \in 0 .. Cap
      BY <1>0, <1>1
    <2>2. Pos(i)' = Pos(i + 1)
      BY <1>0, <2>1, Positions DEF Pos
    <2>3. SlotOf(i)' = SlotOf(i + 1) /\ Stands(i + 1)
      BY <2>1, <2>2 DEF SlotOf, SlotAt, RingInv
    <2> QED BY <1>0, <2>3 DEF Stands
  <1>3. RingInv'
    <2>1. RingTypeOK'
      BY <1>0, <1>1 DEF RingInv, RingTypeOK
    <2>2. Length' <= Cap
      BY <1>0, <1>1
    <2> QED BY <1>0, <1>2, <2>1, <2>2 DEF RingInv
  <1>4. Queue!Next
    BY <1>0, <1>1, WaitingTake DEF Queue!Next, Queue!Dequeue
  <1> QED BY <1>3, <1>4
-----------------------------------------------------------------------------
\* What a step does to the queue, and to the frames that wait in it.
RingMoves ==
  /\ RingInv'
  /\ Queue!Next \/ Waiting' = Waiting
  /\ view' = None \/ KeepsItems

LEMMA PushBareSteps ==
  ASSUME RingAssumption, RingInv, NEW m \in Msgs, PushBare(m)
  PROVE  RingMoves
  <1>1. /\ Room /\ Publish(m, None) /\ UNCHANGED <<head, slots, begun, view, producer>>
        /\ None \in {None, SlotAt(tail)}
    BY DEF PushBare
  <1>2. slots' \in [SlotIds -> Pkts \cup {Oversize, None}] /\ begun' \in SlotIds \cup {None}
    BY <1>1 DEF RingInv, RingTypeOK
  <1> QED BY <1>1, <1>2, PublishSteps DEF RingMoves

LEMMA PushInPlaceSteps ==
  ASSUME RingAssumption, RingInv, NEW m \in Msgs, NEW p \in Pkts \cup {Oversize}, PushInPlace(m, p)
  PROVE  RingMoves
  <1>1. /\ producer = "inplace" /\ Room /\ begun = None
        /\ slots' = [slots EXCEPT ![SlotAt(tail)] = p]
        /\ UNCHANGED <<head, begun, view, producer>>
    BY DEF PushInPlace, RingInv
  <1>2. SlotAt(tail) \in SlotIds
    <2>1. Length \in 0 .. Cap /\ Pos(Length) = tail
      BY Counts
    <2> QED BY <2>1, Counts DEF SlotOf
  <1>3. /\ slots' \in [SlotIds -> Pkts \cup {Oversize, None}] /\ slots'[SlotAt(tail)] = p
        /\ \A s \in SlotIds \ {SlotAt(tail)} : slots'[s] = slots[s]
    BY <1>1, <1>2 DEF RingInv, RingTypeOK
  <1>4. CASE p = Oversize
    <2>1. UNCHANGED <<frames, tail>>
      BY <1>4 DEF PushInPlace
    <2>2. RingTypeOK'
      BY <1>1, <1>3, <2>1 DEF RingInv, RingTypeOK
    <2>3. ASSUME NEW i \in 0 .. Length - 1
          PROVE  slots'[SlotOf(i)] = slots[SlotOf(i)] /\ begun' # SlotOf(i)
      <3>1. i \in 0 .. Cap /\ SlotOf(i) # SlotAt(tail)
        BY <1>1, Counts, TailFree
      <3>2. SlotOf(i) \in SlotIds
        BY <3>1, Counts
      <3>3. None \notin SlotIds
        BY Widths
      <3> QED BY <1>1, <1>3, <3>1, <3>2, <3>3
    <2> QED BY <1>1, <2>1, <2>2, <2>3, StoreSteps DEF RingInv, RingMoves
  <1>5. CASE p # Oversize
    <2>1. Publish(m, SlotAt(tail)) /\ p \in Pkts
      BY <1>5 DEF PushInPlace
    <2> QED BY <1>1, <1>2, <1>3, <2>1, PublishSteps DEF RingMoves
  <1> QED BY <1>4, <1>5

LEMMA PushBegunSteps ==
  ASSUME RingAssumption, RingInv, NEW m \in Msgs, PushBegun(m)
  PROVE  RingMoves
  <1>1. /\ Room /\ begun = SlotAt(tail) /\ slots[begun] \in Pkts /\ Publish(m, begun)
        /\ begun' = None /\ UNCHANGED <<head, slots, view, producer>>
        /\ begun \in {None, SlotAt(tail)}
    BY DEF PushBegun
  <1>2. slots' \in [SlotIds -> Pkts \cup {Oversize, None}]
    BY <1>1 DEF RingInv, RingTypeOK
  <1> QED BY <1>1, <1>2, PublishSteps DEF RingMoves

LEMMA BeginSteps ==
  ASSUME RingAssumption, RingInv, BeginPush
  PROVE  RingMoves
  <1>1. /\ producer = "writer" /\ Room /\ begun' = SlotAt(tail)
        /\ UNCHANGED <<head, tail, frames, slots, view, producer>>
    BY DEF BeginPush
  <1>2. SlotAt(tail) \in SlotIds
    <2>1. Length \in 0 .. Cap /\ Pos(Length) = tail
      BY Counts
    <2> QED BY <2>1, Counts DEF SlotOf
  <1>3. RingTypeOK'
    BY <1>1, <1>2 DEF RingInv, RingTypeOK
  <1>4. \A i \in 0 .. Length - 1 : begun' # SlotOf(i)
    BY <1>1, TailFree
  <1> QED BY <1>1, <1>3, <1>4, StoreSteps DEF RingInv, RingMoves

LEMMA FillSteps ==
  ASSUME RingAssumption, RingInv, NEW p \in Pkts \cup {Oversize}, Fill(p)
  PROVE  RingMoves
  <1>1. /\ begun # None /\ slots' = [slots EXCEPT ![begun] = p]
        /\ UNCHANGED <<head, tail, frames, begun, view, producer>>
    BY DEF Fill
  <1>2. RingTypeOK'
    BY <1>1 DEF RingInv, RingTypeOK
  <1>3. ASSUME NEW i \in 0 .. Length - 1, frames[SlotOf(i)].pkt_at # None
        PROVE  slots'[SlotOf(i)] = slots[SlotOf(i)] /\ begun' # SlotOf(i)
    <2>1. begun # SlotOf(i)
      BY <1>3 DEF RingInv, Stands
    <2>2. i \in 0 .. Cap
      BY Counts
    <2>3. SlotOf(i) \in SlotIds
      BY <2>2, Counts
    <2> QED BY <1>1, <2>1, <2>3 DEF RingInv, RingTypeOK
  <1> QED BY <1>1, <1>2, <1>3, StoreSteps DEF RingInv, RingMoves

LEMMA PeekSteps ==
  ASSUME RingAssumption, RingInv, Peek
  PROVE  RingMoves
  <1>1. /\ Length # 0 /\ view' = head
        /\ UNCHANGED <<head, tail, frames, slots, begun, producer>>
    BY DEF Peek
  <1>2. RingTypeOK'
    BY <1>1 DEF RingInv, RingTypeOK
  <1>3. \A i \in 0 .. Length - 1 : frames[SlotOf(i)].pkt_at # None => begun # SlotOf(i)
    BY DEF RingInv, Stands
  <1> QED BY <1>1, <1>2, <1>3, StoreSteps DEF RingInv, RingMoves

LEMMA RingSteps ==
  ASSUME RingAssumption, RingInv, [RingNext]_ringVars
  PROVE  RingMoves
  <1>1. ASSUME NEW m \in Msgs, PushBare(m) PROVE RingMoves
    BY <1>1, PushBareSteps
  <1>2. ASSUME NEW m \in Msgs, PushBegun(m) PROVE RingMoves
    BY <1>2, PushBegunSteps
  <1>3. ASSUME NEW m \in Msgs, NEW p \in Pkts \cup {Oversize}, PushInPlace(m, p) PROVE RingMoves
    BY <1>3, PushInPlaceSteps
  <1>4. ASSUME NEW p \in Pkts \cup {Oversize}, Fill(p) PROVE RingMoves
    BY <1>4, FillSteps
  <1>5. CASE BeginPush
    BY <1>5, BeginSteps
  <1>6. CASE Peek
    BY <1>6, PeekSteps
  <1>7. CASE Advance
    BY <1>7, AdvanceSteps DEF Advance, RingMoves
  <1>8. CASE UNCHANGED ringVars
    <2>1. UNCHANGED <<head, tail, frames, slots, begun, view, producer>>
      BY <1>8 DEF ringVars
    <2>2. RingTypeOK'
      BY <2>1 DEF RingInv, RingTypeOK
    <2>3. \A i \in 0 .. Length - 1 : frames[SlotOf(i)].pkt_at # None => begun # SlotOf(i)
      BY DEF RingInv, Stands
    <2> QED BY <2>1, <2>2, <2>3, StoreSteps DEF RingInv, RingMoves
  <1> QED BY <1>1, <1>2, <1>3, <1>4, <1>5, <1>6, <1>7, <1>8 DEF RingNext

LEMMA AlwaysInv ==
  ASSUME RingAssumption
  PROVE  RingSpec => []RingInv
  <1>1. RingInit => RingInv
    BY InitRing
  <1>2. RingInv /\ [RingNext]_ringVars => RingInv'
    BY RingSteps DEF RingMoves
  <1> QED BY <1>1, <1>2, PTL DEF RingSpec
-----------------------------------------------------------------------------
(***************************************************************************)
(* For any number of frames and any width of position it divides, the      *)
(* header's words, the frames and the slots are a bounded first-in         *)
(* first-out queue, with either producer: what is pushed is read whole,    *)
(* once and in order (Ring of guest ipc/ring.hpp and host ipc/ring.ts).    *)
(***************************************************************************)
THEOREM RingIsFifo ==
  ASSUME RingAssumption
  PROVE  RingSpec => ImplementsFifo
  <1>1. RingInit => Waiting = <<>>
    BY InitRing
  <1>2. RingInv /\ [RingNext]_ringVars => [Queue!Next]_Waiting
    BY RingSteps DEF RingMoves
  <1> QED BY <1>1, <1>2, AlwaysInv, PTL DEF RingSpec, ImplementsFifo, Queue!Spec, Queue!Init

(***************************************************************************)
(* No push, begun, filled or refused writes the frame its consumer looks   *)
(* at, nor the frame's packet, until the consumer advances (Ring.pkt,      *)
(* "valid until advance").                                                 *)
(***************************************************************************)
THEOREM ViewsStand ==
  ASSUME RingAssumption
  PROVE  RingSpec => ViewStands
  <1>1. RingInv /\ [RingNext]_ringVars => [view # None /\ view' = view => ItemAt(view)' = ItemAt(view)]_ringVars
    <2> SUFFICES ASSUME RingInv, [RingNext]_ringVars, view # None, view' = view
                 PROVE  ItemAt(view)' = ItemAt(view)
      OBVIOUS
    <2>1. KeepsItems
      BY RingSteps DEF RingMoves
    <2>2. view = head /\ Length # 0 /\ Length \in 0 .. Cap /\ Cap \in Nat \ {0} /\ Pos(0) = head
      BY Counts DEF RingInv
    <2>3. PICK p \in Position : p = view /\ p = Pos(0)
      BY <2>2, Counts
    <2>4. 0 \in 0 .. Length - 1
      BY <2>2
    <2>5. ItemAt(p)' = ItemAt(p)
      BY <2>1, <2>3, <2>4 DEF KeepsItems
    <2> QED BY <2>3, <2>5 DEF ItemAt
  <1> QED BY <1>1, AlwaysInv, PTL DEF RingSpec, ViewStands

(***************************************************************************)
(* All three at once: a bounded queue whose consumer may act on a frame    *)
(* where it lies, and every word of the ring in its range.                 *)
(***************************************************************************)
THEOREM IsBoundedQueue ==
  ASSUME RingAssumption
  PROVE  RingSpec => BoundedQueue
  <1>1. RingInv => RingTypeOK
    BY DEF RingInv
  <1>2. RingSpec => []RingTypeOK
    BY <1>1, AlwaysInv, PTL
  <1> QED BY <1>2, RingIsFifo, ViewsStand DEF BoundedQueue
-----------------------------------------------------------------------------
(***************************************************************************)
(* Files.                                                                  *)
(***************************************************************************)

Held == DOMAIN owners
Kept == DOMAIN files

\* The descriptors the turn's records have yet to open, and to close; and the
\* answers on their way.
Turned == {toRun[i] : i \in 1 .. Len(toRun)}
Of(op) == {r.fd : r \in {s \in Turned : s.op = op}}
Opening == Of("openat")
Closing == Of("close")
Coming  == {sq[i] : i \in 1 .. Len(sq)} \cup ({sending} \ {Nothing})
Answering == {a.fd : a \in Coming}

(***************************************************************************)
(* The inductive invariant.  `Records`: no descriptor is opened twice, and *)
(* one no longer held is closed after it.  `Answers`: no two are of one    *)
(* descriptor.  The rest is of each descriptor.                            *)
(***************************************************************************)
Types ==
  /\ taken \in 0 .. MaxOpens
  /\ Held \subseteq 1 .. taken
  /\ toRun \in Seq(SysRec)
  /\ files = [fd \in Kept |-> files[fd]]
  /\ Kept \subseteq 1 .. taken
  /\ \A fd \in Kept : files[fd] \in File
  /\ sending \in Answer \cup {Nothing}
  /\ sq \in Seq(Answer)
  /\ told \in [Fds -> Seq(BOOLEAN)]
  /\ commits \in Seq(Fds)
  /\ side \in {"host", "guest", "run"}

Opens1(i) == toRun[i].op = "openat"

Records ==
  /\ \A i, j \in 1 .. Len(toRun) : Opens1(i) /\ Opens1(j) /\ toRun[i].fd = toRun[j].fd => i = j
  /\ \A i \in 1 .. Len(toRun) : Opens1(i) /\ toRun[i].fd \notin Held =>
       \E j \in 1 .. Len(toRun) : i < j /\ toRun[j].op = "close" /\ toRun[j].fd = toRun[i].fd
  /\ \A i \in 1 .. Len(toRun) : toRun[i].fd <= taken
  /\ side = "host" => toRun = <<>>

Singly ==
  /\ \A i, j \in 1 .. Len(sq) : sq[i].fd = sq[j].fd => i = j
  /\ \A i \in 1 .. Len(sq) : sq[i].fd # sending.fd

Heard(fd) == told[fd] = <<TRUE>> \/ [fd |-> fd, ok |-> TRUE] \in Coming

FdOK(fd) ==
  /\ fd > taken => told[fd] = <<>> /\ fd \notin Answering
  /\ fd \in Held => fd \notin Closing
  /\ fd \in Opening => fd \notin Kept /\ told[fd] = <<>> /\ fd \notin Answering
  /\ fd \in Kept \ Held => fd \in Closing
  /\ fd \in Answering => told[fd] = <<>>
  /\ fd \in Kept /\ (fd \in Answering \/ told[fd] # <<>>) => files[fd].ready
  /\ Len(told[fd]) <= 1
  /\ fd \in Held /\ Heard(fd) => fd \in Kept

Committed ==
  /\ CommittedOnce
  /\ \A i \in 1 .. Len(commits) :
       commits[i] \notin Kept \cup Opening /\ commits[i] <= taken

FilesOK ==
  /\ Types
  /\ Records
  /\ Singly
  /\ \A fd \in Fds : FdOK(fd)
  /\ Committed

LEMMA InitFiles ==
  ASSUME FilesAssumption, FilesInit
  PROVE  FilesOK
  <1>0. /\ toRun = <<>> /\ sq = <<>> /\ sending = Nothing /\ commits = <<>>
        /\ owners = << >> /\ files = << >> /\ taken = 0 /\ side = "host"
        /\ told = [fd \in Fds |-> <<>>]
    BY DEF FilesInit
  <1>1. Held = {} /\ Kept = {}
    BY <1>0 DEF Held, Kept
  <1>2. Opening = {} /\ Closing = {} /\ Coming = {} /\ Answering = {}
    BY <1>0 DEF Opening, Closing, Coming, Answering, Of, Turned
  <1>3. Types
    <2>1. files = [fd \in Kept |-> files[fd]]
      BY <1>0, <1>1
    <2>2. taken \in 0 .. MaxOpens
      BY <1>0 DEF FilesAssumption
    <2>3. told \in [Fds -> Seq(BOOLEAN)]
      BY <1>0
    <2>4. toRun \in Seq(SysRec) /\ sq \in Seq(Answer) /\ commits \in Seq(Fds)
      BY <1>0
    <2> QED BY <1>0, <1>1, <2>1, <2>2, <2>3, <2>4 DEF Types
  <1>4. Records /\ Singly /\ Committed
    BY <1>0, <1>1, <1>2 DEF Records, Singly, Committed, CommittedOnce
  <1>5. ASSUME NEW fd \in Fds PROVE FdOK(fd)
    BY <1>0, <1>1, <1>2 DEF FdOK, Heard
  <1> QED BY <1>3, <1>4, <1>5 DEF FilesOK
-----------------------------------------------------------------------------
\* What a record more, and one fewer, makes of what is to open and to close.
LEMMA RecordPut ==
  ASSUME Types, NEW r, toRun' = Append(toRun, r)
  PROVE  /\ Opening' = Opening \cup (IF r.op = "openat" THEN {r.fd} ELSE {})
         /\ Closing' = Closing \cup (IF r.op = "close" THEN {r.fd} ELSE {})
  <1>1. toRun \in Seq(SysRec)
    BY DEF Types
  <1>2. Turned' = {Append(toRun, r)[i] : i \in 1 .. Len(Append(toRun, r))}
    BY DEF Turned
  <1>3. Turned' = Turned \cup {r}
    BY <1>1, <1>2, PutLast DEF Turned
  <1> QED BY <1>3 DEF Of, Opening, Closing

LEMMA RecordTaken ==
  ASSUME Types, toRun # <<>>, toRun' = Tail(toRun), NEW r, r = Head(toRun)
  PROVE  /\ Opening = Opening' \cup (IF r.op = "openat" THEN {r.fd} ELSE {})
         /\ Closing = Closing' \cup (IF r.op = "close" THEN {r.fd} ELSE {})
  <1>1. Turned = Turned' \cup {r}
    BY TakeHead DEF Types, Turned
  <1>2. Opening = Opening' \cup (IF r.op = "openat" THEN {r.fd} ELSE {})
    BY <1>1 DEF Of, Opening
  <1>3. Closing = Closing' \cup (IF r.op = "close" THEN {r.fd} ELSE {})
    BY <1>1 DEF Of, Closing
  <1> QED BY <1>2, <1>3

LEMMA RecordsSame ==
  ASSUME UNCHANGED toRun
  PROVE  Opening' = Opening /\ Closing' = Closing
  BY DEF Of, Opening, Closing, Turned

\* A descriptor not yet taken is in none of them.
LEMMA Untaken ==
  ASSUME Types, Records, NEW op, NEW fd \in Of(op)
  PROVE  fd \in 1 .. taken /\ fd \in Fds
  <1>1. PICK i \in 1 .. Len(toRun) : toRun[i].op = op /\ toRun[i].fd = fd
    BY DEF Of, Turned
  <1>2. toRun[i] \in SysRec
    BY DEF Types
  <1> QED BY <1>1, <1>2 DEF Records, SysRec, Fds, Types

LEMMA ComingTyped ==
  ASSUME Types, NEW a \in Coming
  PROVE  a \in Answer /\ a.fd \in Fds
  <1>1. \A i \in 1 .. Len(sq) : sq[i] \in Answer
    BY DEF Types
  <1>2. sending \in Answer \cup {Nothing}
    BY DEF Types
  <1> QED BY <1>1, <1>2 DEF Coming, Answer

\* Steps that leave the records' order, or add one that opens nothing.
LEMMA RecordsKept ==
  ASSUME FilesOK, NEW r \in SysRec, r.op # "openat", r.fd <= taken,
         toRun' = Append(toRun, r), UNCHANGED taken, side' # "host",
         Held \ Held' \subseteq {r.fd}, Held' \subseteq Held,
         Held' # Held => r.op = "close"
  PROVE  Records' /\ toRun' \in Seq(SysRec)
  <1>1. /\ toRun \in Seq(SysRec) /\ Len(toRun) \in Nat
        /\ Len(toRun') = Len(toRun) + 1 /\ toRun'[Len(toRun) + 1] = r
        /\ \A i \in 1 .. Len(toRun) : toRun'[i] = toRun[i]
        /\ toRun' \in Seq(SysRec)
    BY DEF FilesOK, Types
  <1>2. ASSUME NEW i \in 1 .. Len(toRun')
        PROVE  /\ toRun'[i].fd <= taken'
               /\ i \in 1 .. Len(toRun) \/ (i = Len(toRun) + 1 /\ toRun'[i] = r)
    BY <1>1 DEF FilesOK, Records
  <1>3. ASSUME NEW i \in 1 .. Len(toRun'), NEW j \in 1 .. Len(toRun'),
               Opens1(i)', Opens1(j)', toRun'[i].fd = toRun'[j].fd
        PROVE  i = j
    <2>1. i \in 1 .. Len(toRun) /\ j \in 1 .. Len(toRun)
      BY <1>2, <1>3 DEF Opens1
    <2> QED BY <1>1, <1>3, <2>1 DEF FilesOK, Records, Opens1
  <1>4. ASSUME NEW i \in 1 .. Len(toRun'), Opens1(i)', toRun'[i].fd \notin Held'
        PROVE  \E j \in 1 .. Len(toRun') : i < j /\ toRun'[j].op = "close" /\ toRun'[j].fd = toRun'[i].fd
    <2>1. i \in 1 .. Len(toRun) /\ Opens1(i) /\ toRun'[i].fd = toRun[i].fd
      BY <1>1, <1>2, <1>4 DEF Opens1
    <2>2. CASE toRun[i].fd \in Held
      <3>1. r.op = "close" /\ toRun[i].fd = r.fd
        BY <1>4, <2>1, <2>2
      <3>2. Len(toRun) + 1 \in 1 .. Len(toRun') /\ i < Len(toRun) + 1
        BY <1>1, <2>1
      <3> QED BY <1>1, <2>1, <3>1, <3>2
    <2>3. CASE toRun[i].fd \notin Held
      <3>1. PICK j \in 1 .. Len(toRun) : i < j /\ toRun[j].op = "close" /\ toRun[j].fd = toRun[i].fd
        BY <2>1, <2>3 DEF FilesOK, Records
      <3>2. j \in 1 .. Len(toRun') /\ toRun'[j] = toRun[j]
        BY <1>1, <3>1
      <3> QED BY <2>1, <3>1, <3>2
    <2> QED BY <2>2, <2>3
  <1> QED BY <1>1, <1>2, <1>3, <1>4 DEF Records

\* Answers and files as they were, and one record more that opens nothing.
LEMMA RestKept ==
  ASSUME FilesOK, UNCHANGED <<sq, sending, told, files, taken, commits>>,
         Held' \subseteq Held, Opening' = Opening, Closing \subseteq Closing',
         \A fd \in Held' : fd \in Closing' => fd \in Closing,
         \A fd \in Held \ Held' : fd \in Closing'
  PROVE  (\A fd \in Fds : FdOK(fd)') /\ Committed' /\ Singly' /\ Coming' = Coming
  <1>1. Coming' = Coming /\ Answering' = Answering /\ Kept' = Kept
    BY DEF Coming, Answering, Kept
  <1>2. ASSUME NEW fd \in Fds PROVE FdOK(fd)'
    <2>1. FdOK(fd)
      BY DEF FilesOK
    <2> QED BY <1>1, <2>1 DEF FdOK, Heard
  <1>3. Committed'
    BY <1>1 DEF FilesOK, Committed, CommittedOnce
  <1>4. Singly'
    BY DEF FilesOK, Singly
  <1> QED BY <1>1, <1>2, <1>3, <1>4

LEMMA SideSteps ==
  ASSUME FilesOK, UNCHANGED <<owners, taken, toRun, files, sending, sq, told, commits>>,
         side' \in {"host", "guest", "run"}, side' = "host" => toRun = <<>>
  PROVE  FilesOK'
  <1>1. Types' /\ Records'
    BY DEF FilesOK, Types, Records, Opens1, Held, Kept
  <1>2. Opening' = Opening /\ Closing' = Closing /\ Held' = Held
    BY RecordsSame DEF Held
  <1> QED BY <1>1, <1>2, RestKept DEF FilesOK

LEMMA ReadFileSteps ==
  ASSUME FilesOK, NEW fd \in Fds, ReadFile(fd)
  PROVE  FilesOK'
  <1> DEFINE r == Rec("read", fd)
  <1>1. /\ toRun' = Append(toRun, r) /\ fd \in Held /\ Held' = Held /\ side' = "guest"
        /\ UNCHANGED <<owners, taken, files, sending, sq, told, commits>>
    BY DEF ReadFile, Held
  <1>2. r \in SysRec /\ r.op = "read" /\ r.fd = fd
    BY DEF Rec, SysRec
  <1>3. fd <= taken
    BY <1>1 DEF FilesOK, Types
  <1> HIDE DEF r
  <1>4. Records' /\ toRun' \in Seq(SysRec)
    BY <1>1, <1>2, <1>3, RecordsKept
  <1>5. Opening' = Opening /\ Closing' = Closing
    BY <1>1, <1>2, RecordPut DEF FilesOK
  <1>6. Types'
    BY <1>1, <1>4 DEF FilesOK, Types, Kept
  <1> QED BY <1>1, <1>4, <1>5, <1>6, RestKept DEF FilesOK

LEMMA Without1 ==
  ASSUME NEW f, NEW fd
  PROVE  /\ DOMAIN Forgetting(f, fd) = DOMAIN f \ {fd}
         /\ \A g \in DOMAIN f \ {fd} : Forgetting(f, fd)[g] = f[g]
  BY DEF Forgetting

LEMMA CloseFileSteps ==
  ASSUME FilesOK, NEW fd \in Fds, CloseFile(fd)
  PROVE  FilesOK'
  <1> DEFINE r == Rec("close", fd)
  <1>1. /\ toRun' = Append(toRun, r) /\ fd <= taken /\ side' = "guest"
        /\ UNCHANGED <<taken, files, sending, sq, told, commits>>
        /\ owners' = Forgetting(owners, fd)
    BY DEF CloseFile
  <1>2. r \in SysRec /\ r.op = "close" /\ r.fd = fd
    BY DEF Rec, SysRec
  <1>3. Held' = Held \ {fd}
    BY <1>1, Without1 DEF Held
  <1> HIDE DEF r
  <1>4. Records' /\ toRun' \in Seq(SysRec)
    BY <1>1, <1>2, <1>3, RecordsKept
  <1>5. Opening' = Opening /\ Closing' = Closing \cup {fd}
    BY <1>1, <1>2, RecordPut DEF FilesOK
  <1>6. Types'
    BY <1>1, <1>3, <1>4 DEF FilesOK, Types, Kept
  <1> QED BY <1>1, <1>3, <1>4, <1>5, <1>6, RestKept DEF FilesOK

LEMMA OpenedSteps ==
  ASSUME FilesOK, Opened
  PROVE  FilesOK'
  <1> DEFINE a == Head(sq)
             r == Rec("close", a.fd)
  <1>1. /\ sq # <<>> /\ sq' = Tail(sq) /\ side' = "guest"
        /\ UNCHANGED <<taken, files, sending, commits>>
    BY DEF Opened
  <1>2. /\ sq \in Seq(Answer) /\ sq' \in Seq(Answer) /\ Len(sq) \in Nat /\ Len(sq') = Len(sq) - 1
        /\ \A i \in 1 .. Len(sq') : sq'[i] = sq[i + 1]
        /\ a = sq[1] /\ a \in Answer
    BY <1>1 DEF FilesOK, Types
  <1>3. a.fd \in Fds /\ a.ok \in BOOLEAN /\ a = [fd |-> a.fd, ok |-> a.ok]
    BY <1>2 DEF Answer
  <1>4. Singly'
    <2>1. \A i \in 1 .. Len(sq') : i + 1 \in 1 .. Len(sq)
      BY <1>2
    <2> QED BY <1>1, <1>2, <2>1 DEF FilesOK, Singly
  <1>5. /\ Coming = Coming' \cup {a}
        /\ a.fd \notin Answering'
    <2>1. {sq[i] : i \in 1 .. Len(sq)} = {sq'[i] : i \in 1 .. Len(sq')} \cup {a}
      BY <1>1, <1>2, TakeHead
    <2>2. Coming = Coming' \cup {a}
      BY <1>1, <2>1 DEF Coming
    <2>3. sending.fd # a.fd
      BY <1>1, <1>2 DEF FilesOK, Singly
    <2>4. \A i \in 1 .. Len(sq') : sq'[i].fd # a.fd
      <3>1. \A i \in 1 .. Len(sq') : i + 1 \in 1 .. Len(sq) /\ i + 1 # 1 /\ 1 \in 1 .. Len(sq)
        BY <1>2
      <3> QED BY <1>2, <3>1 DEF FilesOK, Singly
    <2>5. \A c \in Coming' : c.fd # a.fd
      BY <1>1, <2>3, <2>4 DEF Coming
    <2> QED BY <2>2, <2>5 DEF Answering
  <1>6. /\ Answering = Answering' \cup {a.fd}
        /\ a.fd \in Answering
    BY <1>5 DEF Answering
  <1>7. Kept' = Kept /\ FdOK(a.fd) /\ told[a.fd] = <<>> /\ a.fd \notin Opening
    BY <1>1, <1>3, <1>6 DEF Kept, FilesOK, FdOK
  <1>8. /\ told' \in [Fds -> Seq(BOOLEAN)]
        /\ \A fd \in Fds \ {a.fd} : told'[fd] = told[fd]
        /\ a.fd \in Held => told'[a.fd] = <<a.ok>>
        /\ a.fd \notin Held => told'[a.fd] = <<>>
    <2>1. told \in [Fds -> Seq(BOOLEAN)]
      BY DEF FilesOK, Types
    <2>2. CASE a.fd \in Held
      <3>1. told' = [told EXCEPT ![a.fd] = Append(told[a.fd], a.ok)]
        BY <2>2 DEF Opened, Owned, Held
      <3>2. Append(told[a.fd], a.ok) = <<a.ok>>
        BY <1>7
      <3>3. <<a.ok>> \in Seq(BOOLEAN)
        BY <1>3
      <3> HIDE DEF a
      <3> QED BY <1>3, <2>1, <2>2, <3>1, <3>2, <3>3
    <2>3. CASE a.fd \notin Held
      <3>1. told' = told
        BY <2>3 DEF Opened, Owned, Held
      <3> QED BY <1>7, <2>1, <2>3, <3>1
    <2> QED BY <2>2, <2>3
  <1>9. CASE a.fd \in Held /\ ~a.ok
    <2>1. owners' = Forgetting(owners, a.fd) /\ toRun' = Append(toRun, r)
      BY <1>9 DEF Opened, Owned, Held
    <2>2. r \in SysRec /\ r.op = "close" /\ r.fd = a.fd
      BY <1>3 DEF Rec, SysRec
    <2>3. a.fd <= taken
      BY <1>9 DEF FilesOK, Types
    <2>4. Held' = Held \ {a.fd}
      BY <2>1, Without1 DEF Held
    <2> HIDE DEF r
    <2>5. Records' /\ toRun' \in Seq(SysRec)
      BY <1>1, <2>1, <2>2, <2>3, <2>4, RecordsKept
    <2>6. Opening' = Opening /\ Closing' = Closing \cup {a.fd}
      BY <2>1, <2>2, RecordPut DEF FilesOK
    <2> HIDE DEF a
    <2>7. Types'
      BY <1>1, <1>2, <1>8, <2>4, <2>5 DEF FilesOK, Types, Kept
    <2>8. ASSUME NEW fd \in Fds PROVE FdOK(fd)'
      <3>1. FdOK(fd)
        BY DEF FilesOK
      <3>2. CASE fd = a.fd
        <4>1. Len(told'[fd]) = 1
          BY <1>8, <1>9, <3>2
        <4> QED BY <1>1, <1>5, <1>6, <1>7, <1>8, <1>9, <2>3, <2>4, <2>6, <3>1, <3>2, <4>1 DEF FdOK, FilesOK, Types
      <3>3. CASE fd # a.fd
        BY <1>1, <1>5, <1>6, <1>7, <1>8, <2>4, <2>6, <3>1, <3>3 DEF FdOK, Heard
      <3> QED BY <3>2, <3>3
    <2>9. Committed'
      BY <1>1, <1>7, <2>6 DEF FilesOK, Committed, CommittedOnce
    <2> QED BY <1>4, <2>5, <2>7, <2>8, <2>9 DEF FilesOK
  <1>10. CASE ~(a.fd \in Held /\ ~a.ok)
    <2>1. UNCHANGED <<owners, toRun>>
      BY <1>10 DEF Opened, Owned, Held
    <2>2. Held' = Held /\ Opening' = Opening /\ Closing' = Closing
      BY <2>1, RecordsSame DEF Held
    <2>3. Records'
      BY <1>1, <2>1, <2>2 DEF FilesOK, Records, Opens1
    <2> HIDE DEF a
    <2>4. Types'
      BY <1>1, <1>2, <1>8, <2>1, <2>2 DEF FilesOK, Types, Kept
    <2>5. ASSUME NEW fd \in Fds PROVE FdOK(fd)'
      <3>1. FdOK(fd)
        BY DEF FilesOK
      <3>2. CASE fd = a.fd
        <4>1. CASE a.fd \in Held
          <5>1. /\ Len(told'[fd]) = 1 /\ Heard(fd)
                /\ fd \in Kept /\ fd \in Answering /\ fd \in 1 .. taken
            BY <1>3, <1>5, <1>6, <1>8, <1>10, <3>1, <3>2, <4>1 DEF FdOK, Heard, FilesOK, Types
          <5> QED BY <1>1, <1>6, <1>7, <2>2, <3>1, <3>2, <4>1, <5>1, <1>5 DEF FdOK
        <4>2. CASE a.fd \notin Held
          <5>1. told'[fd] = told[fd] /\ fd \notin Answering'
            BY <1>5, <1>7, <1>8, <3>2, <4>2
          <5> QED BY <1>1, <1>7, <2>2, <3>1, <3>2, <4>2, <5>1 DEF FdOK
        <4> QED BY <4>1, <4>2
      <3>3. CASE fd # a.fd
        BY <1>1, <1>5, <1>6, <1>7, <1>8, <2>2, <3>1, <3>3 DEF FdOK, Heard
      <3> QED BY <3>2, <3>3
    <2>6. Committed'
      BY <1>1, <1>7, <2>2 DEF FilesOK, Committed, CommittedOnce
    <2> QED BY <1>4, <2>3, <2>4, <2>5, <2>6 DEF FilesOK
  <1> QED BY <1>9, <1>10

\* A descriptor more: the guest's last taken, in none of what was there.
LEMMA FreshOf ==
  ASSUME FilesAssumption, FilesOK, taken < MaxOpens
  PROVE  LET n == taken + 1 IN
         /\ n \in Fds /\ n \in 1 .. n /\ taken \in Nat /\ n \in 0 .. MaxOpens
         /\ n \notin Held \cup Kept \cup Opening \cup Closing \cup Answering
         /\ told[n] = <<>>
         /\ \A i \in 1 .. Len(toRun) : toRun[i].fd # n
         /\ \A i \in 1 .. Len(commits) : commits[i] # n
         /\ 1 .. taken \subseteq 1 .. n
  <1> DEFINE n == taken + 1
  <1>1. taken \in Nat /\ MaxOpens \in Nat /\ n \in Fds /\ n \in 1 .. n /\ n \in 0 .. MaxOpens
        /\ n > taken /\ n \notin 1 .. taken /\ 1 .. taken \subseteq 1 .. n
    <2>1. taken \in 0 .. MaxOpens
      BY DEF FilesOK, Types
    <2> QED BY <2>1 DEF Fds, FilesAssumption
  <1>2. n \notin Held \cup Kept
    BY <1>1 DEF FilesOK, Types
  <1>3. n \notin Opening \cup Closing
    BY <1>1, Untaken DEF FilesOK, Opening, Closing
  <1>4. told[n] = <<>> /\ n \notin Answering
    BY <1>1 DEF FilesOK, FdOK
  <1>5. /\ \A i \in 1 .. Len(toRun) : toRun[i].fd # n
        /\ \A i \in 1 .. Len(commits) : commits[i] # n
    BY <1>1 DEF FilesOK, Records, Committed
  <1> QED BY <1>1, <1>2, <1>3, <1>4, <1>5

LEMMA With1 ==
  ASSUME NEW f, NEW x, NEW y
  PROVE  /\ DOMAIN With(f, x, y) = DOMAIN f \cup {x}
         /\ With(f, x, y)[x] = y
         /\ \A z \in DOMAIN f \ {x} : With(f, x, y)[z] = f[z]
         /\ With(f, x, y) = [z \in DOMAIN With(f, x, y) |-> With(f, x, y)[z]]
  BY DEF With

LEMMA OpenSteps ==
  ASSUME FilesAssumption, FilesOK, Open
  PROVE  FilesOK'
  <1> DEFINE n == taken + 1
             r == Opens(n, "read", FALSE)
  <1>1. /\ taken < MaxOpens /\ taken' = n /\ side' = "guest"
        /\ owners' = With(owners, n, "read") /\ toRun' = Append(toRun, r)
        /\ UNCHANGED <<files, sending, sq, told, commits>>
    BY DEF Open
  <1>2. /\ n \in Fds /\ n \in 1 .. n /\ taken \in Nat /\ n \in 0 .. MaxOpens
        /\ n \notin Held \cup Kept \cup Opening \cup Closing \cup Answering
        /\ told[n] = <<>> /\ 1 .. taken \subseteq 1 .. n
        /\ \A i \in 1 .. Len(toRun) : toRun[i].fd # n
        /\ \A i \in 1 .. Len(commits) : commits[i] # n
    BY <1>1, FreshOf
  <1>3. r \in SysRec /\ r.op = "openat" /\ r.fd = n
    BY <1>2 DEF Opens, SysRec
  <1>4. Held' = Held \cup {n}
    BY <1>1, With1 DEF Held
  <1> HIDE DEF r
  <1>5. Opening' = Opening \cup {n} /\ Closing' = Closing
    BY <1>1, <1>3, RecordPut DEF FilesOK
  <1>6. Coming' = Coming /\ Answering' = Answering /\ Kept' = Kept
    BY <1>1 DEF Coming, Answering, Kept
  <1>7. /\ toRun \in Seq(SysRec) /\ Len(toRun) \in Nat /\ toRun' \in Seq(SysRec)
        /\ Len(toRun') = Len(toRun) + 1 /\ toRun'[Len(toRun) + 1] = r
        /\ \A i \in 1 .. Len(toRun) : toRun'[i] = toRun[i] /\ i \in 1 .. Len(toRun')
        /\ \A i \in 1 .. Len(toRun') : i \in 1 .. Len(toRun) \/ i = Len(toRun) + 1
    BY <1>1, <1>3 DEF FilesOK, Types
  <1>8. Records'
    <2>1. ASSUME NEW i \in 1 .. Len(toRun'), NEW j \in 1 .. Len(toRun'),
                 Opens1(i)', Opens1(j)', toRun'[i].fd = toRun'[j].fd
          PROVE  i = j
      BY <1>2, <1>3, <1>7, <2>1 DEF FilesOK, Records, Opens1
    <2>2. ASSUME NEW i \in 1 .. Len(toRun'), Opens1(i)', toRun'[i].fd \notin Held'
          PROVE  \E j \in 1 .. Len(toRun') : i < j /\ toRun'[j].op = "close" /\ toRun'[j].fd = toRun'[i].fd
      <3>1. i \in 1 .. Len(toRun) /\ Opens1(i) /\ toRun[i].fd \notin Held /\ toRun'[i] = toRun[i]
        BY <1>3, <1>4, <1>7, <2>2 DEF Opens1
      <3>2. PICK j \in 1 .. Len(toRun) : i < j /\ toRun[j].op = "close" /\ toRun[j].fd = toRun[i].fd
        BY <3>1 DEF FilesOK, Records
      <3> QED BY <1>7, <3>1, <3>2
    <2>3. ASSUME NEW i \in 1 .. Len(toRun') PROVE toRun'[i].fd <= taken'
      <3>1. CASE i = Len(toRun) + 1
        BY <1>1, <1>2, <1>3, <1>7, <3>1
      <3>2. CASE i \in 1 .. Len(toRun)
        <4>1. toRun[i] \in SysRec /\ toRun[i].fd <= taken /\ toRun'[i] = toRun[i]
          BY <1>7, <3>2 DEF FilesOK, Records
        <4>2. toRun[i].fd \in Nat
          BY <4>1 DEF SysRec, Fds
        <4> QED BY <1>1, <1>2, <4>1, <4>2
      <3> QED BY <1>7, <3>1, <3>2
    <2> QED BY <1>1, <2>1, <2>2, <2>3 DEF Records
  <1>9. Types'
    <2>1. Held' \subseteq 1 .. taken' /\ Kept' \subseteq 1 .. taken' /\ taken' \in 0 .. MaxOpens
      <3> HIDE DEF n
      <3> QED BY <1>1, <1>2, <1>4, <1>6 DEF FilesOK, Types
    <2> QED BY <1>1, <1>6, <1>7, <2>1 DEF FilesOK, Types
  <1>10. ASSUME NEW fd \in Fds PROVE FdOK(fd)'
    <2>1. FdOK(fd) /\ fd \in Nat
      BY DEF FilesOK, Fds
    <2>2. fd > taken' => fd > taken
      BY <1>1, <1>2, <2>1
    <2> HIDE DEF n
    <2>3. CASE fd = n
      <3>1. told'[fd] = <<>> /\ fd \notin Answering' /\ fd \notin Kept' /\ fd \notin Closing'
        BY <1>1, <1>2, <1>5, <1>6, <2>3
      <3>2. ~Heard(fd)'
        <4>1. [fd |-> fd, ok |-> TRUE] \in Coming' => fd \in Answering'
          BY DEF Answering
        <4> QED BY <3>1, <4>1 DEF Heard
      <3>3. Len(told'[fd]) = 0
        BY <3>1
      <3> QED BY <3>1, <3>2, <3>3 DEF FdOK
    <2>4. CASE fd # n
      BY <1>1, <1>4, <1>5, <1>6, <2>1, <2>2, <2>4 DEF FdOK, Heard
    <2> QED BY <2>3, <2>4
  <1>11. Committed'
    <2>1. ASSUME NEW i \in 1 .. Len(commits) PROVE commits[i] \notin Kept' \cup Opening' /\ commits[i] <= taken'
      <3>1. commits[i] \in Fds /\ commits[i] \notin Kept \cup Opening /\ commits[i] <= taken
        BY DEF FilesOK, Types, Committed
      <3>2. commits[i] <= taken'
        BY <1>1, <1>2, <3>1 DEF Fds
      <3> QED BY <1>2, <1>5, <1>6, <3>1, <3>2
    <2> QED BY <1>1, <2>1 DEF FilesOK, Committed, CommittedOnce
  <1>12. Singly'
    BY <1>1 DEF FilesOK, Singly
  <1> QED BY <1>8, <1>9, <1>10, <1>11, <1>12 DEF FilesOK

\* The whole of a write, at once: what is to open and to close is one more.
LEMMA WriteWholeSteps ==
  ASSUME FilesAssumption, FilesOK, NEW refused \in BOOLEAN, WriteWhole(refused)
  PROVE  FilesOK'
  <1> DEFINE n == taken + 1
             o == Opens(n, "write", refused)
             w == Rec("write", n)
             c == Rec("close", n)
             v == <<o, w, c>>
             L == Len(toRun)
  <1>1. /\ taken < MaxOpens /\ taken' = n /\ side' = "guest" /\ toRun' = toRun \o v
        /\ UNCHANGED <<owners, files, sending, sq, told, commits>>
    BY DEF WriteWhole
  <1>2. /\ n \in Fds /\ n \in 1 .. n /\ taken \in Nat /\ n \in 0 .. MaxOpens
        /\ n \notin Held \cup Kept \cup Opening \cup Closing \cup Answering
        /\ told[n] = <<>> /\ 1 .. taken \subseteq 1 .. n
        /\ \A i \in 1 .. Len(toRun) : toRun[i].fd # n
        /\ \A i \in 1 .. Len(commits) : commits[i] # n
    BY <1>1, FreshOf
  <1>3. /\ o \in SysRec /\ o.op = "openat" /\ o.fd = n
        /\ w \in SysRec /\ w.op = "write" /\ w.fd = n
        /\ c \in SysRec /\ c.op = "close" /\ c.fd = n
    BY <1>2 DEF Opens, Rec, SysRec
  <1>4. Held' = Held /\ Kept' = Kept /\ Coming' = Coming /\ Answering' = Answering
    BY <1>1 DEF Held, Kept, Coming, Answering
  <1> HIDE DEF o, w, c
  <1>0. v \in Seq(SysRec) /\ Len(v) = 3 /\ v[1] = o /\ v[2] = w /\ v[3] = c
    BY <1>3
  <1> HIDE DEF v
  <1>5. /\ toRun' \in Seq(SysRec) /\ L \in Nat /\ Len(toRun') = L + 3
        /\ \A i \in 1 .. L : toRun'[i] = toRun[i] /\ i \in 1 .. Len(toRun')
        /\ toRun'[L + 1] = o /\ toRun'[L + 2] = w /\ toRun'[L + 3] = c
        /\ \A i \in 1 .. Len(toRun') : i \in 1 .. L \/ i \in {L + 1, L + 2, L + 3}
    <2>1. toRun \in Seq(SysRec)
      BY DEF FilesOK, Types
    <2>2. /\ toRun \o v \in Seq(SysRec) /\ Len(toRun) \in Nat /\ Len(toRun \o v) = Len(toRun) + 3
          /\ \A i \in 1 .. Len(toRun) : (toRun \o v)[i] = toRun[i] /\ i \in 1 .. Len(toRun \o v)
          /\ (toRun \o v)[Len(toRun) + 1] = v[1]
          /\ (toRun \o v)[Len(toRun) + 2] = v[2]
          /\ (toRun \o v)[Len(toRun) + 3] = v[3]
          /\ \A i \in 1 .. Len(toRun \o v) :
               i \in 1 .. Len(toRun) \/ i \in {Len(toRun) + 1, Len(toRun) + 2, Len(toRun) + 3}
      BY <1>0, <2>1, PutThree
    <2> QED BY <1>0, <1>1, <2>2
  <1>6. Turned' = Turned \cup {o, w, c}
    <2>1. L + 1 \in 1 .. Len(toRun') /\ L + 2 \in 1 .. Len(toRun') /\ L + 3 \in 1 .. Len(toRun')
      BY <1>5
    <2> HIDE DEF L
    <2>2. \A i \in 1 .. Len(toRun) : i \in 1 .. L
      BY DEF L
    <2>3. \A i \in 1 .. L : i \in 1 .. Len(toRun)
      BY DEF L
    <2> QED BY <1>5, <2>1, <2>2, <2>3 DEF Turned
  <1>7. Opening' = Opening \cup {n} /\ Closing' = Closing \cup {n}
    BY <1>3, <1>6 DEF Opening, Closing, Of
  <1>8. Records'
    <2>1. ASSUME NEW i \in 1 .. Len(toRun'), NEW j \in 1 .. Len(toRun'),
                 Opens1(i)', Opens1(j)', toRun'[i].fd = toRun'[j].fd
          PROVE  i = j
      <3>1. (i \in 1 .. L \/ i = L + 1) /\ (j \in 1 .. L \/ j = L + 1)
        BY <1>3, <1>5, <2>1 DEF Opens1
      <3>2. toRun'[L + 1].fd = n /\ \A k \in 1 .. L : toRun'[k] = toRun[k] /\ toRun[k].fd # n
        BY <1>2, <1>3, <1>5
      <3>3. CASE i \in 1 .. L /\ j \in 1 .. L
        <4>1. Opens1(i) /\ Opens1(j) /\ toRun[i].fd = toRun[j].fd
          BY <2>1, <3>2, <3>3 DEF Opens1
        <4> QED BY <3>3, <4>1 DEF FilesOK, Records
      <3>4. CASE i \in 1 .. L /\ j = L + 1
        <4>1. toRun[i].fd = n
          BY <2>1, <3>2, <3>4
        <4> QED BY <3>2, <3>4, <4>1
      <3>5. CASE i = L + 1 /\ j \in 1 .. L
        <4>1. toRun[j].fd = n
          BY <2>1, <3>2, <3>5
        <4> QED BY <3>2, <3>5, <4>1
      <3> QED BY <3>1, <3>3, <3>4, <3>5
    <2>2. ASSUME NEW i \in 1 .. Len(toRun'), Opens1(i)', toRun'[i].fd \notin Held'
          PROVE  \E j \in 1 .. Len(toRun') : i < j /\ toRun'[j].op = "close" /\ toRun'[j].fd = toRun'[i].fd
      <3>1. i \in 1 .. L \/ i = L + 1
        BY <1>3, <1>5, <2>2 DEF Opens1
      <3>2. CASE i = L + 1
        <4>1. L + 3 \in 1 .. Len(toRun') /\ i < L + 3
          BY <1>5, <3>2
        <4> QED BY <1>3, <1>5, <3>2, <4>1
      <3>3. CASE i \in 1 .. L
        <4>1. Opens1(i) /\ toRun[i].fd \notin Held /\ toRun'[i] = toRun[i]
          BY <1>4, <1>5, <2>2, <3>3 DEF Opens1
        <4>2. PICK j \in 1 .. Len(toRun) : i < j /\ toRun[j].op = "close" /\ toRun[j].fd = toRun[i].fd
          BY <3>3, <4>1 DEF FilesOK, Records
        <4> QED BY <1>5, <4>1, <4>2
      <3> QED BY <3>1, <3>2, <3>3
    <2>3. ASSUME NEW i \in 1 .. Len(toRun') PROVE toRun'[i].fd <= taken'
      <3>1. CASE i \in {L + 1, L + 2, L + 3}
        <4>1. toRun'[i].fd = n
          BY <1>3, <1>5, <3>1
        <4> QED BY <1>1, <1>2, <4>1
      <3>2. CASE i \in 1 .. L
        <4>1. toRun[i] \in SysRec /\ toRun[i].fd <= taken /\ toRun'[i] = toRun[i]
          BY <1>5, <3>2 DEF FilesOK, Records, Types
        <4>2. toRun[i].fd \in Nat
          BY <4>1 DEF SysRec, Fds
        <4> QED BY <1>1, <1>2, <4>1, <4>2
      <3> QED BY <1>5, <3>1, <3>2
    <2> QED BY <1>1, <2>1, <2>2, <2>3 DEF Records
  <1>9. Types'
    <2>1. Held' \subseteq 1 .. taken' /\ Kept' \subseteq 1 .. taken' /\ taken' \in 0 .. MaxOpens
      <3> HIDE DEF n
      <3> QED BY <1>1, <1>2, <1>4 DEF FilesOK, Types
    <2> QED BY <1>1, <1>4, <1>5, <2>1 DEF FilesOK, Types
  <1>10. ASSUME NEW fd \in Fds PROVE FdOK(fd)'
    <2>1. FdOK(fd) /\ fd \in Nat
      BY DEF FilesOK, Fds
    <2>2. fd > taken' => fd > taken
      BY <1>1, <1>2, <2>1
    <2> HIDE DEF n
    <2>3. CASE fd = n
      <3>1. told'[fd] = <<>> /\ fd \notin Answering' /\ fd \notin Kept' /\ fd \notin Held'
        BY <1>1, <1>2, <1>4, <2>3
      <3>2. Len(told'[fd]) = 0
        BY <3>1
      <3> QED BY <3>1, <3>2 DEF FdOK
    <2>4. CASE fd # n
      BY <1>1, <1>4, <1>7, <2>1, <2>2, <2>4 DEF FdOK, Heard
    <2> QED BY <2>3, <2>4
  <1>11. Committed'
    <2>1. ASSUME NEW i \in 1 .. Len(commits) PROVE commits[i] \notin Kept' \cup Opening' /\ commits[i] <= taken'
      <3>1. commits[i] \in Fds /\ commits[i] \notin Kept \cup Opening /\ commits[i] <= taken
        BY DEF FilesOK, Types, Committed
      <3>2. commits[i] <= taken'
        BY <1>1, <1>2, <3>1 DEF Fds
      <3> QED BY <1>2, <1>4, <1>7, <3>1, <3>2
    <2> QED BY <1>1, <2>1 DEF FilesOK, Committed, CommittedOnce
  <1>12. Singly'
    BY <1>1 DEF FilesOK, Singly
  <1> QED BY <1>8, <1>9, <1>10, <1>11, <1>12 DEF FilesOK

\* The records once the first is run: those left are in order, and an open
\* that was the first is of none of them, with its close still to come.
LEMMA RecordsTail ==
  ASSUME FilesOK, toRun # <<>>, toRun' = Tail(toRun), side' # "host",
         UNCHANGED <<taken, owners>>, NEW r, r = Head(toRun)
  PROVE  /\ Records' /\ toRun' \in Seq(SysRec)
         /\ r \in SysRec /\ r.fd <= taken
         /\ r.op = "openat" => r.fd \notin Opening' /\ (r.fd \notin Held => r.fd \in Closing')
  <1>1. /\ toRun \in Seq(SysRec) /\ Len(toRun) \in Nat /\ toRun' \in Seq(SysRec)
        /\ Len(toRun') = Len(toRun) - 1 /\ 1 \in 1 .. Len(toRun)
        /\ \A i \in 1 .. Len(toRun') : toRun'[i] = toRun[i + 1] /\ i + 1 \in 1 .. Len(toRun)
        /\ r = toRun[1]
    BY DEF FilesOK, Types
  <1>2. Held' = Held
    BY DEF Held
  <1>3. ASSUME NEW i \in 1 .. Len(toRun), i # 1
        PROVE  i - 1 \in 1 .. Len(toRun') /\ toRun'[i - 1] = toRun[i]
    <2>1. i - 1 \in 1 .. Len(toRun') /\ (i - 1) + 1 = i
      BY <1>1, <1>3
    <2> QED BY <1>1, <2>1
  <1>4. r \in SysRec /\ r.fd <= taken
    BY <1>1 DEF FilesOK, Records
  <1>5. ASSUME NEW i \in 1 .. Len(toRun'), NEW j \in 1 .. Len(toRun'),
               Opens1(i)', Opens1(j)', toRun'[i].fd = toRun'[j].fd
        PROVE  i = j
    <2>1. i + 1 = j + 1
      BY <1>1, <1>5 DEF FilesOK, Records, Opens1
    <2> QED BY <2>1
  <1>6. ASSUME NEW i \in 1 .. Len(toRun'), Opens1(i)', toRun'[i].fd \notin Held'
        PROVE  \E j \in 1 .. Len(toRun') : i < j /\ toRun'[j].op = "close" /\ toRun'[j].fd = toRun'[i].fd
    <2>1. i + 1 \in 1 .. Len(toRun) /\ Opens1(i + 1) /\ toRun[i + 1].fd \notin Held /\ toRun'[i] = toRun[i + 1]
      BY <1>1, <1>2, <1>6 DEF Opens1
    <2>2. PICK j \in 1 .. Len(toRun) : i + 1 < j /\ toRun[j].op = "close" /\ toRun[j].fd = toRun[i + 1].fd
      BY <2>1 DEF FilesOK, Records
    <2>3. j # 1 /\ i < j - 1
      BY <2>2
    <2>4. j - 1 \in 1 .. Len(toRun') /\ toRun'[j - 1] = toRun[j]
      BY <1>3, <2>3
    <2> QED BY <2>1, <2>2, <2>3, <2>4
  <1>7. ASSUME NEW i \in 1 .. Len(toRun') PROVE toRun'[i].fd <= taken'
    BY <1>1 DEF FilesOK, Records
  <1>8. Records'
    BY <1>5, <1>6, <1>7 DEF Records
  <1>9. ASSUME r.op = "openat", r.fd \in Opening' PROVE FALSE
    <2>1. PICK i \in 1 .. Len(toRun') : toRun'[i].op = "openat" /\ toRun'[i].fd = r.fd
      BY <1>9 DEF Opening, Of, Turned
    <2>2. i + 1 \in 1 .. Len(toRun) /\ Opens1(i + 1) /\ Opens1(1) /\ toRun[i + 1].fd = toRun[1].fd
      BY <1>1, <1>9, <2>1 DEF Opens1
    <2>3. i + 1 = 1
      BY <1>1, <2>2 DEF FilesOK, Records
    <2> QED BY <2>3
  <1>10. ASSUME r.op = "openat", r.fd \notin Held PROVE r.fd \in Closing'
    <2>1. PICK j \in 1 .. Len(toRun) : 1 < j /\ toRun[j].op = "close" /\ toRun[j].fd = r.fd
      BY <1>1, <1>10 DEF FilesOK, Records, Opens1
    <2>2. j - 1 \in 1 .. Len(toRun') /\ toRun'[j - 1] = toRun[j]
      BY <1>3, <2>1
    <2>3. toRun'[j - 1] \in Turned'
      BY <2>2 DEF Turned
    <2> QED BY <2>1, <2>2, <2>3 DEF Closing, Of
  <1> QED BY <1>1, <1>4, <1>8, <1>9, <1>10

\* What a record that is run leaves alone.
RunsOne ==
  /\ toRun # <<>> /\ toRun' = Tail(toRun) /\ side' = "run"
  /\ UNCHANGED <<owners, taken, sending, sq, told>>

LEMMA RunsOneKeeps ==
  ASSUME FilesOK, RunsOne
  PROVE  /\ Held' = Held /\ Coming' = Coming /\ Answering' = Answering /\ Singly'
         /\ \A fd \in Fds : Heard(fd)' <=> Heard(fd)
  BY DEF RunsOne, FilesOK, Singly, Held, Coming, Answering, Heard

LEMMA RunOpenatSteps ==
  ASSUME FilesOK, RunsOne, NEW r, r = Head(toRun), r.op = "openat", RunOpenat(r)
  PROVE  FilesOK'
  <1>1. /\ Records' /\ toRun' \in Seq(SysRec)
        /\ r \in SysRec /\ r.fd <= taken /\ r.fd \notin Opening'
        /\ r.fd \notin Held => r.fd \in Closing'
    BY RecordsTail DEF RunsOne
  <1>2. /\ Held' = Held /\ Coming' = Coming /\ Answering' = Answering /\ Singly'
        /\ \A fd \in Fds : Heard(fd)' <=> Heard(fd)
    BY RunsOneKeeps
  <1>3. Opening = Opening' \cup {r.fd} /\ Closing = Closing'
    BY RecordTaken DEF FilesOK, RunsOne
  <1> DEFINE v == [for |-> IF r.refused THEN "read" ELSE r.for,
                   ready |-> r.for = "write" /\ ~ r.refused,
                   refused |-> r.refused, written |-> 0]
  <1>4. v \in File
    BY <1>1 DEF SysRec, File
  <1>5. files' = With(files, r.fd, v) /\ UNCHANGED <<commits, threw>>
    BY DEF RunOpenat
  <1> HIDE DEF v
  <1>6. /\ Kept' = Kept \cup {r.fd} /\ files'[r.fd] = v
        /\ \A fd \in Kept \ {r.fd} : files'[fd] = files[fd]
        /\ files' = [fd \in Kept' |-> files'[fd]]
    BY <1>5 DEF Kept, With
  <1>7. r.fd \in Fds /\ r.fd \in 1 .. taken
    <2>1. taken \in Nat /\ r.fd \in Fds
      BY <1>1 DEF FilesOK, Types, SysRec
    <2> QED BY <1>1, <2>1 DEF Fds
  <1>8. Types'
    <2>1. \A fd \in Kept' : files'[fd] \in File
      BY <1>4, <1>6 DEF FilesOK, Types
    <2>2. Kept' \subseteq 1 .. taken
      BY <1>6, <1>7 DEF FilesOK, Types
    <2> QED BY <1>1, <1>2, <1>5, <1>6, <2>1, <2>2 DEF FilesOK, Types, RunsOne
  <1>9. ASSUME NEW fd \in Fds PROVE FdOK(fd)'
    <2>1. FdOK(fd)
      BY DEF FilesOK
    <2>2. CASE fd = r.fd
      <3>1. fd \notin Answering /\ told[fd] = <<>> /\ fd \in Opening
        BY <1>3, <2>1, <2>2 DEF FdOK
      <3>2. fd \in Kept' /\ fd \notin Opening' /\ Answering' = Answering /\ told'[fd] = <<>>
            /\ Held' = Held /\ Closing' = Closing /\ (fd \in Kept' \ Held' => fd \in Closing')
        BY <1>1, <1>2, <1>3, <1>6, <2>2, <3>1 DEF RunsOne
      <3>3. Len(told'[fd]) = 0
        BY <3>2
      <3>4. ~ (fd > taken')
        BY <1>7, <2>2 DEF RunsOne, FilesOK, Types
      <3> QED BY <2>1, <3>1, <3>2, <3>3, <3>4 DEF FdOK
    <2>3. CASE fd # r.fd
      BY <1>2, <1>3, <1>6, <2>1, <2>3 DEF FdOK, RunsOne
    <2> QED BY <2>2, <2>3
  <1>10. Committed'
    <2>1. commits' = commits /\ taken' = taken
      BY <1>5 DEF RunsOne
    <2>2. Kept' \cup Opening' = Kept \cup Opening
      BY <1>3, <1>6
    <2> QED BY <2>1, <2>2 DEF FilesOK, Committed, CommittedOnce
  <1> QED BY <1>1, <1>2, <1>8, <1>9, <1>10 DEF FilesOK

LEMMA RunCloseSteps ==
  ASSUME FilesOK, RunsOne, NEW r, r = Head(toRun), r.op = "close", RunClose(r.fd)
  PROVE  FilesOK'
  <1>1. /\ Records' /\ toRun' \in Seq(SysRec) /\ r \in SysRec /\ r.fd <= taken
    BY RecordsTail DEF RunsOne
  <1>2. /\ Held' = Held /\ Coming' = Coming /\ Answering' = Answering /\ Singly'
        /\ \A fd \in Fds : Heard(fd)' <=> Heard(fd)
    BY RunsOneKeeps
  <1>3. Opening = Opening' /\ Closing = Closing' \cup {r.fd}
    BY RecordTaken DEF FilesOK, RunsOne
  <1>4. files' = Forgetting(files, r.fd)
    BY DEF RunClose
  <1>5. /\ Kept' = Kept \ {r.fd}
        /\ \A fd \in Kept \ {r.fd} : files'[fd] = files[fd]
        /\ files' = [fd \in Kept' |-> files'[fd]]
    BY <1>4 DEF Kept, Forgetting
  <1>6. r.fd \in Fds
    BY <1>1 DEF SysRec
  <1>7. /\ commits \in Seq(Fds) /\ commits' \in Seq(Fds)
        /\ commits' = commits \/ (commits' = Append(commits, r.fd) /\ r.fd \in Kept)
    <2>1. commits \in Seq(Fds)
      BY DEF FilesOK, Types
    <2>2. commits' = commits \/ (commits' = Append(commits, r.fd) /\ r.fd \in Kept)
      BY DEF RunClose, Kept
    <2> QED BY <1>6, <2>1, <2>2
  <1>8. Types'
    BY <1>1, <1>2, <1>5, <1>7 DEF FilesOK, Types, RunsOne
  <1>9. ASSUME NEW fd \in Fds PROVE FdOK(fd)'
    <2>1. FdOK(fd)
      BY DEF FilesOK
    <2>2. CASE fd = r.fd
      <3>1. fd \notin Held /\ fd \notin Kept' /\ told' = told /\ taken' = taken
        BY <1>3, <1>5, <2>1, <2>2 DEF FdOK, RunsOne
      <3> QED BY <1>2, <1>3, <2>1, <3>1 DEF FdOK
    <2>3. CASE fd # r.fd
      BY <1>2, <1>3, <1>5, <2>1, <2>3 DEF FdOK, RunsOne
    <2> QED BY <2>2, <2>3
  <1>10. Committed'
    <2>1. CASE commits' = commits
      BY <1>3, <1>5, <2>1 DEF FilesOK, Committed, CommittedOnce, RunsOne
    <2>2. CASE commits' = Append(commits, r.fd) /\ r.fd \in Kept
      <3>1. /\ Len(commits) \in Nat /\ Len(commits') = Len(commits) + 1
            /\ \A i \in 1 .. Len(commits) : commits'[i] = commits[i]
            /\ commits'[Len(commits) + 1] = r.fd
            /\ DOMAIN commits' = 1 .. Len(commits) + 1
            /\ DOMAIN commits = 1 .. Len(commits)
        BY <1>7, <2>2
      <3>2. \A i \in 1 .. Len(commits) : commits[i] # r.fd
        BY <2>2 DEF FilesOK, Committed
      <3>3. ASSUME NEW i \in DOMAIN commits', NEW j \in DOMAIN commits', commits'[i] = commits'[j]
            PROVE  i = j
        <4>1. (i \in 1 .. Len(commits) \/ i = Len(commits) + 1) /\ (j \in 1 .. Len(commits) \/ j = Len(commits) + 1)
          BY <3>1, <3>3
        <4> QED BY <3>1, <3>2, <3>3, <4>1 DEF FilesOK, Committed, CommittedOnce
      <3>4. r.fd \notin Kept' \cup Opening' /\ taken' = taken
        <4>1. FdOK(r.fd)
          BY <1>6 DEF FilesOK
        <4> QED BY <1>3, <1>5, <2>2, <4>1 DEF FdOK, RunsOne
      <3>5. ASSUME NEW i \in 1 .. Len(commits')
            PROVE  commits'[i] \notin Kept' \cup Opening' /\ commits'[i] <= taken'
        <4>1. i \in 1 .. Len(commits) \/ i = Len(commits) + 1
          BY <3>1
        <4>2. CASE i = Len(commits) + 1
          BY <1>1, <3>1, <3>4, <4>2
        <4>3. CASE i \in 1 .. Len(commits)
          BY <1>3, <1>5, <3>1, <3>4, <4>3 DEF FilesOK, Committed
        <4> QED BY <4>1, <4>2, <4>3
      <3> QED BY <3>3, <3>5 DEF Committed, CommittedOnce
    <2> QED BY <1>7, <2>1, <2>2
  <1> QED BY <1>1, <1>2, <1>8, <1>9, <1>10 DEF FilesOK

LEMMA RunMoveSteps ==
  ASSUME FilesOK, RunsOne, NEW r, r = Head(toRun), r.op # "openat", r.op # "close", NEW s, RunMove(s)
  PROVE  FilesOK'
  <1>1. /\ Records' /\ toRun' \in Seq(SysRec)
    BY RecordsTail DEF RunsOne
  <1>2. /\ Held' = Held /\ Coming' = Coming /\ Answering' = Answering /\ Singly'
        /\ \A fd \in Fds : Heard(fd)' <=> Heard(fd)
    BY RunsOneKeeps
  <1>3. Opening' = Opening /\ Closing' = Closing
    BY RecordTaken DEF FilesOK, RunsOne
  <1>4. /\ Kept' = Kept /\ commits' = commits
        /\ files' = [fd \in Kept' |-> files'[fd]]
        /\ \A fd \in Kept : files'[fd] \in File /\ files'[fd].ready = files[fd].ready
    <2>0. files = [fd \in Kept |-> files[fd]] /\ \A fd \in Kept : files[fd] \in File
      BY DEF FilesOK, Types
    <2>1. CASE files' = files
      BY <2>0, <2>1 DEF RunMove, Kept
    <2>2. CASE files' = [files EXCEPT ![s.fd].written = files[s.fd].written + 1]
      <3>1. Kept' = Kept /\ files' = [fd \in Kept' |-> files'[fd]] /\ commits' = commits
        BY <2>0, <2>2 DEF RunMove, Kept
      <3>2. ASSUME NEW fd \in Kept PROVE files'[fd] \in File /\ files'[fd].ready = files[fd].ready
        <4>1. CASE fd # s.fd
          BY <2>0, <2>2, <4>1 DEF Kept
        <4>2. CASE fd = s.fd
          <5>1. files'[fd] = [files[fd] EXCEPT !.written = files[fd].written + 1]
            BY <2>0, <2>2, <4>2 DEF Kept
          <5>2. files[fd] \in File
            BY <2>0
          <5> QED BY <5>1, <5>2 DEF File
        <4> QED BY <4>1, <4>2
      <3> QED BY <3>1, <3>2
    <2>3. files' = files \/ files' = [files EXCEPT ![s.fd].written = files[s.fd].written + 1]
      BY DEF RunMove
    <2> QED BY <2>1, <2>2, <2>3
  <1>5. Types'
    BY <1>1, <1>2, <1>4 DEF FilesOK, Types, RunsOne
  <1>6. ASSUME NEW fd \in Fds PROVE FdOK(fd)'
    <2>1. FdOK(fd)
      BY DEF FilesOK
    <2> QED BY <1>2, <1>3, <1>4, <2>1 DEF FdOK, RunsOne
  <1>7. Committed'
    BY <1>3, <1>4 DEF FilesOK, Committed, CommittedOnce, RunsOne
  <1> QED BY <1>1, <1>2, <1>5, <1>6, <1>7 DEF FilesOK

LEMMA RunSteps ==
  ASSUME FilesOK, RunRecord
  PROVE  FilesOK'
  <1> DEFINE r == Head(toRun)
  <1>1. RunsOne
    BY DEF RunRecord, RunsOne
  <1>2. CASE r.op = "openat"
    <2>1. RunOpenat(r)
      BY <1>2 DEF RunRecord
    <2> QED BY <1>1, <1>2, <2>1, RunOpenatSteps
  <1>3. CASE r.op = "close"
    <2>1. RunClose(r.fd)
      BY <1>3 DEF RunRecord
    <2> QED BY <1>1, <1>3, <2>1, RunCloseSteps
  <1>4. CASE r.op # "openat" /\ r.op # "close"
    <2>1. RunMove([r EXCEPT !.for = r.op])
      BY <1>4 DEF RunRecord
    <2> QED BY <1>1, <1>4, <2>1, RunMoveSteps
  <1> QED BY <1>2, <1>3, <1>4

\* The answers on their way when one is sent: its descriptor's, once.
LEMMA SettleSteps ==
  ASSUME FilesOK, NEW fd \in Fds, NEW ok \in BOOLEAN, Settle(fd, ok)
  PROVE  FilesOK'
  <1> DEFINE a == [fd |-> fd, ok |-> ok]
  <1>1. /\ side = "host" /\ side' = "host" /\ sending = Nothing /\ sending' = a
        /\ UNCHANGED <<owners, taken, toRun, sq, told, commits>>
        /\ files' = IF ok THEN [files EXCEPT ![fd].ready = TRUE] ELSE Forgetting(files, fd)
        /\ fd \in Kept /\ ~ files[fd].ready
    BY DEF Settle, MayAnswer, Awaits, Kept
  <1>2. a \in Answer /\ a # Nothing /\ a.fd = fd
    BY DEF Answer, Nothing, Fds
  <1>3. toRun = <<>> /\ Opening = {} /\ Closing = {} /\ Opening' = {} /\ Closing' = {}
    <2>1. toRun = <<>> /\ toRun' = <<>>
      BY <1>1 DEF FilesOK, Records
    <2>2. Turned = {} /\ Turned' = {}
      BY <2>1 DEF Turned
    <2> QED BY <2>1, <2>2 DEF Opening, Closing, Of
  <1>4. Held' = Held /\ Records'
    BY <1>1, <1>3 DEF FilesOK, Records, Opens1, Held
  <1> HIDE DEF a
  <1>5. Coming' = Coming \cup {a} /\ Answering' = Answering \cup {fd}
    <2>1. Coming' = Coming \cup {a}
      BY <1>1, <1>2 DEF Coming
    <2> QED BY <1>2, <2>1 DEF Answering
  <1>6. FdOK(fd) /\ fd \notin Answering /\ told[fd] = <<>> /\ fd \in Held /\ ~ (fd > taken)
    <2>1. FdOK(fd)
      BY DEF FilesOK
    <2>2. fd \in 1 .. taken /\ taken \in Nat
      BY <1>1 DEF FilesOK, Types
    <2> QED BY <1>1, <1>3, <2>1, <2>2 DEF FdOK
  <1>7. /\ Kept' = IF ok THEN Kept ELSE Kept \ {fd}
        /\ \A g \in Kept' \ {fd} : files'[g] = files[g]
        /\ ok => files'[fd] = [files[fd] EXCEPT !.ready = TRUE]
        /\ files' = [g \in Kept' |-> files'[g]]
    <2>0. files = [g \in Kept |-> files[g]]
      BY DEF FilesOK, Types
    <2>1. CASE ok
      BY <1>1, <2>0, <2>1 DEF Kept
    <2>2. CASE ~ok
      BY <1>1, <2>0, <2>2 DEF Kept, Forgetting
    <2> QED BY <2>1, <2>2
  <1>8. Types'
    <2>1. \A g \in Kept' : files'[g] \in File
      <3>1. \A g \in Kept : files[g] \in File
        BY DEF FilesOK, Types
      <3>2. ok => files'[fd] \in File
        BY <1>1, <1>7, <3>1 DEF File
      <3>3. ~ok => fd \notin Kept'
        BY <1>7
      <3>4. Kept' \subseteq Kept
        BY <1>7
      <3> QED BY <1>7, <3>1, <3>2, <3>3, <3>4
    <2> QED BY <1>1, <1>2, <1>4, <1>7, <2>1 DEF FilesOK, Types
  <1>9. Singly'
    <2>1. \A i \in 1 .. Len(sq) : sq[i].fd # fd
      BY <1>6 DEF Answering, Coming
    <2> QED BY <1>1, <1>2, <2>1 DEF FilesOK, Singly
  <1>10. ASSUME NEW g \in Fds PROVE FdOK(g)'
    <2>1. FdOK(g)
      BY DEF FilesOK
    <2>2. CASE g = fd
      <3>1. ok => g \in Kept' /\ files'[g].ready
        <4>1. files[fd] \in File
          BY <1>1 DEF FilesOK, Types
        <4> QED BY <1>1, <1>7, <2>2, <4>1 DEF File
      <3>2. ~ok => ~Heard(g)' /\ g \notin Kept'
        <4>1. ~ok => [fd |-> g, ok |-> TRUE] # a
          BY DEF a
        <4>2. [fd |-> g, ok |-> TRUE] \notin Coming
          BY <1>6, <2>2 DEF Answering
        <4>3. told'[g] # <<TRUE>>
          <5>1. told'[g] = <<>>
            BY <1>1, <1>6, <2>2
          <5> QED BY <5>1
        <4>4. ~ok => ~Heard(g)'
          BY <1>5, <4>1, <4>2, <4>3 DEF Heard
        <4>5. ~ok => g \notin Kept'
          BY <1>7, <2>2
        <4> QED BY <4>4, <4>5
      <3> QED BY <1>1, <1>3, <1>4, <1>5, <1>6, <2>1, <2>2, <3>1, <3>2 DEF FdOK
    <2>3. CASE g # fd
      <3>1. g \in Answering' <=> g \in Answering
        BY <1>5, <2>3
      <3>2. Heard(g)' <=> Heard(g)
        <4>1. [fd |-> g, ok |-> TRUE] # a
          BY <1>2, <2>3
        <4> QED BY <1>1, <1>5, <4>1 DEF Heard
      <3>3. g \in Kept' <=> g \in Kept
        BY <1>7, <2>3
      <3> QED BY <1>1, <1>3, <1>4, <1>7, <2>1, <2>3, <3>1, <3>2, <3>3 DEF FdOK
    <2> QED BY <2>2, <2>3
  <1>11. Committed'
    BY <1>1, <1>3, <1>7 DEF FilesOK, Committed, CommittedOnce
  <1> QED BY <1>4, <1>8, <1>9, <1>10, <1>11 DEF FilesOK

LEMMA SendAnswerSteps ==
  ASSUME FilesOK, SendAnswer
  PROVE  FilesOK'
  <1>1. /\ sending # Nothing /\ sending' = Nothing /\ sq' = Append(sq, sending)
        /\ UNCHANGED <<owners, taken, toRun, files, told, commits, side>>
    BY DEF SendAnswer
  <1>2. sq \in Seq(Answer) /\ sending \in Answer /\ sq' \in Seq(Answer)
    BY <1>1 DEF FilesOK, Types
  <1>3. Coming' = Coming /\ Answering' = Answering
    <2>1. {sq'[i] : i \in 1 .. Len(sq')} = {sq[i] : i \in 1 .. Len(sq)} \cup {sending}
      BY <1>1, <1>2, PutLast
    <2>2. Coming' = Coming
      BY <1>1, <2>1 DEF Coming
    <2> QED BY <2>2 DEF Answering
  <1>4. Opening' = Opening /\ Closing' = Closing /\ Held' = Held /\ Kept' = Kept
    BY <1>1, RecordsSame DEF Held, Kept
  <1>5. Types' /\ Records'
    BY <1>1, <1>2, <1>4 DEF FilesOK, Types, Records, Opens1, Nothing
  <1>6. ASSUME NEW fd \in Fds PROVE FdOK(fd)'
    <2>1. FdOK(fd)
      BY DEF FilesOK
    <2> QED BY <1>1, <1>3, <1>4, <2>1 DEF FdOK, Heard
  <1>7. Committed'
    BY <1>1, <1>4 DEF FilesOK, Committed, CommittedOnce
  <1>8. Singly'
    <2>1. /\ Len(sq) \in Nat /\ Len(sq') = Len(sq) + 1 /\ sq'[Len(sq) + 1] = sending
          /\ \A i \in 1 .. Len(sq) : sq'[i] = sq[i] /\ sq[i] \in Answer
      BY <1>1, <1>2
    <2>2. \A i \in 1 .. Len(sq) : sq[i].fd # sending.fd
      BY DEF FilesOK, Singly
    <2>3. \A i \in 1 .. Len(sq') : i \in 1 .. Len(sq) \/ i = Len(sq) + 1
      BY <2>1
    <2>4. \A a \in Answer : a.fd \in Fds
      BY DEF Answer
    <2>5. \A i \in 1 .. Len(sq') : sq'[i] \in Answer
      BY <1>2, <2>1, <2>3
    <2>6. Nothing.fd \notin Fds
      BY DEF Nothing, Fds
    <2> QED BY <1>1, <2>1, <2>2, <2>3, <2>4, <2>5, <2>6 DEF FilesOK, Singly
  <1> QED BY <1>5, <1>6, <1>7, <1>8 DEF FilesOK

LEMMA FilesSteps ==
  ASSUME FilesAssumption, FilesOK, [FilesNext]_filesVars
  PROVE  FilesOK'
  <1>1. CASE Open
    BY <1>1, OpenSteps
  <1>2. ASSUME NEW fd \in Fds, ReadFile(fd) PROVE FilesOK'
    BY <1>2, ReadFileSteps
  <1>3. ASSUME NEW fd \in Fds, CloseFile(fd) PROVE FilesOK'
    BY <1>3, CloseFileSteps
  <1>4. ASSUME NEW refused \in BOOLEAN, WriteWhole(refused) PROVE FilesOK'
    BY <1>4, WriteWholeSteps
  <1>5. CASE Opened
    BY <1>5, OpenedSteps
  <1>6. CASE RunRecord
    BY <1>6, RunSteps
  <1>7. ASSUME NEW fd \in Fds, NEW ok \in BOOLEAN, Settle(fd, ok) PROVE FilesOK'
    BY <1>7, SettleSteps
  <1>8. CASE SendAnswer
    BY <1>8, SendAnswerSteps
  <1>9. CASE FilesRise \/ FilesFall \/ RingForRoom
    BY <1>9, SideSteps DEF FilesRise, FilesFall, RingForRoom
  <1>10. CASE EndRun
    BY <1>10, SideSteps DEF EndRun
  <1>11. CASE UNCHANGED filesVars
    <2>1. side \in {"host", "guest", "run"} /\ (side = "host" => toRun = <<>>)
      BY DEF FilesOK, Types, Records
    <2> QED BY <1>11, <2>1, SideSteps DEF filesVars
  <1> QED BY <1>1, <1>2, <1>3, <1>4, <1>5, <1>6, <1>7, <1>8, <1>9, <1>10, <1>11 DEF FilesNext

LEMMA AlwaysOK ==
  ASSUME FilesAssumption
  PROVE  FilesSpec => []FilesOK
  <1>1. FilesInit => FilesOK
    BY InitFiles
  <1>2. FilesOK /\ [FilesNext]_filesVars => FilesOK'
    BY FilesSteps
  <1> QED BY <1>1, <1>2, PTL DEF FilesSpec
-----------------------------------------------------------------------------
(***************************************************************************)
(* No record throws, where a write is never of what the host refuses.      *)
(* `Moves`: a read's file is open for reading, and is not closed before    *)
(* it; a write is next after its own open.  `HeldReads`: what the guest    *)
(* holds was opened for reading.                                           *)
(***************************************************************************)
Open1(fd, for) == fd \in Kept /\ files[fd].ready /\ files[fd].for = for

MoveOK(i) ==
  /\ toRun[i].op = "read" =>
       /\ Open1(toRun[i].fd, "read")
       /\ \A j \in 1 .. i - 1 : toRun[j].op = "close" => toRun[j].fd # toRun[i].fd
  /\ toRun[i].op = "write" =>
       IF i = 1 THEN Open1(toRun[i].fd, "write") ELSE toRun[i - 1] = Opens(toRun[i].fd, "write", FALSE)

Moves == \A i \in 1 .. Len(toRun) : MoveOK(i)

HeldReads ==
  /\ \A i \in 1 .. Len(toRun) : Opens1(i) /\ toRun[i].fd \in Held => toRun[i].for = "read"
  /\ \A fd \in Held \cap Kept : files[fd].for = "read"

NoneThrows == Moves /\ HeldReads /\ ~ threw /\ Len(sq) <= RingRoom

\* One record more, that is not a write.
LEMMA MovePut ==
  ASSUME FilesOK, Moves, NEW r \in SysRec, toRun' = Append(toRun, r), UNCHANGED files,
         r.op # "write", r.op = "read" => Open1(r.fd, "read") /\ r.fd \notin Closing
  PROVE  Moves'
  <1>1. /\ toRun \in Seq(SysRec) /\ Len(toRun) \in Nat
        /\ Len(toRun') = Len(toRun) + 1 /\ toRun'[Len(toRun) + 1] = r
        /\ \A i \in 1 .. Len(toRun) : toRun'[i] = toRun[i]
    BY DEF FilesOK, Types
  <1>2. \A fd, for : Open1(fd, for)' <=> Open1(fd, for)
    BY DEF Open1, Kept
  <1>3. ASSUME NEW i \in 1 .. Len(toRun') PROVE MoveOK(i)'
    <2>1. CASE i \in 1 .. Len(toRun)
      <3>1. MoveOK(i) /\ toRun'[i] = toRun[i]
        BY <1>1, <2>1 DEF Moves
      <3>2. \A j \in 1 .. i - 1 : toRun'[j] = toRun[j]
        BY <1>1, <2>1
      <3>3. i # 1 => i - 1 \in 1 .. i - 1
        BY <1>1, <2>1
      <3> QED BY <1>2, <3>1, <3>2, <3>3 DEF MoveOK
    <2>2. CASE i = Len(toRun) + 1
      <3>1. toRun'[i] = r
        BY <1>1, <2>2
      <3>2. ASSUME r.op = "read", NEW j \in 1 .. i - 1, toRun'[j].op = "close" PROVE toRun'[j].fd # r.fd
        <4>1. j \in 1 .. Len(toRun) /\ toRun[j] = toRun'[j]
          BY <1>1, <2>2
        <4>2. toRun[j].fd \in Closing
          BY <3>2, <4>1 DEF Closing, Of, Turned
        <4> QED BY <3>2, <4>1, <4>2
      <3> QED BY <1>2, <3>1, <3>2 DEF MoveOK
    <2> QED BY <1>1, <2>1, <2>2
  <1> QED BY <1>3 DEF Moves

LEMMA HeldPut ==
  ASSUME FilesOK, HeldReads, NEW r \in SysRec, toRun' = Append(toRun, r), UNCHANGED files,
         r.op = "openat" => r.for = "read",
         \A fd \in Held' \ Held : fd \notin Opening \cup Kept
  PROVE  HeldReads'
  <1>1. /\ toRun \in Seq(SysRec) /\ Len(toRun) \in Nat
        /\ Len(toRun') = Len(toRun) + 1 /\ toRun'[Len(toRun) + 1] = r
        /\ \A i \in 1 .. Len(toRun) : toRun'[i] = toRun[i]
    BY DEF FilesOK, Types
  <1>2. ASSUME NEW i \in 1 .. Len(toRun'), Opens1(i)', toRun'[i].fd \in Held'
        PROVE  toRun'[i].for = "read"
    <2>1. CASE i \in 1 .. Len(toRun)
      <3>1. toRun'[i] = toRun[i] /\ Opens1(i) /\ toRun[i].fd \in Opening
        BY <1>1, <1>2, <2>1 DEF Opens1, Opening, Of, Turned
      <3> QED BY <1>2, <2>1, <3>1 DEF HeldReads
    <2>2. CASE i = Len(toRun) + 1
      BY <1>1, <1>2, <2>2 DEF Opens1
    <2> QED BY <1>1, <2>1, <2>2
  <1>3. \A fd \in Held' \cap Kept' : files'[fd].for = "read"
    BY DEF HeldReads, Kept
  <1> QED BY <1>2, <1>3 DEF HeldReads

LEMMA ThrowsSame ==
  ASSUME NoneThrows, UNCHANGED <<toRun, files, owners, threw, sq>>
  PROVE  NoneThrows'
  BY DEF NoneThrows, Moves, MoveOK, Open1, HeldReads, Opens1, Held, Kept

LEMMA OpenThrows ==
  ASSUME FilesAssumption, FilesOK, NoneThrows, Open
  PROVE  NoneThrows'
  <1> DEFINE n == taken + 1
             r == Opens(n, "read", FALSE)
  <1>1. /\ taken < MaxOpens /\ owners' = With(owners, n, "read") /\ toRun' = Append(toRun, r)
        /\ UNCHANGED <<files, sq, threw>>
    BY DEF Open
  <1>2. n \in Fds /\ n \notin Kept \cup Opening
    BY <1>1, FreshOf
  <1>3. r \in SysRec /\ r.op = "openat" /\ r.for = "read"
    BY <1>2 DEF Opens, SysRec
  <1>4. Held' = Held \cup {n}
    BY <1>1, With1 DEF Held
  <1> HIDE DEF r, n
  <1>5. Moves'
    BY <1>1, <1>3, MovePut DEF NoneThrows
  <1>6. HeldReads'
    BY <1>1, <1>2, <1>3, <1>4, HeldPut DEF NoneThrows
  <1> QED BY <1>1, <1>5, <1>6 DEF NoneThrows

LEMMA ReadFileThrows ==
  ASSUME FilesOK, NoneThrows, NEW fd \in Fds, ReadFile(fd)
  PROVE  NoneThrows'
  <1> DEFINE r == Rec("read", fd)
  <1>1. /\ toRun' = Append(toRun, r) /\ fd \in Held /\ Held' = Held /\ told[fd] = <<TRUE>>
        /\ UNCHANGED <<files, sq, threw>>
    BY DEF ReadFile, Held
  <1>2. r \in SysRec /\ r.op = "read" /\ r.fd = fd
    BY DEF Rec, SysRec
  <1>3. Open1(fd, "read") /\ fd \notin Closing
    <2>1. FdOK(fd)
      BY DEF FilesOK
    <2>2. told[fd] # <<>>
      BY <1>1
    <2> QED BY <1>1, <2>1, <2>2 DEF FdOK, Heard, Open1, NoneThrows, HeldReads
  <1> HIDE DEF r
  <1>4. Moves'
    BY <1>1, <1>2, <1>3, MovePut DEF NoneThrows
  <1>5. HeldReads'
    BY <1>1, <1>2, HeldPut DEF NoneThrows
  <1> QED BY <1>1, <1>4, <1>5 DEF NoneThrows

\* A close, of the program's or of an open that failed.
LEMMA CloseThrows ==
  ASSUME FilesOK, NoneThrows, NEW fd \in Fds, toRun' = Append(toRun, Rec("close", fd)),
         owners' = Forgetting(owners, fd), UNCHANGED <<files, threw>>, Len(sq') <= RingRoom
  PROVE  NoneThrows'
  <1> DEFINE r == Rec("close", fd)
  <1>1. r \in SysRec /\ r.op = "close"
    BY DEF Rec, SysRec
  <1>2. Held' \subseteq Held
    BY Without1 DEF Held
  <1>3. toRun' = Append(toRun, r)
    OBVIOUS
  <1> HIDE DEF r
  <1>4. Moves'
    BY <1>1, <1>3, MovePut DEF NoneThrows
  <1>5. HeldReads'
    BY <1>1, <1>2, <1>3, HeldPut DEF NoneThrows
  <1> QED BY <1>4, <1>5 DEF NoneThrows

LEMMA OpenedThrows ==
  ASSUME FilesAssumption, FilesOK, NoneThrows, Opened
  PROVE  NoneThrows'
  <1> DEFINE a == Head(sq)
  <1>1. sq # <<>> /\ sq' = Tail(sq) /\ UNCHANGED <<files, threw>>
    BY DEF Opened
  <1>2. sq \in Seq(Answer) /\ Len(sq) \in Nat /\ Len(sq') = Len(sq) - 1 /\ a \in Answer
    BY <1>1 DEF FilesOK, Types
  <1>3. Len(sq') <= RingRoom /\ a.fd \in Fds
    BY <1>2 DEF NoneThrows, FilesAssumption, Answer
  <1>4. \/ owners' = Forgetting(owners, a.fd) /\ toRun' = Append(toRun, Rec("close", a.fd))
        \/ UNCHANGED <<owners, toRun>>
    BY DEF Opened
  <1> HIDE DEF a
  <1>5. CASE owners' = Forgetting(owners, a.fd) /\ toRun' = Append(toRun, Rec("close", a.fd))
    BY <1>1, <1>3, <1>5, CloseThrows
  <1>6. CASE UNCHANGED <<owners, toRun>>
    BY <1>1, <1>3, <1>6 DEF NoneThrows, Moves, MoveOK, Open1, HeldReads, Opens1, Held, Kept
  <1> QED BY <1>4, <1>5, <1>6

LEMMA WriteWholeThrows ==
  ASSUME FilesAssumption, ~ RefusesWrites, FilesOK, NoneThrows,
         NEW refused \in BOOLEAN, WriteWhole(refused)
  PROVE  NoneThrows'
  <1> DEFINE n == taken + 1
             o == Opens(n, "write", refused)
             w == Rec("write", n)
             c == Rec("close", n)
             v == <<o, w, c>>
             L == Len(toRun)
  <1>1. /\ taken < MaxOpens /\ toRun' = toRun \o v /\ refused = FALSE
        /\ UNCHANGED <<owners, files, sq, threw>>
    BY DEF WriteWhole
  <1>2. n \in Fds /\ n \notin Held
    BY <1>1, FreshOf
  <1>3. /\ o \in SysRec /\ o.op = "openat" /\ o.fd = n /\ o = Opens(n, "write", FALSE)
        /\ w \in SysRec /\ w.op = "write" /\ w.fd = n
        /\ c \in SysRec /\ c.op = "close"
    BY <1>1, <1>2 DEF Opens, Rec, SysRec
  <1> HIDE DEF o, w, c, n
  <1>4. v \in Seq(SysRec) /\ Len(v) = 3 /\ v[1] = o /\ v[2] = w /\ v[3] = c
    <2>1. o \in SysRec /\ w \in SysRec /\ c \in SysRec
      BY <1>3
    <2> QED BY <2>1
  <1> HIDE DEF v
  <1>5. /\ L \in Nat /\ Len(toRun') = L + 3
        /\ \A i \in 1 .. L : toRun'[i] = toRun[i] /\ i \in 1 .. Len(toRun')
        /\ toRun'[L + 1] = o /\ toRun'[L + 2] = w /\ toRun'[L + 3] = c
        /\ \A i \in 1 .. Len(toRun') : i \in 1 .. L \/ i \in {L + 1, L + 2, L + 3}
    <2>1. toRun \in Seq(SysRec)
      BY DEF FilesOK, Types
    <2>2. /\ toRun \o v \in Seq(SysRec) /\ Len(toRun) \in Nat /\ Len(toRun \o v) = Len(toRun) + 3
          /\ \A i \in 1 .. Len(toRun) : (toRun \o v)[i] = toRun[i] /\ i \in 1 .. Len(toRun \o v)
          /\ (toRun \o v)[Len(toRun) + 1] = v[1]
          /\ (toRun \o v)[Len(toRun) + 2] = v[2]
          /\ (toRun \o v)[Len(toRun) + 3] = v[3]
          /\ \A i \in 1 .. Len(toRun \o v) :
               i \in 1 .. Len(toRun) \/ i \in {Len(toRun) + 1, Len(toRun) + 2, Len(toRun) + 3}
      BY <1>4, <2>1, PutThree
    <2> QED BY <1>1, <1>4, <2>2
  <1>6. \A fd, for : Open1(fd, for)' <=> Open1(fd, for)
    BY <1>1 DEF Open1, Kept
  <1>7. ASSUME NEW i \in 1 .. Len(toRun') PROVE MoveOK(i)'
    <2>1. CASE i \in 1 .. L
      <3>1. MoveOK(i) /\ toRun'[i] = toRun[i]
        BY <1>5, <2>1 DEF NoneThrows, Moves
      <3>2. \A j \in 1 .. i - 1 : toRun'[j] = toRun[j]
        BY <1>5, <2>1
      <3>3. i # 1 => i - 1 \in 1 .. i - 1
        BY <1>5, <2>1
      <3> QED BY <1>6, <3>1, <3>2, <3>3 DEF MoveOK
    <2>2. CASE i = L + 2
      <3>1. toRun'[i] = w /\ i # 1 /\ i - 1 = L + 1 /\ toRun'[L + 1] = o
        BY <1>5, <2>2
      <3>2. toRun'[i - 1] = Opens(n, "write", FALSE)
        BY <1>3, <3>1
      <3> QED BY <1>3, <3>1, <3>2 DEF MoveOK
    <2>3. CASE i = L + 1 \/ i = L + 3
      <3>1. toRun'[i].op = "openat" \/ toRun'[i].op = "close"
        BY <1>3, <1>5, <2>3
      <3> QED BY <3>1 DEF MoveOK
    <2> QED BY <1>5, <2>1, <2>2, <2>3
  <1>8. HeldReads'
    <2>1. Held' = Held /\ Kept' = Kept
      BY <1>1 DEF Held, Kept
    <2>2. ASSUME NEW i \in 1 .. Len(toRun'), Opens1(i)', toRun'[i].fd \in Held'
          PROVE  toRun'[i].for = "read"
      <3>1. i \in 1 .. L
        BY <1>2, <1>3, <1>5, <2>1, <2>2 DEF Opens1
      <3> QED BY <1>5, <2>1, <2>2, <3>1 DEF NoneThrows, HeldReads, Opens1
    <2> QED BY <1>1, <2>1, <2>2 DEF NoneThrows, HeldReads
  <1> QED BY <1>1, <1>7, <1>8 DEF NoneThrows, Moves

\* What the first record says, and the rest of them once it is run.
LEMMA RunTail ==
  ASSUME FilesOK, NoneThrows, RunsOne, NEW r, r = Head(toRun)
  PROVE  /\ r = toRun[1] /\ r \in SysRec /\ MoveOK(1)
         /\ r.op = "openat" /\ r.fd \in Held => r.for = "read"
         /\ \A i \in 1 .. Len(toRun') :
              /\ i + 1 \in 1 .. Len(toRun) /\ toRun'[i] = toRun[i + 1] /\ MoveOK(i + 1)
              /\ i # 1 => i - 1 \in 1 .. Len(toRun') /\ toRun'[i - 1] = toRun[i]
  <1>1. /\ toRun \in Seq(SysRec) /\ Len(toRun) \in Nat /\ toRun' \in Seq(SysRec)
        /\ Len(toRun') = Len(toRun) - 1 /\ 1 \in 1 .. Len(toRun)
        /\ \A i \in 1 .. Len(toRun') : toRun'[i] = toRun[i + 1] /\ i + 1 \in 1 .. Len(toRun)
        /\ r = toRun[1]
    BY DEF FilesOK, Types, RunsOne
  <1>2. r \in SysRec /\ MoveOK(1) /\ (r.op = "openat" /\ r.fd \in Held => r.for = "read")
    BY <1>1 DEF NoneThrows, Moves, HeldReads, Opens1
  <1>3. ASSUME NEW i \in 1 .. Len(toRun'), i # 1
        PROVE  i - 1 \in 1 .. Len(toRun') /\ toRun'[i - 1] = toRun[i]
    <2>1. i - 1 \in 1 .. Len(toRun') /\ (i - 1) + 1 = i
      BY <1>1, <1>3
    <2> QED BY <1>1, <2>1
  <1> QED BY <1>1, <1>2, <1>3 DEF NoneThrows, Moves

(***************************************************************************)
(* Once a record is run the rest may be, where it leaves open what they    *)
(* read, and what the next is to write.                                    *)
(***************************************************************************)
LEMMA RunMoves ==
  ASSUME FilesOK, NoneThrows, RunsOne, NEW r, r = Head(toRun),
         \A fd \in Kept : Open1(fd, "read") /\ (r.op = "close" => r.fd # fd) => Open1(fd, "read")',
         \A fd : r = Opens(fd, "write", FALSE) => Open1(fd, "write")'
  PROVE  Moves'
  <1>1. ASSUME NEW i \in 1 .. Len(toRun') PROVE MoveOK(i)'
    <2>1. /\ i + 1 \in 1 .. Len(toRun) /\ toRun'[i] = toRun[i + 1] /\ MoveOK(i + 1) /\ r = toRun[1]
          /\ i \in Nat \ {0}
      BY RunTail
    <2>2. PICK t : t = toRun'[i]
      OBVIOUS
    <2>3. t = toRun[i + 1] /\ i + 1 # 1 /\ (i + 1) - 1 = i
      BY <2>1, <2>2
    <2>4. ASSUME t.op = "read"
          PROVE  /\ Open1(t.fd, "read")'
                 /\ \A j \in 1 .. i - 1 : toRun'[j].op = "close" => toRun'[j].fd # t.fd
      <3>1. /\ Open1(t.fd, "read")
            /\ \A j \in 1 .. (i + 1) - 1 : toRun[j].op = "close" => toRun[j].fd # t.fd
        BY <2>1, <2>3, <2>4 DEF MoveOK
      <3>2. 1 \in 1 .. (i + 1) - 1
        BY <2>1
      <3>3. r.op = "close" => r.fd # t.fd
        BY <2>1, <3>1, <3>2
      <3>4. t.fd \in Kept
        BY <3>1 DEF Open1
      <3>5. Open1(t.fd, "read")'
        BY <3>1, <3>3, <3>4
      <3>6. ASSUME NEW j \in 1 .. i - 1, toRun'[j].op = "close" PROVE toRun'[j].fd # t.fd
        <4>1. j \in 1 .. Len(toRun') /\ j + 1 \in 1 .. (i + 1) - 1
          BY <2>1
        <4>2. toRun'[j] = toRun[j + 1]
          BY <4>1, RunTail
        <4> QED BY <3>1, <3>6, <4>1, <4>2
      <3> QED BY <3>5, <3>6
    <2>5. ASSUME t.op = "write"
          PROVE  IF i = 1 THEN Open1(t.fd, "write")' ELSE toRun'[i - 1] = Opens(t.fd, "write", FALSE)
      <3>1. toRun[i] = Opens(t.fd, "write", FALSE)
        BY <2>1, <2>3, <2>5 DEF MoveOK
      <3>2. CASE i = 1
        <4>1. Open1(t.fd, "write")'
          BY <2>1, <3>1, <3>2
        <4> QED BY <3>2, <4>1
      <3>3. CASE i # 1
        BY <3>1, <3>3, RunTail
      <3> QED BY <3>2, <3>3
    <2> QED BY <2>2, <2>4, <2>5 DEF MoveOK, Open1
  <1> QED BY <1>1 DEF Moves

LEMMA RunHeld ==
  ASSUME FilesOK, NoneThrows, RunsOne, NEW r, r = Head(toRun),
         \A fd \in Held \cap Kept' : files'[fd].for = "read"
  PROVE  HeldReads'
  <1>1. Held' = Held
    BY RunsOneKeeps
  <1>2. ASSUME NEW i \in 1 .. Len(toRun'), Opens1(i)', toRun'[i].fd \in Held'
        PROVE  toRun'[i].for = "read"
    <2>1. i + 1 \in 1 .. Len(toRun) /\ toRun'[i] = toRun[i + 1]
      BY RunTail
    <2> QED BY <1>1, <1>2, <2>1 DEF NoneThrows, HeldReads, Opens1
  <1> QED BY <1>1, <1>2 DEF HeldReads

LEMMA RunOpenatThrows ==
  ASSUME FilesOK, NoneThrows, RunsOne, NEW r, r = Head(toRun), r.op = "openat", RunOpenat(r)
  PROVE  NoneThrows'
  <1> DEFINE v == [for |-> IF r.refused THEN "read" ELSE r.for,
                   ready |-> r.for = "write" /\ ~ r.refused,
                   refused |-> r.refused, written |-> 0]
  <1>1. files' = With(files, r.fd, v) /\ UNCHANGED <<commits, threw>>
    BY DEF RunOpenat
  <1>2. r.fd \notin Kept
    <2>1. r.fd \in Opening /\ r.fd \in Fds
      BY RecordTaken, RunTail DEF FilesOK, RunsOne, SysRec
    <2> QED BY <2>1 DEF FilesOK, FdOK
  <1>3. /\ Kept' = Kept \cup {r.fd} /\ files'[r.fd] = v
        /\ \A fd \in Kept : files'[fd] = files[fd]
    BY <1>1, <1>2 DEF Kept, With
  <1>4. \A fd \in Kept : Open1(fd, "read") => Open1(fd, "read")'
    BY <1>3 DEF Open1
  <1>5. ASSUME NEW fd, r = Opens(fd, "write", FALSE) PROVE Open1(fd, "write")'
    <2>1. r.fd = fd /\ r.for = "write" /\ r.refused = FALSE
      BY <1>5 DEF Opens
    <2>2. v.ready /\ v.for = "write"
      BY <2>1
    <2> HIDE DEF v
    <2> QED BY <1>3, <2>1, <2>2 DEF Open1
  <1>6. \A fd \in Held \cap Kept' : files'[fd].for = "read"
    <2>1. r.fd \in Held => v.for = "read"
      BY RunTail
    <2> HIDE DEF v
    <2> QED BY <1>3, <2>1 DEF NoneThrows, HeldReads
  <1> HIDE DEF v
  <1>7. Moves'
    BY <1>4, <1>5, RunMoves
  <1>8. HeldReads'
    BY <1>6, RunHeld
  <1> QED BY <1>1, <1>7, <1>8 DEF NoneThrows, RunsOne

LEMMA RunCloseThrows ==
  ASSUME FilesOK, NoneThrows, RunsOne, NEW r, r = Head(toRun), r.op = "close", RunClose(r.fd)
  PROVE  NoneThrows'
  <1>1. files' = Forgetting(files, r.fd) /\ UNCHANGED threw
    BY DEF RunClose
  <1>2. /\ Kept' = Kept \ {r.fd}
        /\ \A fd \in Kept' : files'[fd] = files[fd]
    BY <1>1 DEF Kept, Forgetting
  <1>3. \A fd \in Kept : Open1(fd, "read") /\ r.fd # fd => Open1(fd, "read")'
    BY <1>2 DEF Open1
  <1>4. \A fd : r # Opens(fd, "write", FALSE)
    BY DEF Opens
  <1>5. \A fd \in Held \cap Kept' : files'[fd].for = "read"
    BY <1>2 DEF NoneThrows, HeldReads
  <1>6. Moves'
    BY <1>3, <1>4, RunMoves
  <1>7. HeldReads'
    BY <1>5, RunHeld
  <1> QED BY <1>1, <1>6, <1>7 DEF NoneThrows, RunsOne

LEMMA RunMoveThrows ==
  ASSUME FilesOK, NoneThrows, RunsOne, NEW r, r = Head(toRun), r.op # "openat", r.op # "close",
         RunMove([r EXCEPT !.for = r.op])
  PROVE  NoneThrows'
  <1> DEFINE s == [r EXCEPT !.for = r.op]
  <1>1. r \in SysRec /\ MoveOK(1) /\ r = toRun[1]
    BY RunTail
  <1>2. r.op \in {"read", "write"} /\ s.fd = r.fd /\ s.for = r.op
    BY <1>1 DEF SysRec
  <1>3. Open1(r.fd, r.op)
    BY <1>1, <1>2 DEF MoveOK
  <1> HIDE DEF s
  <1>4. ~ threw'
    <2>1. s.fd \in DOMAIN files /\ files[s.fd].ready /\ files[s.fd].for = s.for
      BY <1>2, <1>3 DEF Open1, Kept
    <2>2. threw' = ~ (s.fd \in DOMAIN files /\ files[s.fd].ready /\ files[s.fd].for = s.for)
      BY DEF RunMove, s
    <2> QED BY <2>1, <2>2, Zenon
  <1>5. Kept' = Kept /\ \A fd \in Kept : files'[fd].ready = files[fd].ready /\ files'[fd].for = files[fd].for
    <2>1. files = [fd \in Kept |-> files[fd]] /\ \A fd \in Kept : files[fd] \in File
      BY DEF FilesOK, Types
    <2>2. files' = files \/ files' = [files EXCEPT ![s.fd].written = files[s.fd].written + 1]
      BY DEF RunMove, s
    <2>3. CASE files' = files
      BY <2>3 DEF Kept
    <2>4. CASE files' = [files EXCEPT ![s.fd].written = files[s.fd].written + 1]
      <3>1. Kept' = Kept
        BY <2>1, <2>4 DEF Kept
      <3>2. ASSUME NEW fd \in Kept PROVE files'[fd].ready = files[fd].ready /\ files'[fd].for = files[fd].for
        <4>1. CASE fd # s.fd
          BY <2>1, <2>4, <4>1 DEF Kept
        <4>2. CASE fd = s.fd
          <5>1. files'[fd] = [files[fd] EXCEPT !.written = files[fd].written + 1]
            BY <2>1, <2>4, <4>2 DEF Kept
          <5>2. files[fd] \in File
            BY <2>1
          <5> QED BY <5>1, <5>2 DEF File
        <4> QED BY <4>1, <4>2
      <3> QED BY <3>1, <3>2
    <2> QED BY <2>2, <2>3, <2>4
  <1>6. \A fd \in Kept : Open1(fd, "read") => Open1(fd, "read")'
    BY <1>5 DEF Open1
  <1>7. \A fd : r # Opens(fd, "write", FALSE)
    BY DEF Opens
  <1>8. Moves'
    BY <1>6, <1>7, RunMoves
  <1>9. HeldReads'
    <2>1. \A fd \in Held \cap Kept' : files'[fd].for = "read"
      BY <1>5 DEF NoneThrows, HeldReads
    <2> QED BY <2>1, RunHeld
  <1> QED BY <1>4, <1>8, <1>9 DEF NoneThrows, RunsOne

LEMMA RunThrows ==
  ASSUME FilesOK, NoneThrows, RunRecord
  PROVE  NoneThrows'
  <1>1. RunsOne
    BY DEF RunRecord, RunsOne
  <1> DEFINE r == Head(toRun)
  <1>2. CASE r.op = "openat"
    <2>1. RunOpenat(r)
      BY <1>2 DEF RunRecord
    <2> QED BY <1>1, <1>2, <2>1, RunOpenatThrows
  <1>3. CASE r.op = "close"
    <2>1. RunClose(r.fd)
      BY <1>3 DEF RunRecord
    <2> QED BY <1>1, <1>3, <2>1, RunCloseThrows
  <1>4. CASE r.op # "openat" /\ r.op # "close"
    <2>1. RunMove([r EXCEPT !.for = r.op])
      BY <1>4 DEF RunRecord
    <2> QED BY <1>1, <1>4, <2>1, RunMoveThrows
  <1> QED BY <1>2, <1>3, <1>4

LEMMA HostThrows ==
  ASSUME FilesAssumption, FilesOK, NoneThrows,
         (\E fd \in Fds, ok \in BOOLEAN : Settle(fd, ok)) \/ SendAnswer
  PROVE  NoneThrows'
  <1>1. toRun = <<>> /\ UNCHANGED <<toRun, owners, threw>>
    BY DEF Settle, SendAnswer, MayAnswer, FilesOK, Records
  <1>2. Moves'
    BY <1>1 DEF Moves
  <1>3. /\ Held' = Held /\ Kept' \subseteq Kept
        /\ \A fd \in Kept' : files'[fd].for = files[fd].for
    <2>1. CASE SendAnswer
      BY <2>1 DEF SendAnswer, Held, Kept
    <2>2. ASSUME NEW fd \in Fds, NEW ok \in BOOLEAN, Settle(fd, ok)
          PROVE  /\ Held' = Held /\ Kept' \subseteq Kept
                 /\ \A g \in Kept' : files'[g].for = files[g].for
      <3>1. files = [g \in Kept |-> files[g]] /\ \A g \in Kept : files[g] \in File
        BY DEF FilesOK, Types
      <3>2. CASE ok
        <4>1. files' = [files EXCEPT ![fd].ready = TRUE] /\ fd \in Kept
          BY <2>2, <3>2 DEF Settle, Awaits, Kept
        <4>2. files'[fd] = [files[fd] EXCEPT !.ready = TRUE]
          BY <3>1, <4>1 DEF Kept
        <4>3. files'[fd].for = files[fd].for
          BY <3>1, <4>1, <4>2 DEF File
        <4> QED BY <2>2, <3>1, <4>1, <4>3 DEF Settle, Held, Kept
      <3>3. CASE ~ ok
        <4>1. files' = Forgetting(files, fd) /\ owners' = owners
          BY <2>2, <3>3 DEF Settle
        <4> QED BY <4>1 DEF Forgetting, Held, Kept
      <3> QED BY <3>2, <3>3
    <2> QED BY <2>1, <2>2
  <1>4. HeldReads'
    BY <1>1, <1>3 DEF NoneThrows, HeldReads
  <1>5. Len(sq') <= RingRoom
    <2>1. sq \in Seq(Answer) /\ RingRoom \in Nat
      BY DEF FilesOK, Types, FilesAssumption
    <2>2. sq' = sq \/ (Len(sq) < RingRoom /\ sq' = Append(sq, sending) /\ Len(sq') = Len(sq) + 1)
      BY <2>1 DEF Settle, SendAnswer, HasRoom
    <2> QED BY <2>1, <2>2 DEF NoneThrows
  <1> QED BY <1>1, <1>2, <1>4, <1>5 DEF NoneThrows

LEMMA ThrowsSteps ==
  ASSUME FilesAssumption, ~ RefusesWrites, FilesOK, NoneThrows, [FilesNext]_filesVars
  PROVE  NoneThrows'
  <1>1. CASE Open
    BY <1>1, OpenThrows
  <1>2. ASSUME NEW fd \in Fds, ReadFile(fd) PROVE NoneThrows'
    BY <1>2, ReadFileThrows
  <1>3. ASSUME NEW fd \in Fds, CloseFile(fd) PROVE NoneThrows'
    BY <1>3, CloseThrows DEF CloseFile, NoneThrows
  <1>4. ASSUME NEW refused \in BOOLEAN, WriteWhole(refused) PROVE NoneThrows'
    BY <1>4, WriteWholeThrows
  <1>5. CASE Opened
    BY <1>5, OpenedThrows
  <1>6. CASE RunRecord
    BY <1>6, RunThrows
  <1>7. CASE (\E fd \in Fds, ok \in BOOLEAN : Settle(fd, ok)) \/ SendAnswer
    BY <1>7, HostThrows
  <1>8. CASE FilesRise \/ FilesFall \/ RingForRoom \/ EndRun
    BY <1>8, ThrowsSame DEF FilesRise, FilesFall, RingForRoom, EndRun
  <1>9. CASE UNCHANGED filesVars
    BY <1>9, ThrowsSame DEF filesVars
  <1> QED BY <1>1, <1>2, <1>3, <1>4, <1>5, <1>6, <1>7, <1>8, <1>9 DEF FilesNext

LEMMA AlwaysRuns ==
  ASSUME FilesAssumption, ~ RefusesWrites
  PROVE  FilesSpec => []NoneThrows
  <1>1. FilesInit => NoneThrows
    <2> SUFFICES ASSUME FilesInit PROVE NoneThrows
      OBVIOUS
    <2>1. toRun = <<>> /\ sq = <<>> /\ owners = << >> /\ ~ threw
      BY DEF FilesInit
    <2>2. Held = {} /\ Len(sq) = 0 /\ Len(toRun) = 0
      BY <2>1 DEF Held
    <2>3. Len(sq) <= RingRoom
      BY <2>2 DEF FilesAssumption
    <2> QED BY <2>1, <2>2, <2>3 DEF NoneThrows, Moves, HeldReads
  <1>2. FilesOK /\ NoneThrows /\ [FilesNext]_filesVars => NoneThrows'
    BY ThrowsSteps
  <1> QED BY <1>1, <1>2, AlwaysOK, PTL DEF FilesSpec
-----------------------------------------------------------------------------
(***************************************************************************)
(* For any number of opens and any ring: between turns the host keeps only *)
(* files the guest holds, and every one whose owner was told it opened, so *)
(* no read finds none there (Sys.openat, read and close of the host;       *)
(* File of the guest).                                                     *)
(***************************************************************************)
THEOREM EndsAgree ==
  ASSUME FilesAssumption
  PROVE  FilesSpec => []HostAgrees
  <1>1. FilesOK => HostAgrees
    <2> SUFFICES ASSUME FilesOK, side = "host", toRun = <<>>
                 PROVE  /\ DOMAIN files \subseteq DOMAIN owners
                        /\ \A fd \in DOMAIN owners : told[fd] = <<TRUE>> => fd \in DOMAIN files /\ files[fd].ready
      BY DEF HostAgrees
    <2>1. Closing = {}
      <3>1. Turned = {}
        BY DEF Turned
      <3> QED BY <3>1 DEF Closing, Of
    <2>2. /\ Held \subseteq Fds /\ Kept \subseteq Fds
      <3>1. taken \in 0 .. MaxOpens
        BY DEF FilesOK, Types
      <3>2. MaxOpens \in Nat
        BY DEF FilesAssumption
      <3>3. 1 .. taken \subseteq 1 .. MaxOpens
        BY <3>1, <3>2
      <3> QED BY <3>3 DEF FilesOK, Types, Fds
    <2>3. ASSUME NEW fd \in Kept PROVE fd \in Held
      <3>1. FdOK(fd)
        BY <2>2 DEF FilesOK
      <3> QED BY <2>1, <3>1 DEF FdOK
    <2>4. ASSUME NEW fd \in Held, told[fd] = <<TRUE>>
          PROVE  fd \in Kept /\ files[fd].ready
      <3>1. FdOK(fd)
        BY <2>2 DEF FilesOK
      <3>2. told[fd] # <<>>
        BY <2>4
      <3> QED BY <2>4, <3>1, <3>2 DEF FdOK, Heard
    <2> QED BY <2>3, <2>4 DEF Held, Kept
  <1> QED BY <1>1, AlwaysOK, PTL

(***************************************************************************)
(* An owner hears once at most how its open went, however its close and    *)
(* the answer cross (open_files of guest ipc/file.hpp, Opened of sys.ts).  *)
(***************************************************************************)
THEOREM HearsOnce ==
  ASSUME FilesAssumption
  PROVE  FilesSpec => []ToldOnce
  <1>1. FilesOK => ToldOnce
    BY DEF FilesOK, FdOK, ToldOnce
  <1> QED BY <1>1, AlwaysOK, PTL

\* What a whole write wrote is committed once (Sys.close).
THEOREM CommitsOnce ==
  ASSUME FilesAssumption
  PROVE  FilesSpec => []CommittedOnce
  <1>1. FilesOK => CommittedOnce
    BY DEF FilesOK, Committed
  <1> QED BY <1>1, AlwaysOK, PTL

\* A turn begins only when the last one's records have all been run: an
\* answer that finds the ring full waits (Sys.openat).
THEOREM RunsWhole ==
  ASSUME FilesAssumption
  PROVE  FilesSpec => RunWhole
  <1>1. FilesOK /\ [FilesNext]_filesVars => [side # "guest" /\ side' = "guest" => toRun = <<>>]_filesVars
    <2> SUFFICES ASSUME FilesOK, [FilesNext]_filesVars, side # "guest", side' = "guest"
                 PROVE  toRun = <<>>
      OBVIOUS
    <2>1. FilesRise \/ RingForRoom
      BY DEF FilesNext, filesVars, Open, ReadFile, CloseFile, WriteWhole, Opened, FilesFall,
             RunRecord, EndRun, Settle, SendAnswer
    <2>2. side = "host"
      BY <2>1 DEF FilesRise, RingForRoom, MayAnswer
    <2> QED BY <2>2 DEF FilesOK, Records
  <1> QED BY <1>1, AlwaysOK, PTL DEF RunWhole, FilesSpec

(***************************************************************************)
(* No record the guest makes throws in the host, EBADF, in any order of    *)
(* opens, answers, reads and closes, where no write is of what the host    *)
(* refuses; where one is, a run shows it does (read, write of sys.ts).     *)
(***************************************************************************)
THEOREM NeverThrows ==
  ASSUME FilesAssumption, ~ RefusesWrites
  PROVE  FilesSpec => []NoRecordThrows
  <1>1. NoneThrows => NoRecordThrows
    BY DEF NoneThrows, NoRecordThrows
  <1> QED BY <1>1, AlwaysRuns, PTL

\* All of it at once.
THEOREM AgreeOnFiles ==
  ASSUME FilesAssumption, ~ RefusesWrites
  PROVE  FilesSpec => []FilesAgree
  <1>1. FilesOK /\ NoneThrows => FilesTypeOK
    <2> SUFFICES ASSUME FilesOK, NoneThrows PROVE FilesTypeOK
      OBVIOUS
    <2>1. Types /\ Len(sq) <= RingRoom
      BY DEF FilesOK, NoneThrows
    <2>2. taken \in 0 .. MaxOpens /\ MaxOpens \in Nat
      BY <2>1 DEF Types, FilesAssumption
    <2>3. \A fd \in Kept : fd \in Fds /\ files[fd] \in File
      BY <2>1, <2>2 DEF Types, Fds
    <2> QED BY <2>1, <2>3 DEF Types, FilesTypeOK, Held, Kept
  <1>2. FilesSpec => []FilesTypeOK
    BY <1>1, AlwaysOK, AlwaysRuns, PTL
  <1> QED BY <1>2, EndsAgree, HearsOnce, CommitsOnce, NeverThrows, PTL DEF FilesAgree

\* An owner is told of its open only while it holds the descriptor: an answer
\* that a close overtook reaches no one (Owned, File::opened).
THEOREM TellsHolders ==
  FilesSpec => ToldWhileHeld
  <1>1. [FilesNext]_filesVars =>
          [\A fd \in Fds : told'[fd] # told[fd] => fd \in DOMAIN owners]_filesVars
    <2> SUFFICES ASSUME [FilesNext]_filesVars, NEW fd \in Fds, told'[fd] # told[fd]
                 PROVE  fd \in DOMAIN owners
      OBVIOUS
    <2>1. Opened
      BY DEF FilesNext, filesVars, Open, ReadFile, CloseFile, WriteWhole, FilesRise, FilesFall,
             RunRecord, EndRun, Settle, SendAnswer, RingForRoom
    <2>2. Owned(Head(sq).fd) /\ told' = [told EXCEPT ![Head(sq).fd] = Append(@, Head(sq).ok)]
      BY <2>1 DEF Opened
    <2>3. fd = Head(sq).fd
      BY <2>2
    <2> QED BY <2>2, <2>3 DEF Owned
  <1> QED BY <1>1, PTL DEF FilesSpec, ToldWhileHeld

\* Both at once.
THEOREM AnswersWaited ==
  ASSUME FilesAssumption
  PROVE  FilesSpec => AnswersWait
  BY RunsWhole, TellsHolders DEF AnswersWait
-----------------------------------------------------------------------------
Recs == Record \cup {AbortRec}

(***************************************************************************)
(* The words up to `end` are those of the records `l`, one after another;  *)
(* `p` says where each ends.                                               *)
(***************************************************************************)
LaidAt(a, at, rec) ==
  \A j \in 0 .. RecordWords(rec) - 1 : a[at + j] = [rec |-> rec, k |-> j]

Spells(a, end, l, p) ==
  /\ l \in Seq(Recs)
  /\ p \in [0 .. Len(l) -> 0 .. AreaWords]
  /\ p[0] = 0 /\ p[Len(l)] = end
  /\ \A i, j \in 0 .. Len(l) : i < j => p[i] < p[j]
  /\ \A i \in 1 .. Len(l) : p[i] = p[i - 1] + RecordWords(l[i]) /\ LaidAt(a, p[i - 1], l[i])

LEMMA RecordSizes ==
  ASSUME RecordsAssumption
  PROVE  /\ \A rec \in Recs : RecordWords(rec) \in Nat /\ RecordWords(rec) >= 2
         /\ AreaWords \in Nat /\ Record \subseteq Recs /\ AbortRec \in Recs
         /\ RecordWords(AbortRec) = AbortSize + 2 /\ AbortSize + 2 <= AreaWords /\ AbortSize \in Nat
<1>1. AreaWords \in Nat /\ AbortSize \in Nat /\ AbortSize + 2 <= AreaWords /\ OwnWords \subseteq Nat
  BY DEF RecordsAssumption
<1>2. AbortRec.n = AbortSize /\ AbortRec \in Recs /\ Record \subseteq Recs
  BY DEF AbortRec, Recs
<1>3. RecordWords(AbortRec) = AbortSize + 2
  BY <1>1, <1>2 DEF RecordWords
<1>4. ASSUME NEW rec \in Record PROVE RecordWords(rec) \in Nat /\ RecordWords(rec) >= 2
  <2>1. rec.n \in Nat
    BY <1>1 DEF Record
  <2> QED BY <2>1 DEF RecordWords
<1>5. ASSUME NEW rec \in Recs PROVE RecordWords(rec) \in Nat /\ RecordWords(rec) >= 2
  <2>1. CASE rec = AbortRec
    BY <1>1, <1>3, <2>1
  <2>2. CASE rec \in Record
    BY <1>4, <2>2
  <2> QED BY <2>1, <2>2 DEF Recs
<1> QED BY <1>1, <1>2, <1>3, <1>5

Reader(a, end, f) ==
  f = [at \in 0 .. AreaWords |->
         IF at >= end THEN <<>>
         ELSE IF WholeIn(a, at)
         THEN <<a[at].rec>> \o f[at + RecordWords(a[at].rec)]
         ELSE <<Misread>>]

LEMMA ReadingReads ==
  ASSUME NEW a, NEW end, NEW f, Reader(a, end, f)
  PROVE  Reader(a, end, Reading(a, end))
BY DEF Reader, Reading

LEMMA Whole ==
  ASSUME RecordsAssumption, NEW a, NEW at \in 0 .. AreaWords, NEW rec \in Recs, LaidAt(a, at, rec),
         at + RecordWords(rec) <= AreaWords
  PROVE  WholeIn(a, at) /\ a[at].rec = rec
<1>1. RecordWords(rec) \in Nat /\ RecordWords(rec) >= 2
  BY RecordSizes
<1>2. 0 \in 0 .. RecordWords(rec) - 1 /\ at + 0 = at
  BY <1>1
<1>3. a[at] = [rec |-> rec, k |-> 0]
  BY <1>2 DEF LaidAt
<1>4. \A i \in 1 .. RecordWords(rec) - 1 : a[at + i] = [rec |-> rec, k |-> i]
  BY <1>1 DEF LaidAt
<1> QED BY <1>3, <1>4 DEF WholeIn

\* A word before the end is of one of the records.
LEMMA Between ==
  ASSUME RecordsAssumption, NEW a, NEW end, NEW l, NEW p, Spells(a, end, l, p), NEW at \in Nat, at < end
  PROVE  \E i \in 1 .. Len(l) : p[i - 1] <= at /\ at < p[i]
<1>1. Len(l) \in Nat /\ p \in [0 .. Len(l) -> 0 .. AreaWords] /\ p[0] = 0 /\ p[Len(l)] = end
  BY DEF Spells
<1> SUFFICES ASSUME ~ \E i \in 1 .. Len(l) : p[i - 1] <= at /\ at < p[i] PROVE FALSE
  OBVIOUS
<1> DEFINE P == {i \in 0 .. Len(l) : p[i] <= at}
<1>2. 0 \in P
  BY <1>1
<1>3. \A i \in 1 .. Len(l) : i - 1 \in P => i \in P
  <2> SUFFICES ASSUME NEW i \in 1 .. Len(l), i - 1 \in P PROVE i \in P
    OBVIOUS
  <2>1. p[i] \in Int /\ i \in 0 .. Len(l)
    BY <1>1
  <2> QED BY <2>1
<1> HIDE DEF P
<1>4. 0 .. Len(l) \subseteq P
  BY <1>1, <1>2, <1>3, UpTo
<1>5. Len(l) \in P
  BY <1>1, <1>4
<1>6. p[Len(l)] <= at /\ end \in Int
  BY <1>1, <1>5 DEF P
<1> QED BY <1>1, <1>6

\* The records from where one of them begins.
Rest(l, n) == SubSeq(l, n + 1, Len(l))

LEMMA RestOf ==
  ASSUME NEW l \in Seq(Recs)
  PROVE  /\ Rest(l, Len(l)) = <<>> /\ Rest(l, 0) = l
         /\ \A n \in 0 .. Len(l) - 1 : Rest(l, n) = <<l[n + 1]>> \o Rest(l, n + 1)
<1>1. Len(l) \in Nat
  OBVIOUS
<1>2. Rest(l, Len(l)) = <<>> /\ Rest(l, 0) = l
  <2>1. 0 + 1 = 1 /\ Len(l) + 1 > Len(l) /\ Len(l) + 1 \in Int /\ Len(l) \in Int
    BY <1>1
  <2> QED BY <2>1, SubSeqFull, SubSeqEmpty DEF Rest
<1>3. ASSUME NEW n \in 0 .. Len(l) - 1 PROVE Rest(l, n) = <<l[n + 1]>> \o Rest(l, n + 1)
  <2>1. n + 1 \in 1 .. Len(l) /\ Len(l) \in (n + 1) .. Len(l) /\ Len(l) \in 1 .. Len(l)
    BY <1>1
  <2>2. SubSeq(l, n + 1, Len(l)) = <<l[n + 1]>> \o SubSeq(l, (n + 1) + 1, Len(l))
    BY <2>1, SubSeqRecursiveFirst
  <2> QED BY <2>2 DEF Rest
<1> QED BY <1>2, <1>3

LEMMA ReadsBack ==
  ASSUME RecordsAssumption, NEW a, NEW end, NEW l, NEW p, Spells(a, end, l, p)
  PROVE  RecsIn(a, end) = l
<1>1. /\ l \in Seq(Recs) /\ Len(l) \in Nat /\ AreaWords \in Nat
      /\ p \in [0 .. Len(l) -> 0 .. AreaWords] /\ p[0] = 0 /\ p[Len(l)] = end
      /\ \A i, j \in 0 .. Len(l) : i < j => p[i] < p[j]
  BY DEF Spells, RecordsAssumption
<1>2. end \in 0 .. AreaWords /\ Len(l) \in 0 .. Len(l) /\ 0 \in 0 .. Len(l)
  BY <1>1
<1>3. ASSUME NEW n \in 0 .. Len(l) - 1
      PROVE  /\ p[n] < end /\ n \in 0 .. Len(l) /\ n + 1 \in 0 .. Len(l) /\ p[n] \in 0 .. AreaWords
             /\ WholeIn(a, p[n]) /\ a[p[n]].rec = l[n + 1] /\ p[n + 1] = p[n] + RecordWords(l[n + 1])
  <2>1. n + 1 \in 1 .. Len(l) /\ (n + 1) - 1 = n /\ n \in 0 .. Len(l) /\ n + 1 \in 0 .. Len(l) /\ n < Len(l)
    BY <1>1
  <2>2. p[n + 1] = p[n] + RecordWords(l[n + 1]) /\ LaidAt(a, p[n], l[n + 1]) /\ l[n + 1] \in Recs
    BY <1>1, <2>1 DEF Spells
  <2>3. p[n] \in 0 .. AreaWords /\ p[n + 1] \in 0 .. AreaWords /\ p[n] < p[Len(l)]
    BY <1>1, <1>2, <2>1
  <2>4. p[n] + RecordWords(l[n + 1]) <= AreaWords
    BY <1>1, <2>2, <2>3
  <2>5. WholeIn(a, p[n]) /\ a[p[n]].rec = l[n + 1]
    BY <2>2, <2>3, <2>4, Whole
  <2> QED BY <1>1, <2>1, <2>2, <2>3, <2>5
<1>4. ASSUME NEW at \in 0 .. AreaWords, at < end, \A n \in 0 .. Len(l) : at # p[n]
      PROVE  ~ WholeIn(a, at)
  <2>1. PICK i \in 1 .. Len(l) : p[i - 1] <= at /\ at < p[i]
    BY <1>1, <1>4, Between
  <2>2. i - 1 \in 0 .. Len(l) /\ p[i - 1] \in 0 .. AreaWords /\ at # p[i - 1] /\ l[i] \in Recs
    BY <1>1, <1>4
  <2>3. p[i] = p[i - 1] + RecordWords(l[i]) /\ LaidAt(a, p[i - 1], l[i]) /\ RecordWords(l[i]) \in Nat
    BY <2>2, RecordSizes DEF Spells
  <2>4. PICK j \in Nat : j = at - p[i - 1]
    BY <2>1, <2>2
  <2>5. j \in 0 .. RecordWords(l[i]) - 1 /\ p[i - 1] + j = at /\ j # 0
    BY <2>1, <2>2, <2>3, <2>4
  <2>6. a[at] = [rec |-> l[i], k |-> j]
    BY <2>3, <2>5 DEF LaidAt
  <2> QED BY <2>5, <2>6 DEF WholeIn
<1>5. PICK g : g = [at \in 0 .. AreaWords |->
                      IF at >= end THEN <<>>
                      ELSE IF \E n \in 0 .. Len(l) : at = p[n]
                      THEN Rest(l, CHOOSE n \in 0 .. Len(l) : at = p[n]) ELSE <<Misread>>]
  OBVIOUS
<1>6. \A n \in 0 .. Len(l) : g[p[n]] = Rest(l, n)
  <2> SUFFICES ASSUME NEW n \in 0 .. Len(l) PROVE g[p[n]] = Rest(l, n)
    OBVIOUS
  <2>1. CASE n = Len(l)
    <3>1. p[n] >= end /\ p[n] \in 0 .. AreaWords
      BY <1>1, <1>2, <2>1
    <3> QED BY <1>1, <1>5, <2>1, <3>1, RestOf
  <2>2. CASE n # Len(l)
    <3>1. n \in 0 .. Len(l) - 1
      BY <1>1, <2>2
    <3>2. p[n] \in 0 .. AreaWords /\ ~ p[n] >= end
      BY <1>2, <1>3, <3>1
    <3>3. PICK m : m = CHOOSE k \in 0 .. Len(l) : p[n] = p[k]
      OBVIOUS
    <3>4. m \in 0 .. Len(l) /\ p[n] = p[m]
      BY <3>3
    <3>5. m = n
      <4>1. m < n => p[m] < p[n]
        BY <1>1, <3>4
      <4>2. n < m => p[n] < p[m]
        BY <1>1, <3>4
      <4>3. p[n] \in Int /\ m \in Int /\ n \in Int
        BY <1>1, <3>2, <3>4
      <4> QED BY <3>4, <4>1, <4>2, <4>3
    <3> QED BY <1>5, <3>2, <3>3, <3>5
  <2> QED BY <2>1, <2>2
<1>7. ASSUME NEW at \in 0 .. AreaWords
      PROVE  g[at] = IF at >= end THEN <<>>
                     ELSE IF WholeIn(a, at)
                     THEN <<a[at].rec>> \o g[at + RecordWords(a[at].rec)]
                     ELSE <<Misread>>
  <2>1. CASE at >= end
    BY <1>5, <2>1
  <2>2. CASE ~ at >= end /\ \E n \in 0 .. Len(l) : at = p[n]
    <3>1. PICK n \in 0 .. Len(l) : at = p[n]
      BY <2>2
    <3>2. n \in 0 .. Len(l) - 1
      BY <1>1, <1>2, <2>2, <3>1
    <3>3. /\ WholeIn(a, at) /\ a[at].rec = l[n + 1] /\ p[n + 1] = at + RecordWords(l[n + 1])
          /\ n + 1 \in 0 .. Len(l)
      BY <1>3, <3>1, <3>2
    <3>4. g[at] = Rest(l, n) /\ g[at + RecordWords(a[at].rec)] = Rest(l, n + 1)
      BY <1>6, <3>1, <3>3
    <3>5. Rest(l, n) = <<l[n + 1]>> \o Rest(l, n + 1)
      BY <1>1, <3>2, RestOf
    <3> QED BY <2>2, <3>3, <3>4, <3>5
  <2>3. CASE ~ at >= end /\ ~ \E n \in 0 .. Len(l) : at = p[n]
    <3>1. at < end
      BY <1>2, <2>3
    <3> QED BY <1>4, <1>5, <2>3, <3>1
  <2> QED BY <2>1, <2>2, <2>3
<1>8. Reader(a, end, g)
  <2>1. g = [at \in 0 .. AreaWords |-> g[at]]
    BY <1>5
  <2> QED BY <1>7, <2>1 DEF Reader
<1>9. PICK w : w = Reading(a, end)
  OBVIOUS
<1>10. Reader(a, end, w)
  BY <1>8, <1>9, ReadingReads
<1>11. \A at \in 0 .. AreaWords :
         w[at] = IF at >= end THEN <<>>
                 ELSE IF WholeIn(a, at)
                 THEN <<a[at].rec>> \o w[at + RecordWords(a[at].rec)]
                 ELSE <<Misread>>
  BY <1>10 DEF Reader
\* From the last record back to the first.
<1>12. 0 .. Len(l) \subseteq {k \in 0 .. Len(l) : w[p[Len(l) - k]] = Rest(l, Len(l) - k)}
  <2> DEFINE P == {k \in 0 .. Len(l) : w[p[Len(l) - k]] = Rest(l, Len(l) - k)}
  <2>1. 0 \in P
    <3>1. Len(l) - 0 = Len(l) /\ w[end] = <<>>
      BY <1>1, <1>2, <1>11
    <3> QED BY <1>1, <1>2, <3>1, RestOf
  <2>2. \A k \in 1 .. Len(l) : k - 1 \in P => k \in P
    <3> SUFFICES ASSUME NEW k \in 1 .. Len(l), k - 1 \in P PROVE k \in P
      OBVIOUS
    <3>0. PICK n : n = Len(l) - k
      OBVIOUS
    <3>1. n \in 0 .. Len(l) - 1 /\ n + 1 = Len(l) - (k - 1) /\ k \in 0 .. Len(l)
      BY <1>1, <3>0
    <3>2. w[p[n + 1]] = Rest(l, n + 1)
      BY <3>1
    <3>3. /\ ~ p[n] >= end /\ p[n] \in 0 .. AreaWords
          /\ WholeIn(a, p[n]) /\ a[p[n]].rec = l[n + 1] /\ p[n + 1] = p[n] + RecordWords(l[n + 1])
      BY <1>2, <1>3, <3>1
    <3>4. w[p[n]] = <<l[n + 1]>> \o Rest(l, n + 1)
      BY <1>11, <3>2, <3>3
    <3>5. w[p[n]] = Rest(l, n)
      BY <1>1, <3>1, <3>4, RestOf
    <3> QED BY <3>0, <3>1, <3>5
  <2> HIDE DEF P
  <2>3. 0 .. Len(l) \subseteq P
    BY <1>1, <2>1, <2>2, UpTo
  <2> QED BY <2>3 DEF P
<1>13. w[p[0]] = Rest(l, 0)
  <2>1. Len(l) \in {k \in 0 .. Len(l) : w[p[Len(l) - k]] = Rest(l, Len(l) - k)} /\ Len(l) - Len(l) = 0
    BY <1>1, <1>2, <1>12
  <2> QED BY <2>1
<1> QED BY <1>1, <1>9, <1>13, RestOf DEF RecsIn

\* The log's count of its words is where they end.
LEMMA WordsEnd ==
  ASSUME RecordsAssumption, NEW a, NEW end, NEW l, NEW p, Spells(a, end, l, p)
  PROVE  Promise!WordsIn(l) = end
<1>1. /\ l \in Seq(Recs) /\ Len(l) \in Nat
      /\ p \in [0 .. Len(l) -> 0 .. AreaWords] /\ p[0] = 0 /\ p[Len(l)] = end
      /\ \A i \in 1 .. Len(l) : p[i] = p[i - 1] + RecordWords(l[i])
  BY DEF Spells
<1>2. p = [i \in 0 .. Len(l) |-> IF i = 0 THEN 0 ELSE p[i - 1] + RecordWords(l[i])]
  <2>1. \A i \in 0 .. Len(l) : p[i] = IF i = 0 THEN 0 ELSE p[i - 1] + RecordWords(l[i])
    <3>1. \A i \in 0 .. Len(l) : i = 0 \/ i \in 1 .. Len(l)
      BY <1>1
    <3> QED BY <1>1, <3>1
  <2>2. p = [i \in 0 .. Len(l) |-> p[i]]
    BY <1>1
  <2> QED BY <2>1, <2>2
<1> DEFINE Sums(f) == f = [i \in 0 .. Len(l) |-> IF i = 0 THEN 0 ELSE f[i - 1] + RecordWords(l[i])]
<1>3. PICK w : w = CHOOSE f : Sums(f)
  OBVIOUS
<1>4. Sums(w)
  BY <1>2, <1>3
<1>5. /\ w[0] = 0 /\ \A i \in 1 .. Len(l) : w[i] = w[i - 1] + RecordWords(l[i])
  <2>1. \A i \in 0 .. Len(l) : w[i] = IF i = 0 THEN 0 ELSE w[i - 1] + RecordWords(l[i])
    BY <1>4
  <2>2. 0 \in 0 .. Len(l) /\ \A i \in 1 .. Len(l) : i \in 0 .. Len(l) /\ i # 0
    BY <1>1
  <2> QED BY <2>1, <2>2
<1>6. \A i \in 0 .. Len(l) : w[i] = p[i]
  <2> DEFINE P == {i \in 0 .. Len(l) : w[i] = p[i]}
  <2>1. 0 \in P
    BY <1>1, <1>5
  <2>2. \A i \in 1 .. Len(l) : i - 1 \in P => i \in P
    BY <1>1, <1>5
  <2> HIDE DEF P
  <2>3. 0 .. Len(l) \subseteq P
    BY <1>1, <2>1, <2>2, UpTo
  <2> QED BY <2>3 DEF P
<1>7. w[Len(l)] = end
  BY <1>1, <1>6
<1>8. Promise!WordsIn(l) = w[Len(l)]
  BY <1>3 DEF Promise!WordsIn
<1> QED BY <1>7, <1>8

\* No records, no words.
LEMMA NoneSpelt ==
  ASSUME RecordsAssumption, NEW a
  PROVE  Spells(a, 0, <<>>, [i \in 0 .. 0 |-> 0])
<1>1. <<>> \in Seq(Recs) /\ AreaWords \in Nat
  BY DEF RecordsAssumption
<1>2. PICK p : p = [i \in 0 .. 0 |-> 0]
  OBVIOUS
<1>3. PICK l : l = <<>> /\ Len(l) = 0
  OBVIOUS
<1>4. Spells(a, 0, l, p)
  BY <1>1, <1>2, <1>3 DEF Spells
<1> QED BY <1>2, <1>3, <1>4

\* Words past the records may change.
LEMMA SpellsStill ==
  ASSUME RecordsAssumption, NEW a, NEW b, NEW end, NEW l, NEW p, Spells(a, end, l, p),
         \A i \in 0 .. end - 1 : b[i] = a[i]
  PROVE  Spells(b, end, l, p)
<1>1. /\ l \in Seq(Recs) /\ Len(l) \in Nat
      /\ p \in [0 .. Len(l) -> 0 .. AreaWords] /\ p[Len(l)] = end
      /\ \A i, j \in 0 .. Len(l) : i < j => p[i] < p[j]
  BY DEF Spells
<1>2. ASSUME NEW i \in 1 .. Len(l) PROVE LaidAt(b, p[i - 1], l[i])
  <2>1. /\ p[i] = p[i - 1] + RecordWords(l[i]) /\ LaidAt(a, p[i - 1], l[i])
        /\ RecordWords(l[i]) \in Nat /\ i \in 0 .. Len(l) /\ i - 1 \in 0 .. Len(l) /\ Len(l) \in 0 .. Len(l)
    BY <1>1, RecordSizes DEF Spells
  <2>2. p[i - 1] \in Nat /\ p[i] <= end
    BY <1>1, <2>1
  <2>3. ASSUME NEW j \in 0 .. RecordWords(l[i]) - 1 PROVE b[p[i - 1] + j] = [rec |-> l[i], k |-> j]
    <3>1. p[i - 1] + j \in 0 .. end - 1
      BY <1>1, <2>1, <2>2
    <3> QED BY <2>1, <3>1 DEF LaidAt
  <2> QED BY <2>3 DEF LaidAt
<1> QED BY <1>2 DEF Spells

\* A record written past the records is the next of them, and disturbs none.
LaidOver(a, rec, at) ==
  [i \in DOMAIN a |->
    IF i \in at .. at + RecordWords(rec) - 1 THEN [rec |-> rec, k |-> i - at] ELSE a[i]]

Ends(l, p, end) == [i \in 0 .. Len(l) + 1 |-> IF i <= Len(l) THEN p[i] ELSE end]

LEMMA LaysNext ==
  ASSUME RecordsAssumption, NEW a, NEW end \in 0 .. AreaWords, NEW l, NEW p, Spells(a, end, l, p),
         DOMAIN a = 0 .. AreaWords - 1,
         NEW rec \in Recs, end + RecordWords(rec) <= AreaWords
  PROVE  /\ Spells(LaidOver(a, rec, end), end, l, p)
         /\ Spells(LaidOver(a, rec, end), end + RecordWords(rec), Append(l, rec),
                   Ends(l, p, end + RecordWords(rec)))
<1>0. RecordWords(rec) \in Nat /\ RecordWords(rec) >= 2 /\ AreaWords \in Nat /\ end \in Nat
  BY RecordSizes
<1>1. PICK b : b = LaidOver(a, rec, end)
  OBVIOUS
<1>2. \A i \in 0 .. end - 1 : b[i] = a[i]
  BY <1>0, <1>1 DEF LaidOver
<1>3. Spells(b, end, l, p)
  BY <1>2, SpellsStill
<1>4. LaidAt(b, end, rec)
  <2>1. ASSUME NEW j \in 0 .. RecordWords(rec) - 1 PROVE b[end + j] = [rec |-> rec, k |-> j]
    <3>1. /\ end + j \in 0 .. AreaWords - 1 /\ end + j \in end .. end + RecordWords(rec) - 1
          /\ (end + j) - end = j
      BY <1>0
    <3> QED BY <3>1, <1>1 DEF LaidOver
  <2> QED BY <2>1 DEF LaidAt
<1>5. PICK m : m = Append(l, rec)
  OBVIOUS
<1>6. /\ l \in Seq(Recs) /\ Len(l) \in Nat /\ m \in Seq(Recs) /\ Len(m) = Len(l) + 1
      /\ m[Len(l) + 1] = rec /\ \A i \in 1 .. Len(l) : m[i] = l[i]
  BY <1>5 DEF Spells
<1>7. PICK q : q = Ends(l, p, end + RecordWords(rec))
  OBVIOUS
<1>8. /\ p \in [0 .. Len(l) -> 0 .. AreaWords] /\ p[0] = 0 /\ p[Len(l)] = end
      /\ \A i, j \in 0 .. Len(l) : i < j => p[i] < p[j]
  BY DEF Spells
<1>9. /\ q = [i \in 0 .. Len(m) |-> IF i <= Len(l) THEN p[i] ELSE end + RecordWords(rec)]
      /\ \A i \in 0 .. Len(l) : q[i] = p[i]
      /\ q[Len(l) + 1] = end + RecordWords(rec)
      /\ \A i \in 0 .. Len(m) : i \in 0 .. Len(l) \/ i = Len(l) + 1
  BY <1>6, <1>7 DEF Ends
<1>10. q \in [0 .. Len(m) -> 0 .. AreaWords] /\ q[0] = 0 /\ q[Len(m)] = end + RecordWords(rec)
  BY <1>0, <1>6, <1>8, <1>9
<1>11. ASSUME NEW i \in 0 .. Len(m), NEW j \in 0 .. Len(m), i < j PROVE q[i] < q[j]
  <2>1. i \in 0 .. Len(l)
    BY <1>6, <1>11
  <2>2. CASE j \in 0 .. Len(l)
    BY <2>1, <2>2, <1>8, <1>9, <1>11
  <2>3. CASE j = Len(l) + 1
    <3>1. p[i] <= end /\ p[i] \in Nat
      <4>1. CASE i = Len(l)
        BY <4>1, <1>0, <1>8
      <4>2. CASE i < Len(l)
        <5>1. Len(l) \in 0 .. Len(l)
          BY <1>6
        <5> QED BY <2>1, <4>2, <5>1, <1>8
      <4> QED BY <2>1, <4>1, <4>2, <1>6
    <3> QED BY <2>1, <2>3, <3>1, <1>0, <1>9
  <2> QED BY <2>2, <2>3, <1>9
<1>12. ASSUME NEW i \in 1 .. Len(m)
       PROVE  q[i] = q[i - 1] + RecordWords(m[i]) /\ LaidAt(b, q[i - 1], m[i])
  <2>1. CASE i \in 1 .. Len(l)
    <3>1. i \in 0 .. Len(l) /\ i - 1 \in 0 .. Len(l)
      BY <1>6, <2>1
    <3>2. p[i] = p[i - 1] + RecordWords(l[i]) /\ LaidAt(b, p[i - 1], l[i])
      BY <1>3, <2>1 DEF Spells
    <3> QED BY <2>1, <3>1, <3>2, <1>6, <1>9
  <2>2. CASE i = Len(l) + 1
    <3>1. i - 1 = Len(l) /\ Len(l) \in 0 .. Len(l)
      BY <1>6, <2>2
    <3> QED BY <2>2, <3>1, <1>4, <1>6, <1>8, <1>9
  <2> QED BY <2>1, <2>2, <1>6
<1>13. Spells(b, end + RecordWords(rec), m, q)
  BY <1>6, <1>10, <1>11, <1>12 DEF Spells
<1> QED BY <1>1, <1>3, <1>5, <1>7, <1>13

\* The records up to where one of them ends.
PartSpelt(a, l, p, n) ==
  /\ Spells(a, p[n], SubSeq(l, 1, n), [i \in 0 .. n |-> p[i]])
  /\ RecsIn(a, p[n]) = SubSeq(l, 1, n) /\ Len(SubSeq(l, 1, n)) = n

LEMMA SpellsPart ==
  ASSUME RecordsAssumption, NEW a, NEW end, NEW l, NEW p, Spells(a, end, l, p), NEW n \in 0 .. Len(l)
  PROVE  PartSpelt(a, l, p, n)
<1>1. /\ l \in Seq(Recs) /\ Len(l) \in Nat
      /\ p \in [0 .. Len(l) -> 0 .. AreaWords] /\ p[0] = 0
      /\ \A i, j \in 0 .. Len(l) : i < j => p[i] < p[j]
      /\ \A i \in 1 .. Len(l) : p[i] = p[i - 1] + RecordWords(l[i]) /\ LaidAt(a, p[i - 1], l[i])
  BY DEF Spells
<1>2. PICK m : m = SubSeq(l, 1, n)
  OBVIOUS
<1>3. n \in Nat /\ n \in Int /\ 1 \in Int /\ \A i \in 1 .. n : l[i] \in Recs
  BY <1>1
<1>4. /\ m \in Seq(Recs) /\ Len(m) = IF 1 <= n THEN n - 1 + 1 ELSE 0
      /\ \A i \in 1 .. n - 1 + 1 : m[i] = l[1 + i - 1]
  BY <1>2, <1>3, SubSeqProperties
<1>5. Len(m) = n /\ \A i \in 1 .. n : m[i] = l[i]
  BY <1>3, <1>4
<1>6. PICK q : q = [i \in 0 .. n |-> p[i]]
  OBVIOUS
<1>7. /\ q \in [0 .. n -> 0 .. AreaWords] /\ q[0] = 0 /\ q[n] = p[n]
      /\ \A i \in 0 .. n : q[i] = p[i] /\ i \in 0 .. Len(l)
  <2>1. \A i \in 0 .. n : i \in 0 .. Len(l)
    BY <1>1
  <2>2. \A i \in 0 .. n : q[i] = p[i] /\ p[i] \in 0 .. AreaWords
    BY <1>1, <1>6, <2>1
  <2>3. 0 \in 0 .. n /\ n \in 0 .. n
    BY <1>3
  <2>4. q \in [0 .. n -> 0 .. AreaWords]
    BY <1>6, <2>2
  <2> QED BY <1>1, <2>1, <2>2, <2>3, <2>4
<1>8. \A i, j \in 0 .. n : i < j => q[i] < q[j]
  BY <1>1, <1>7
<1>9. ASSUME NEW i \in 1 .. n
      PROVE  q[i] = q[i - 1] + RecordWords(m[i]) /\ LaidAt(a, q[i - 1], m[i])
  <2>1. i \in 0 .. n /\ i - 1 \in 0 .. n /\ i \in 1 .. Len(l)
    BY <1>3
  <2> QED BY <2>1, <1>1, <1>5, <1>7
<1>10. Spells(a, p[n], m, q)
  BY <1>4, <1>5, <1>7, <1>8, <1>9 DEF Spells
<1>11. RecsIn(a, p[n]) = m
  BY <1>10, ReadsBack
<1> QED BY <1>2, <1>5, <1>6, <1>10, <1>11 DEF PartSpelt
-----------------------------------------------------------------------------
(***************************************************************************)
(* The inductive invariant: the words the turn recorded, and those it      *)
(* left, are whole records end to end; an open transaction began where one *)
(* of them ends; and the bytes a write among them names are kept.          *)
(***************************************************************************)
Named(l, bytes) ==
  \A i \in 1 .. Len(l) : l[i] \in Record /\ (l[i].write => l[i].name \in bytes)

Marked(m, l, p) ==
  m # Off => m.state \in {"open", "spilled"} /\ \E n \in 0 .. Len(l) : m.at = p[n]

Recording(a, n, m, bytes) ==
  \E l, p : Spells(a, n, l, p) /\ Marked(m, l, p) /\ Named(l, bytes)

LeftWhole(a, e, bytes) == \E l, p : Spells(a, e, l, p) /\ Named(l, bytes)

InGuest == phase = "guest" => Recording(area, len, mark, bytesHeld) /\ runs = 1
InHost ==
  phase \in {"left", "host"} =>
    /\ LeftWhole(area, endWord, bytesHeld)
    /\ len = 0 /\ mark = Off
    /\ runs = IF phase = "left" THEN 0 ELSE 1
InTrap ==
  phase = "trapped" => runs \in {0, 1} /\ (runs = 0 => RecsIn(area, endWord) = <<AbortRec>>)

RecordsInv == RecordsTypeOK /\ InGuest /\ InHost /\ InTrap

LEMMA RecordsStart == RecordsAssumption /\ RecordsInit => RecordsInv
<1> SUFFICES ASSUME RecordsAssumption, RecordsInit PROVE RecordsInv
  OBVIOUS
<1>0. AreaWords \in Nat
  BY DEF RecordsAssumption
<1>1. RecordsTypeOK
  <2>1. Zero \in AreaWord
    BY <1>0 DEF Zero, AreaWord
  <2>2. area \in [0 .. AreaWords - 1 -> AreaWord]
    BY <2>1 DEF RecordsInit
  <2>3. mark \in [state : {"off", "open", "spilled"}, at : 0 .. AreaWords]
    BY <1>0 DEF RecordsInit, Off
  <2> QED BY <1>0, <2>2, <2>3 DEF RecordsInit, RecordsTypeOK
<1>2. LeftWhole(area, 0, {})
  <2>1. \A i \in 1 .. Len(<<>>) : FALSE
    OBVIOUS
  <2>2. Named(<<>>, {})
    BY <2>1 DEF Named
  <2> QED BY <2>2, NoneSpelt DEF LeftWhole
<1> QED BY <1>1, <1>2 DEF RecordsInit, RecordsInv, InGuest, InHost, InTrap

LEMMA LaidWords ==
  ASSUME RecordsAssumption, NEW rec \in Recs, NEW at \in 0 .. AreaWords, RecordsTypeOK
  PROVE  Laid(rec, at) = LaidOver(area, rec, at) /\ Laid(rec, at) \in [0 .. AreaWords - 1 -> AreaWord]
<1>1. DOMAIN area = 0 .. AreaWords - 1 /\ AreaWords \in Nat
  BY DEF RecordsTypeOK, RecordsAssumption
<1>2. Laid(rec, at) = LaidOver(area, rec, at)
  BY DEF Laid, LaidOver
<1>3. ASSUME NEW i \in 0 .. AreaWords - 1
      PROVE  (IF i \in at .. at + RecordWords(rec) - 1 THEN [rec |-> rec, k |-> i - at] ELSE area[i]) \in AreaWord
  <2>1. CASE i \in at .. at + RecordWords(rec) - 1
    <3>1. i - at \in -1 .. AreaWords
      BY <1>1, <2>1
    <3> QED BY <2>1, <3>1 DEF AreaWord, Recs
  <2>2. CASE i \notin at .. at + RecordWords(rec) - 1
    BY <2>2 DEF RecordsTypeOK
  <2> QED BY <2>1, <2>2
<1> QED BY <1>1, <1>2, <1>3 DEF Laid

\* What the log is while the turn records.
LEMMA LogNow ==
  ASSUME RecordsAssumption, RecordsTypeOK, phase = "guest", NEW l, NEW p, Spells(area, len, l, p)
  PROVE  /\ TurnLog = l /\ Promise!Used = len /\ l \in Seq(Recs)
         /\ HostLog = <<>> /\ Stopped = FALSE
         /\ mark = Off => TurnFrom = -1
         /\ \A n \in 0 .. Len(l) : mark # Off /\ mark.at = p[n] => TurnFrom = n
<1>1. TurnLog = l
  BY ReadsBack DEF TurnLog, RecsTo
<1>2. Promise!Used = len
  BY <1>1, WordsEnd DEF Promise!Used
<1>3. ASSUME NEW n \in 0 .. Len(l), mark # Off, mark.at = p[n] PROVE TurnFrom = n
  <2>1. RecsIn(area, p[n]) = SubSeq(l, 1, n) /\ Len(SubSeq(l, 1, n)) = n
    <3>1. PartSpelt(area, l, p, n)
      BY SpellsPart
    <3> QED BY <3>1 DEF PartSpelt
  <2>2. Count(mark.at) = n
    BY <1>3, <2>1 DEF Count, RecsTo
  <2> QED BY <1>3, <2>2 DEF TurnFrom
<1> QED BY <1>1, <1>2, <1>3 DEF HostLog, Stopped, TurnFrom, Spells

LEMMA LogNext ==
  ASSUME RecordsAssumption, phase' = "guest", NEW l, NEW p, Spells(area, len, l, p)'
  PROVE  /\ TurnLog' = l /\ HostLog' = <<>> /\ Stopped' = FALSE
         /\ mark' = Off => TurnFrom' = -1
         /\ \A n \in 0 .. Len(l) : mark' # Off /\ mark'.at = p[n] => TurnFrom' = n
<1>0. Spells(area', len', l, p)
  OBVIOUS
<1>1. TurnLog' = l
  BY <1>0, ReadsBack DEF TurnLog, RecsTo
<1>3. ASSUME NEW n \in 0 .. Len(l), mark' # Off, mark'.at = p[n] PROVE TurnFrom' = n
  <2>1. RecsIn(area', p[n]) = SubSeq(l, 1, n) /\ Len(SubSeq(l, 1, n)) = n
    <3>1. PartSpelt(area', l, p, n)
      BY <1>0, SpellsPart
    <3> QED BY <3>1 DEF PartSpelt
  <2>2. Count(mark.at)' = n
    BY <1>3, <2>1 DEF Count, RecsTo
  <2> QED BY <1>3, <2>2 DEF TurnFrom
<1> QED BY <1>1, <1>3 DEF HostLog, Stopped, TurnFrom

LEMMA ReserveLogs ==
  ASSUME RecordsAssumption, RecordsInv, phase = "guest", NEW rec \in Record, Reserve(rec),
         UNCHANGED <<endWord, runs, phase, stream>>,
         bytesHeld \subseteq bytesHeld', bytesHeld' \subseteq Contents,
         rec.write => rec.name \in bytesHeld'
  PROVE  RecordsInv' /\ (Promise!Put(rec) \/ Promise!Refuse(rec))
<1>0. /\ RecordsTypeOK /\ AreaWords \in Nat /\ rec \in Recs
      /\ RecordWords(rec) \in Nat /\ RecordWords(rec) >= 2
      /\ len \in 0 .. AreaWords /\ DOMAIN area = 0 .. AreaWords - 1 /\ runs = 1
  BY RecordSizes DEF RecordsInv, RecordsTypeOK, Recs, InGuest
<1>1. PICK l, p : Spells(area, len, l, p) /\ Marked(mark, l, p) /\ Named(l, bytesHeld)
  BY DEF RecordsInv, InGuest, Recording
<1>2. /\ TurnLog = l /\ Promise!Used = len /\ l \in Seq(Recs) /\ Len(l) \in Nat
      /\ HostLog = <<>> /\ Stopped = FALSE
      /\ mark = Off => TurnFrom = -1
      /\ \A n \in 0 .. Len(l) : mark # Off /\ mark.at = p[n] => TurnFrom = n
  <2>1. Spells(area, len, l, p)
    BY <1>1
  <2>2. TurnLog = l /\ Promise!Used = len /\ l \in Seq(Recs)
    BY <1>0, <2>1, LogNow
  <2>3. HostLog = <<>> /\ Stopped = FALSE /\ (mark = Off => TurnFrom = -1)
    BY <1>0, <2>1, LogNow
  <2>4. \A n \in 0 .. Len(l) : mark # Off /\ mark.at = p[n] => TurnFrom = n
    BY <1>0, <2>1, LogNow
  <2> QED BY <2>2, <2>3, <2>4
<1>3. Named(l, bytesHeld')
  BY <1>1 DEF Named
<1>4. CASE Lay(rec)
  <2>1. /\ area' = LaidOver(area, rec, len) /\ len' = len + RecordWords(rec) /\ mark' = mark
        /\ len + RecordWords(rec) <= AreaWords /\ area' \in [0 .. AreaWords - 1 -> AreaWord]
    BY <1>0, <1>4, LaidWords DEF Lay, Left
  <2>2. PICK m, q : m = Append(l, rec) /\ q = Ends(l, p, len + RecordWords(rec))
    OBVIOUS
  <2>3. Spells(area', len', m, q)
    BY <1>0, <1>1, <2>1, <2>2, LaysNext
  <2>4. /\ Len(m) = Len(l) + 1 /\ m[Len(l) + 1] = rec /\ \A i \in 1 .. Len(l) : m[i] = l[i]
        /\ \A i \in 1 .. Len(m) : i \in 1 .. Len(l) \/ i = Len(l) + 1
    BY <1>0, <1>2, <2>2
  <2>5. Named(m, bytesHeld')
    BY <1>3, <2>4 DEF Named
  <2>6. \A n \in 0 .. Len(l) : q[n] = p[n] /\ n \in 0 .. Len(m)
    BY <1>2, <2>2, <2>4 DEF Ends
  <2>7. Marked(mark', m, q)
    BY <1>1, <2>1, <2>6 DEF Marked
  <2>8. RecordsTypeOK'
    BY <1>0, <2>1 DEF RecordsTypeOK
  <2>9. RecordsInv'
    BY <1>0, <2>3, <2>5, <2>7, <2>8 DEF RecordsInv, InGuest, InHost, InTrap, Recording
  <2>10. /\ TurnLog' = m /\ HostLog' = <<>> /\ Stopped' = FALSE
         /\ mark' = Off => TurnFrom' = -1
         /\ \A n \in 0 .. Len(m) : mark' # Off /\ mark'.at = q[n] => TurnFrom' = n
    BY <2>3, LogNext
  <2>11. TurnFrom' = TurnFrom
    <3>1. CASE mark = Off
      BY <1>2, <2>1, <2>10, <3>1
    <3>2. CASE mark # Off
      <4>1. PICK n \in 0 .. Len(l) : mark.at = p[n]
        BY <1>1, <3>2 DEF Marked
      <4> QED BY <1>2, <2>1, <2>6, <2>10, <3>2, <4>1
    <3> QED BY <3>1, <3>2
  <2>12. TurnLost = FALSE /\ TurnLost' = FALSE
    BY <2>1 DEF TurnLost, Reserve
  <2>13. Promise!Put(rec)
    BY <1>2, <2>1, <2>2, <2>10, <2>11, <2>12 DEF Promise!Put
  <2> QED BY <2>9, <2>13
<1>5. CASE Spill(rec)
  <2>1. /\ mark.state = "open" /\ RecordWords(rec) > AreaWords - len
        /\ mark' = [mark EXCEPT !.state = "spilled"] /\ area' = area /\ len' = len
    BY <1>5 DEF Spill, Left
  <2>2. mark \in [state : {"off", "open", "spilled"}, at : 0 .. AreaWords]
    BY <1>0 DEF RecordsTypeOK
  <2>3. mark # Off /\ mark' # Off /\ mark'.at = mark.at /\ mark'.state = "spilled"
        /\ mark' \in [state : {"off", "open", "spilled"}, at : 0 .. AreaWords]
    BY <2>1, <2>2 DEF Off
  <2>4. PICK n \in 0 .. Len(l) : mark.at = p[n]
    BY <1>1, <2>3 DEF Marked
  <2>5. Spells(area', len', l, p)
    BY <1>1, <2>1
  <2>6. Marked(mark', l, p)
    BY <2>3, <2>4 DEF Marked
  <2>7. RecordsTypeOK'
    BY <1>0, <2>1, <2>3 DEF RecordsTypeOK
  <2>8. RecordsInv'
    BY <1>0, <1>3, <2>5, <2>6, <2>7 DEF RecordsInv, InGuest, InHost, InTrap, Recording
  <2>9. /\ TurnLog' = l /\ HostLog' = <<>> /\ Stopped' = FALSE
        /\ \A k \in 0 .. Len(l) : mark' # Off /\ mark'.at = p[k] => TurnFrom' = k
    BY <2>5, LogNext
  <2>10. TurnFrom' = n /\ TurnFrom = n
    BY <1>2, <2>3, <2>4, <2>9
  <2>11. TurnLost' = TRUE
    BY <2>3 DEF TurnLost
  <2>12. len + RecordWords(rec) > AreaWords
    BY <1>0, <2>1
  <2>13. TurnFrom # -1 /\ Promise!Used + RecordWords(rec) > AreaWords
    BY <1>2, <2>10, <2>12
  <2>14. TurnLog' = TurnLog /\ TurnFrom' = TurnFrom /\ HostLog' = HostLog /\ Stopped' = Stopped
    BY <1>2, <2>9, <2>10
  <2>15. Promise!Refuse(rec)
    BY <2>11, <2>13, <2>14 DEF Promise!Refuse
  <2> QED BY <2>8, <2>15
<1> QED BY <1>4, <1>5 DEF Reserve

\* The log stands where the records do.
LogStill == UNCHANGED <<TurnLog, TurnFrom, TurnLost, HostLog, Stopped>>

LEMMA TurnStill ==
  ASSUME RecordsAssumption, RecordsTypeOK, phase = "guest", phase' = "guest", mark' = mark,
         NEW l, NEW p, Spells(area, len, l, p), Spells(area', len', l, p), Marked(mark, l, p)
  PROVE  LogStill
<1>1. /\ TurnLog = l /\ HostLog = <<>> /\ Stopped = FALSE
      /\ mark = Off => TurnFrom = -1
      /\ \A n \in 0 .. Len(l) : mark # Off /\ mark.at = p[n] => TurnFrom = n
  BY LogNow
<1>2. /\ TurnLog' = l /\ HostLog' = <<>> /\ Stopped' = FALSE
      /\ mark' = Off => TurnFrom' = -1
      /\ \A n \in 0 .. Len(l) : mark' # Off /\ mark'.at = p[n] => TurnFrom' = n
  BY LogNext
<1>3. TurnFrom' = TurnFrom
  <2>1. CASE mark = Off
    BY <1>1, <1>2, <2>1
  <2>2. CASE mark # Off
    <3>1. PICK n \in 0 .. Len(l) : mark.at = p[n]
      BY <2>2 DEF Marked
    <3> QED BY <1>1, <1>2, <2>2, <3>1
  <2> QED BY <2>1, <2>2
<1>4. TurnLost' = TurnLost
  BY DEF TurnLost
<1> QED BY <1>1, <1>2, <1>3, <1>4 DEF LogStill

LEMMA CallNowLogs ==
  ASSUME RecordsAssumption, RecordsInv, NEW rec \in Record, CallNow(rec)
  PROVE  RecordsInv' /\ LogStill
<1>0. /\ RecordsTypeOK /\ AreaWords \in Nat /\ rec \in Recs /\ phase = "guest" /\ phase' = "guest"
      /\ RecordWords(rec) \in Nat /\ RecordWords(rec) >= 2
      /\ len \in 0 .. AreaWords /\ DOMAIN area = 0 .. AreaWords - 1 /\ runs = 1
  BY RecordSizes DEF RecordsInv, RecordsTypeOK, Recs, InGuest, CallNow, InTurn
<1>1. PICK l, p : Spells(area, len, l, p) /\ Marked(mark, l, p) /\ Named(l, bytesHeld)
  BY <1>0 DEF RecordsInv, InGuest, Recording
<1>2. /\ area' = LaidOver(area, rec, len) /\ area' \in [0 .. AreaWords - 1 -> AreaWord]
      /\ len + RecordWords(rec) <= AreaWords
      /\ UNCHANGED <<len, mark, endWord, bytesHeld, runs, stream>>
  BY <1>0, LaidWords DEF CallNow, Past, Left
<1>3. Spells(area', len', l, p)
  BY <1>0, <1>1, <1>2, LaysNext
<1>4. RecordsTypeOK'
  BY <1>0, <1>2 DEF RecordsTypeOK
<1>5. RecordsInv'
  BY <1>0, <1>1, <1>2, <1>3, <1>4 DEF RecordsInv, InGuest, InHost, InTrap, Recording
<1>6. LogStill
  BY <1>0, <1>1, <1>2, <1>3, TurnStill
<1> QED BY <1>5, <1>6

LEMMA BeginLogs ==
  ASSUME RecordsAssumption, RecordsInv, BeginTransaction
  PROVE  RecordsInv' /\ Promise!Open /\ Stopped = FALSE
<1>0. /\ RecordsTypeOK /\ phase = "guest" /\ phase' = "guest" /\ runs = 1 /\ mark = Off
      /\ mark' = [state |-> "open", at |-> len] /\ len \in 0 .. AreaWords
      /\ UNCHANGED <<area, endWord, len, bytesHeld, runs, stream>>
  BY DEF RecordsInv, RecordsTypeOK, InGuest, BeginTransaction, InTurn
<1>1. PICK l, p : Spells(area, len, l, p) /\ Named(l, bytesHeld)
  BY <1>0 DEF RecordsInv, InGuest, Recording
<1>2. p[Len(l)] = len /\ Len(l) \in 0 .. Len(l)
  BY <1>1 DEF Spells
<1>3. mark' # Off /\ mark'.at = p[Len(l)] /\ mark'.state = "open"
  BY <1>0, <1>2 DEF Off
<1>4. Spells(area', len', l, p)
  BY <1>0, <1>1
<1>5. Marked(mark', l, p)
  BY <1>2, <1>3 DEF Marked
<1>6. RecordsTypeOK'
  BY <1>0 DEF RecordsTypeOK
<1>7. RecordsInv'
  BY <1>0, <1>1, <1>4, <1>5, <1>6 DEF RecordsInv, InGuest, InHost, InTrap, Recording
<1>8. /\ TurnLog = l /\ HostLog = <<>> /\ Stopped = FALSE /\ TurnFrom = -1
  BY <1>0, <1>1, LogNow
<1>9. /\ TurnLog' = l /\ HostLog' = <<>> /\ Stopped' = FALSE
      /\ \A n \in 0 .. Len(l) : mark' # Off /\ mark'.at = p[n] => TurnFrom' = n
  BY <1>0, <1>4, LogNext
<1>10. TurnFrom' = Len(l)
  BY <1>2, <1>3, <1>9
<1>11. TurnLost = FALSE /\ TurnLost' = FALSE
  BY <1>0, <1>3 DEF TurnLost, Off
<1>12. Promise!Open
  BY <1>8, <1>9, <1>10, <1>11 DEF Promise!Open
<1> QED BY <1>7, <1>8, <1>12

LEMMA CommitLogs ==
  ASSUME RecordsAssumption, RecordsInv, CommitTransaction
  PROVE  RecordsInv' /\ (Promise!Keep \/ Promise!Drop) /\ Stopped = FALSE
<1>0. /\ RecordsTypeOK /\ phase = "guest" /\ phase' = "guest" /\ runs = 1 /\ mark # Off
      /\ mark' = Off /\ len' = Rewound /\ AreaWords \in Nat
      /\ mark \in [state : {"off", "open", "spilled"}, at : 0 .. AreaWords]
      /\ len \in 0 .. AreaWords /\ UNCHANGED <<area, endWord, bytesHeld, runs, stream>>
  BY DEF RecordsAssumption, RecordsInv, RecordsTypeOK, InGuest, CommitTransaction, InTurn
<1>1. PICK l, p : Spells(area, len, l, p) /\ Marked(mark, l, p) /\ Named(l, bytesHeld)
  BY <1>0 DEF RecordsInv, InGuest, Recording
<1>2. PICK n \in 0 .. Len(l) : mark.at = p[n]
  BY <1>0, <1>1 DEF Marked
<1>3. l \in Seq(Recs) /\ Len(l) \in Nat /\ n \in Nat /\ n # -1
  BY <1>1 DEF Spells
<1>4. /\ TurnLog = l /\ HostLog = <<>> /\ Stopped = FALSE
      /\ \A i \in 0 .. Len(l) : mark # Off /\ mark.at = p[i] => TurnFrom = i
  BY <1>0, <1>1, LogNow
<1>5. TurnFrom = n
  BY <1>0, <1>2, <1>4
<1>6. TurnLost' = FALSE
  BY <1>0 DEF TurnLost, Off
<1>7. mark.at \in 0 .. AreaWords /\ mark' \in [state : {"off", "open", "spilled"}, at : 0 .. AreaWords]
  BY <1>0 DEF Off
<1>8. RecordsTypeOK'
  BY <1>0, <1>7 DEF RecordsTypeOK, Rewound
<1>9. CASE mark.state = "spilled"
  <2>1. PICK m, q : m = SubSeq(l, 1, n) /\ q = [i \in 0 .. n |-> p[i]]
    OBVIOUS
  <2>2. PartSpelt(area, l, p, n)
    BY <1>1, SpellsPart
  <2>3. Spells(area', len', m, q)
    BY <1>0, <1>2, <1>9, <2>1, <2>2 DEF PartSpelt, Rewound
  <2>4. Len(m) = n /\ \A i \in 1 .. n : m[i] = l[i]
    <3>1. Len(m) = n
      BY <2>1, <2>2 DEF PartSpelt
    <3>2. \A i \in 1 .. n : l[i] \in Recs
      BY <1>3
    <3>3. \A i \in 1 .. n - 1 + 1 : m[i] = l[1 + i - 1]
      BY <1>3, <2>1, <3>2, SubSeqProperties
    <3> QED BY <1>3, <3>1, <3>3
  <2>5. Named(m, bytesHeld')
    BY <1>0, <1>1, <1>3, <2>4 DEF Named
  <2>6. Marked(mark', m, q)
    BY <1>0 DEF Marked
  <2>7. RecordsInv'
    BY <1>0, <1>8, <2>3, <2>5, <2>6 DEF RecordsInv, InGuest, InHost, InTrap, Recording
  <2>8. TurnLog' = m /\ HostLog' = <<>> /\ Stopped' = FALSE /\ TurnFrom' = -1
    BY <1>0, <2>3, LogNext
  <2>9. TurnLost = TRUE
    BY <1>0, <1>9 DEF TurnLost
  <2>10. Promise!Drop
    BY <1>4, <1>5, <1>6, <2>1, <2>8, <2>9 DEF Promise!Drop
  <2> QED BY <1>4, <2>7, <2>10
<1>10. CASE mark.state # "spilled"
  <2>1. Spells(area', len', l, p)
    BY <1>0, <1>1, <1>10 DEF Rewound
  <2>2. Marked(mark', l, p)
    BY <1>0 DEF Marked
  <2>3. RecordsInv'
    BY <1>0, <1>1, <1>8, <2>1, <2>2 DEF RecordsInv, InGuest, InHost, InTrap, Recording
  <2>4. TurnLog' = l /\ HostLog' = <<>> /\ Stopped' = FALSE /\ TurnFrom' = -1
    BY <1>0, <2>1, LogNext
  <2>5. TurnLost = FALSE
    BY <1>10 DEF TurnLost
  <2>6. Promise!Keep
    BY <1>3, <1>4, <1>5, <1>6, <2>4, <2>5 DEF Promise!Keep
  <2> QED BY <1>4, <2>3, <2>6
<1> QED BY <1>9, <1>10

LEMMA FallLogs ==
  ASSUME RecordsAssumption, RecordsInv, RecordsFall
  PROVE  RecordsInv' /\ Promise!Hand /\ Stopped = FALSE
<1>0. /\ RecordsTypeOK /\ phase = "guest" /\ phase' = "left" /\ mark = Off /\ AreaWords \in Nat
      /\ len \in 0 .. AreaWords /\ endWord' = len /\ len' = 0 /\ runs' = 0
      /\ UNCHANGED <<area, mark, bytesHeld, stream>>
  BY DEF RecordsAssumption, RecordsInv, RecordsTypeOK, InGuest, RecordsFall, PublishEnd, InTurn
<1>1. PICK l, p : Spells(area, len, l, p) /\ Named(l, bytesHeld)
  BY <1>0 DEF RecordsInv, InGuest, Recording
<1>2. RecordsTypeOK'
  BY <1>0 DEF RecordsTypeOK
<1>3. LeftWhole(area, len, bytesHeld)
  BY <1>1 DEF LeftWhole
<1>4. RecordsInv'
  BY <1>0, <1>2, <1>3 DEF RecordsInv, InGuest, InHost, InTrap
<1>5. TurnLog = l /\ Stopped = FALSE /\ TurnFrom = -1
  BY <1>0, <1>1, LogNow
<1>6. RecsIn(area, len) = l
  BY <1>1, ReadsBack
<1>7. TurnLog' = <<>> /\ TurnFrom' = -1 /\ HostLog' = l /\ Stopped' = FALSE
  BY <1>0, <1>6 DEF TurnLog, TurnFrom, HostLog, Stopped, RecsTo
<1>8. TurnLost = FALSE /\ TurnLost' = FALSE
  BY <1>0 DEF TurnLost, Off
<1>9. Promise!Hand
  BY <1>5, <1>7, <1>8 DEF Promise!Hand
<1> QED BY <1>4, <1>5, <1>9

LEMMA RiseLogs ==
  ASSUME RecordsAssumption, RecordsInv, RecordsRise
  PROVE  RecordsInv' /\ Promise!Rise /\ Stopped = FALSE
<1>0. /\ RecordsTypeOK /\ phase = "host" /\ phase' = "guest" /\ bytesHeld' = {}
      /\ len = 0 /\ mark = Off /\ runs = 1
      /\ UNCHANGED <<area, endWord, len, mark, runs, stream>>
  BY DEF RecordsInv, InHost, RecordsRise
<1>1. RecordsTypeOK'
  BY <1>0 DEF RecordsTypeOK
<1>2. PICK l, p : l = <<>> /\ p = [i \in 0 .. 0 |-> 0]
  OBVIOUS
<1>3. Spells(area', len', l, p)
  BY <1>0, <1>2, NoneSpelt
<1>4. Marked(mark', l, p)
  BY <1>0 DEF Marked
<1>5. Named(l, {})
  <2>1. \A i \in 1 .. Len(<<>>) : FALSE
    OBVIOUS
  <2> QED BY <1>2, <2>1 DEF Named
<1>6. RecordsInv'
  BY <1>0, <1>1, <1>3, <1>4, <1>5 DEF RecordsInv, InGuest, InHost, InTrap, Recording
<1>7. TurnLog' = <<>> /\ HostLog' = <<>> /\ Stopped' = FALSE /\ TurnFrom' = -1
  BY <1>0, <1>2, <1>3, LogNext
<1>8. TurnLog = <<>> /\ TurnFrom = -1 /\ Stopped = FALSE
  BY <1>0 DEF TurnLog, TurnFrom, Stopped
<1>9. TurnLost = FALSE /\ TurnLost' = FALSE
  BY <1>0 DEF TurnLost, Off
<1>10. Promise!Rise
  BY <1>7, <1>8, <1>9 DEF Promise!Rise
<1> QED BY <1>6, <1>8, <1>10

LEMMA AbortLogs ==
  ASSUME RecordsAssumption, RecordsInv, Abort
  PROVE  RecordsInv' /\ Promise!Stop /\ Stopped = FALSE
<1>0. /\ RecordsTypeOK /\ phase = "guest" /\ phase' = "trapped" /\ runs' = 0
      /\ area' = Laid(AbortRec, 0) /\ endWord' = RecordWords(AbortRec) /\ len' = 0
      /\ UNCHANGED <<mark, bytesHeld, stream>>
  BY DEF RecordsInv, Abort, PublishEnd, InTurn
<1>1. /\ AbortRec \in Recs /\ RecordWords(AbortRec) \in Nat /\ RecordWords(AbortRec) <= AreaWords
      /\ AreaWords \in Nat /\ 0 \in 0 .. AreaWords /\ DOMAIN area = 0 .. AreaWords - 1
  BY <1>0, RecordSizes DEF RecordsTypeOK
<1>2. area' = LaidOver(area, AbortRec, 0) /\ area' \in [0 .. AreaWords - 1 -> AreaWord]
  BY <1>0, <1>1, LaidWords
<1>3. RecordsTypeOK'
  BY <1>0, <1>1, <1>2 DEF RecordsTypeOK
<1>4. PICK end, l, p : end = 0 /\ l = <<>> /\ Spells(area, end, l, p)
  BY NoneSpelt
<1>5. /\ end \in 0 .. AreaWords /\ end + RecordWords(AbortRec) = RecordWords(AbortRec)
      /\ Append(l, AbortRec) = <<AbortRec>>
  BY <1>1, <1>4
<1>6. end + RecordWords(AbortRec) <= AreaWords /\ Spells(area, end, l, p)
  BY <1>1, <1>4, <1>5
<1>7. Spells(LaidOver(area, AbortRec, end), end + RecordWords(AbortRec), Append(l, AbortRec),
              Ends(l, p, end + RecordWords(AbortRec)))
  BY <1>1, <1>5, <1>6, LaysNext
<1>8. RecsIn(area', endWord') = <<AbortRec>>
  BY <1>0, <1>2, <1>4, <1>5, <1>7, ReadsBack
<1>9. RecordsInv'
  BY <1>0, <1>3, <1>8 DEF RecordsInv, InGuest, InHost, InTrap
<1>10. TurnLog' = <<>> /\ TurnFrom' = -1 /\ TurnLost' = FALSE /\ HostLog' = <<>> /\ Stopped' = TRUE
  BY <1>0 DEF TurnLog, TurnFrom, TurnLost, HostLog, Stopped
<1>11. Promise!Stop
  BY <1>10 DEF Promise!Stop
<1> QED BY <1>0, <1>9, <1>11 DEF Stopped

LEMMA TrapLogs ==
  ASSUME RecordsInv, Trap
  PROVE  RecordsInv' /\ Promise!Stop /\ Stopped = FALSE
<1>0. /\ RecordsTypeOK /\ phase = "guest" /\ phase' = "trapped" /\ runs = 1
      /\ UNCHANGED <<area, endWord, len, mark, bytesHeld, runs, stream>>
  BY DEF RecordsInv, InGuest, Trap, InTurn
<1>1. RecordsTypeOK'
  BY <1>0 DEF RecordsTypeOK
<1>2. RecordsInv'
  BY <1>0, <1>1 DEF RecordsInv, InGuest, InHost, InTrap
<1>3. TurnLog' = <<>> /\ TurnFrom' = -1 /\ TurnLost' = FALSE /\ HostLog' = <<>> /\ Stopped' = TRUE
  BY <1>0 DEF TurnLog, TurnFrom, TurnLost, HostLog, Stopped
<1>4. Promise!Stop
  BY <1>3 DEF Promise!Stop
<1> QED BY <1>0, <1>2, <1>4 DEF Stopped

LEMMA RunLogs ==
  ASSUME RecordsInv, RunRecords
  PROVE  RecordsInv' /\ LogStill
<1>0. /\ RecordsTypeOK /\ phase \in {"left", "trapped"} /\ runs' = runs + 1 /\ runs \in {0, 1}
      /\ phase' = IF phase = "left" THEN "host" ELSE "stopped"
      /\ UNCHANGED <<area, endWord, len, mark, bytesHeld, stream>>
  BY DEF RecordsInv, InHost, InTrap, RunRecords
<1>1. RecordsTypeOK'
  BY <1>0 DEF RecordsTypeOK
<1>2. RecordsInv'
  BY <1>0, <1>1 DEF RecordsInv, InGuest, InHost, InTrap
<1>3. TurnLog' = TurnLog /\ TurnFrom' = TurnFrom /\ HostLog' = HostLog
  BY <1>0 DEF TurnLog, TurnFrom, HostLog, RecsTo
<1>4. TurnLost' = TurnLost /\ Stopped' = Stopped
  BY <1>0 DEF TurnLost, Stopped
<1> QED BY <1>2, <1>3, <1>4 DEF LogStill

LogVars == <<TurnLog, TurnFrom, TurnLost, HostLog, Stopped>>

\* A record is put, and the turn's log takes it or refuses it.
LEMMA PutLogs ==
  ASSUME RecordsAssumption, RecordsInv, NEW rec \in Record, Put(rec) \/ Write(rec)
  PROVE  RecordsInv' /\ (Promise!Put(rec) \/ Promise!Refuse(rec)) /\ Stopped = FALSE
<1>0. phase = "guest" /\ Reserve(rec) /\ UNCHANGED <<endWord, runs, phase, stream>>
  BY DEF Put, Write, InTurn
<1>1. bytesHeld \subseteq Contents /\ rec.name \in Contents /\ Stopped = FALSE
  BY <1>0 DEF RecordsInv, RecordsTypeOK, Record, Stopped
<1>2. /\ bytesHeld \subseteq bytesHeld' /\ bytesHeld' \subseteq Contents
      /\ rec.write => rec.name \in bytesHeld'
  BY <1>1 DEF Put, Write
<1> QED BY <1>0, <1>1, <1>2, ReserveLogs

LEMMA RecordsStep ==
  ASSUME RecordsAssumption, RecordsInv, [RecordsNext]_recordsVars
  PROVE  RecordsInv' /\ [Promise!Next]_LogVars
<1>1. ASSUME NEW rec \in Record, Put(rec) \/ Write(rec) PROVE RecordsInv' /\ [Promise!Next]_LogVars
  <2>1. RecordsInv' /\ (Promise!Put(rec) \/ Promise!Refuse(rec)) /\ Stopped = FALSE
    BY <1>1, PutLogs
  <2> QED BY <2>1 DEF Promise!Next
<1>2. ASSUME NEW rec \in Record, CallNow(rec) PROVE RecordsInv' /\ [Promise!Next]_LogVars
  BY <1>2, CallNowLogs DEF LogStill, LogVars
<1>3. ASSUME NEW rec \in Record, NEW leave \in Leaves, TryCall(rec, leave)
      PROVE  RecordsInv' /\ [Promise!Next]_LogVars
  BY <1>1, <1>3 DEF TryCall
<1>4. ASSUME BeginTransaction PROVE RecordsInv' /\ [Promise!Next]_LogVars
  BY <1>4, BeginLogs DEF Promise!Next
<1>5. ASSUME CommitTransaction PROVE RecordsInv' /\ [Promise!Next]_LogVars
  BY <1>5, CommitLogs DEF Promise!Next
<1>6. ASSUME RecordsFall PROVE RecordsInv' /\ [Promise!Next]_LogVars
  BY <1>6, FallLogs DEF Promise!Next
<1>7. ASSUME RecordsRise PROVE RecordsInv' /\ [Promise!Next]_LogVars
  BY <1>7, RiseLogs DEF Promise!Next
<1>8. ASSUME Abort PROVE RecordsInv' /\ [Promise!Next]_LogVars
  BY <1>8, AbortLogs DEF Promise!Next
<1>9. ASSUME Trap PROVE RecordsInv' /\ [Promise!Next]_LogVars
  BY <1>9, TrapLogs DEF Promise!Next
<1>10. ASSUME RunRecords PROVE RecordsInv' /\ [Promise!Next]_LogVars
  BY <1>10, RunLogs DEF LogStill, LogVars
<1>11. ASSUME UNCHANGED recordsVars PROVE RecordsInv' /\ [Promise!Next]_LogVars
  <2>1. UNCHANGED <<area, endWord, len, mark, bytesHeld, runs, phase, stream>>
    BY <1>11 DEF recordsVars
  <2>2. RecordsInv'
    BY <2>1 DEF RecordsInv, RecordsTypeOK, InGuest, InHost, InTrap
  <2>3. UNCHANGED LogVars
    BY <2>1 DEF LogVars, TurnLog, TurnFrom, TurnLost, HostLog, Stopped, Count, RecsTo
  <2> QED BY <2>2, <2>3
<1> QED BY <1>1, <1>2, <1>3, <1>4, <1>5, <1>6, <1>7, <1>8, <1>9, <1>10, <1>11 DEF RecordsNext

\* What the bytes and the abort promise, from the invariant.
LEMMA WholeTurns ==
  ASSUME RecordsAssumption, RecordsInv
  PROVE  WriteBytesStand /\ AbortAlone
<1>1. ASSUME phase = "left", NEW rec \in RecsOf(RecsTo(endWord)), rec.write
      PROVE  rec.name \in bytesHeld
  <2>1. PICK l, p : Spells(area, endWord, l, p) /\ Named(l, bytesHeld)
    BY <1>1 DEF RecordsInv, InHost, LeftWhole
  <2>2. RecsTo(endWord) = l /\ DOMAIN l = 1 .. Len(l)
    BY <2>1, ReadsBack DEF RecsTo, Spells
  <2>3. PICK i \in 1 .. Len(l) : rec = l[i]
    BY <2>2 DEF RecsOf
  <2> QED BY <1>1, <2>1, <2>3 DEF Named
<1>2. AbortAlone
  BY DEF AbortAlone, RecordsInv, InTrap, RecsTo
<1> QED BY <1>1, <1>2 DEF WriteBytesStand

LEMMA LogStart == RecordsAssumption /\ RecordsInit => Promise!Init
<1> SUFFICES ASSUME RecordsAssumption, RecordsInit PROVE Promise!Init
  OBVIOUS
<1>1. RecsIn(area, 0) = <<>>
  BY NoneSpelt, ReadsBack
<1>2. TurnLog = <<>> /\ TurnFrom = -1 /\ HostLog = <<>>
  BY <1>1 DEF RecordsInit, TurnLog, TurnFrom, HostLog, RecsTo
<1>3. TurnLost = FALSE /\ Stopped = FALSE
  BY DEF RecordsInit, TurnLost, Stopped
<1> QED BY <1>2, <1>3 DEF Promise!Init

(***************************************************************************)
(* A stream of records is the log that its program was promised, whatever  *)
(* the range's size: whole records in order, transactions whole or not at  *)
(* all; the bytes that writes name stand until the host has run them, and  *)
(* an abort is run alone.                                                  *)
(***************************************************************************)
THEOREM RecordsLogged == RecordsAssumption => (RecordsSpec => RecordsRunWhole)
<1> SUFFICES ASSUME RecordsAssumption PROVE RecordsSpec => RecordsRunWhole
  OBVIOUS
<1>1. RecordsInit => RecordsInv /\ Promise!Init
  BY RecordsStart, LogStart
<1>2. RecordsInv /\ [RecordsNext]_recordsVars => RecordsInv' /\ [Promise!Next]_LogVars
  BY RecordsStep
<1>3. RecordsInv => RecordsTypeOK /\ WriteBytesStand /\ AbortAlone
  BY WholeTurns DEF RecordsInv
<1> QED BY <1>1, <1>2, <1>3, PTL DEF RecordsSpec, RecordsRunWhole, ImplementsLog, Promise!Spec, LogVars
=============================================================================
