---------------------------- MODULE Doorbell_proof ----------------------------
(***************************************************************************)
(* The boundary between a guest and its host.  First the door alone, with  *)
(* any host, for every size of its rings, every bound on the events of a   *)
(* command, and every set of tags: it is well typed, a drain never         *)
(* overruns the completion ring, submissions are applied in order and each *)
(* once, and each is answered once.  Then the two ends together: whatever  *)
(* listeners do, each step is one of the door's with some host, and what   *)
(* is shown of those steps holds of the boundary; where none throws, the   *)
(* host is one that keeps the contract, and the strobe is told of every    *)
(* wake.  Then calls.                                                      *)
(***************************************************************************)
EXTENDS Doorbell, Elements

\* A step with any host, one that rings over completions it has not taken
\* included: nothing below rests on the contract's fifth rule.
AnyStep == Next \/ Rise

\* The steps of Settle, which Answer and SettleOwn share: what they leave in
\* the completion ring and where they leave the guest.
LEMMA PostTyped ==
  ASSUME TypeOK, NEW f \in Reply \cup Event, NEW next \in Places, Post(f, next)
  PROVE  /\ cq' \in Seq(Reply \cup Event)
         /\ Len(cq') <= CqCap
         /\ pc' \in Places
  <1>1. CASE Len(cq) < CqCap
    <2> DEFINE S == Reply \cup Event
    <2>1. cq \in Seq(S) /\ f \in S /\ cq' = Append(cq, f) /\ pc' = next
      BY <1>1 DEF TypeOK, Post
    <2>2. CqCap \in Nat
      BY DoorAssumption
    <2> HIDE DEF S
    <2>3. cq' \in Seq(S) /\ Len(cq') = Len(cq) + 1
      BY <2>1
    <2>4. Len(cq') <= CqCap
      BY <1>1, <2>1, <2>2, <2>3
    <2> QED BY <2>1, <2>3, <2>4 DEF S
  <1>2. CASE ~(Len(cq) < CqCap)
    BY <1>2 DEF TypeOK, Post, Places
  <1> QED BY <1>1, <1>2

LEMMA SettleTyped ==
  ASSUME TypeOK, NEW f \in Submission, NEW ok \in BOOLEAN, sq # <<>>,
         Settle(f, ok)
  PROVE  /\ sq' \in Seq(Submission)
         /\ Len(sq') <= SqCap
         /\ cq' \in Seq(Reply \cup Event)
         /\ Len(cq') <= CqCap
         /\ pc' \in Places
         /\ book' \in Seq(Entry)
         /\ Len(book') = Len(book)
  <1>1. sq' = Tail(sq) /\ sq' \in Seq(Submission) /\ Len(sq') = Len(sq) - 1
    BY DEF TypeOK, Settle, Advanced
  <1>2. Len(sq') <= SqCap
    BY <1>1, DoorAssumption DEF TypeOK
  <1>3. cq' \in Seq(Reply \cup Event) /\ Len(cq') <= CqCap /\ pc' \in Places
    <2>1. CASE Owed(f, ok)
      <3>1. ReplyTo(f, ok) \in Reply /\ "drain" \in Places
        BY DEF ReplyTo, Reply, Submission, Places
      <3>2. Post(ReplyTo(f, ok), "drain")
        BY <2>1 DEF Settle
      <3> QED BY <3>1, <3>2, PostTyped
    <2>2. CASE ~Owed(f, ok)
      BY <2>2 DEF Settle, TypeOK, Places
    <2> QED BY <2>1, <2>2
  <1>4. book' \in Seq(Entry) /\ Len(book') = Len(book)
    <2> DEFINE e == [ack |-> book[f.n].ack, failed |-> ~ok,
                     replies |-> IF Owed(f, ok) /\ Len(cq) < CqCap
                                   THEN book[f.n].replies + 1 ELSE book[f.n].replies]
    <2>1. book' = [book EXCEPT ![f.n] = e]
      BY DEF Settle
    <2>2. CASE f.n \in 1 .. Len(book)
      <3>1. book[f.n] \in Entry
        BY <2>2, ElementOfSeq DEF TypeOK
      <3>2. e \in Entry
        BY <3>1 DEF Entry
      <3> QED BY <2>1, <2>2, <3>2, ExceptSeq DEF TypeOK
    <2>3. CASE f.n \notin 1 .. Len(book)
      <3>1. book' = book
        BY <2>1, <2>3 DEF TypeOK
      <3> QED BY <3>1 DEF TypeOK
    <2> QED BY <2>2, <2>3
  <1> QED BY <1>1, <1>2, <1>3, <1>4

-----------------------------------------------------------------------------
(***************************************************************************)
(* The inductive invariant.  `PlaceOK` ties the submission being handled   *)
(* to where the guest is.  `Recorded` says that the book holds what each   *)
(* waiting submission asked, and that it is not answered yet.              *)
(***************************************************************************)
PlaceOK ==
  /\ pc = "handle" => cur # None
  /\ pc \in {"host", "drain", "after"} => cur = None

Recorded ==
  \A i \in 1 .. Len(sq) :
    LET b == book[sq[i].n] IN b.ack = sq[i].ack /\ ~b.failed /\ b.replies = 0

Order == TypeOK /\ PlaceOK /\ AppliedInOrderOnce

LEMMA InitOrder == Init => Order
  BY DoorAssumption
     DEF Init, Order, TypeOK, Places, Wakes, PlaceOK, AppliedInOrderOnce, Waiting, Handling

\* What a step takes from the ring's head.
LEMMA HeadFacts ==
  ASSUME Order, sq # <<>>
  PROVE  /\ Head(sq) \in Submission
         /\ Head(sq).n \in Nat \ {0}
         /\ Head(sq) # None
         /\ Head(sq) = sq[1]
         /\ Len(Tail(sq)) = Len(sq) - 1
         /\ Tail(sq) \in Seq(Submission)
         /\ \A i \in 1 .. Len(Tail(sq)) : Tail(sq)[i] = sq[i + 1]
  <1>1. sq \in Seq(Submission)
    BY DEF Order, TypeOK
  <1>2. Head(sq) \in Submission /\ Head(sq) = sq[1]
    BY <1>1
  <1>3. /\ Len(Tail(sq)) = Len(sq) - 1
        /\ Tail(sq) \in Seq(Submission)
        /\ \A i \in 1 .. Len(Tail(sq)) : Tail(sq)[i] = sq[i + 1]
    BY <1>1
  <1>4. Head(sq).n \in Nat \ {0}
    BY <1>2 DEF Submission
  <1> QED BY <1>2, <1>3, <1>4, DoorAssumption

LEMMA HandlingFacts ==
  ASSUME Order, pc = "handle"
  PROVE  Handling /\ sq # <<>> /\ cur = Head(sq) /\ cur \in Submission
  BY HeadFacts DEF Order, PlaceOK, AppliedInOrderOnce, Handling

LEMMA NextTyped ==
  ASSUME Order, [AnyStep]_doorVars
  PROVE  TypeOK'
  <1> USE DoorAssumption
  <1> TypeOK
    BY DEF Order
  <1>1. ASSUME NEW tag \in Tags, NEW kind \in Kinds, NEW ack \in BOOLEAN,
               Submit(tag, kind, ack)
        PROVE  TypeOK'
    <2> DEFINE s == [n |-> Len(book) + 1, tag |-> tag, kind |-> kind, ack |-> ack]
               e == [ack |-> ack, failed |-> FALSE, replies |-> 0]
    <2>1. s \in Submission /\ e \in Entry
      BY DEF Submission, Entry, TypeOK
    <2>2. sq' = Append(sq, s) /\ book' = Append(book, e) /\ Len(sq) < SqCap
      BY <1>1 DEF Submit
    <2> HIDE DEF s, e
    <2>3. sq' \in Seq(Submission) /\ Len(sq') <= SqCap /\ book' \in Seq(Entry)
      BY <2>1, <2>2 DEF TypeOK
    <2> QED BY <1>1, <2>3 DEF Submit, TypeOK
  <1>2. CASE TakeCompletion
    BY <1>2 DEF TakeCompletion, TypeOK
  <1>3. CASE Rise
    BY <1>3 DEF Rise, TypeOK, Places
  <1>4. CASE Hand
    <2>1. Head(sq) \in Submission /\ Head(sq).n \in Nat \ {0}
      BY <1>4, HeadFacts DEF Hand
    <2> QED BY <1>4, <2>1 DEF Hand, TypeOK, Places
  <1>5. CASE SettleOwn
    <2>1. Head(sq) \in Submission /\ Head(sq).n \in Nat \ {0} /\ sq # <<>>
      BY <1>5, HeadFacts DEF SettleOwn
    <2>2. Settle(Head(sq), Head(sq).kind = "nop") /\ (Head(sq).kind = "nop") \in BOOLEAN
      BY <1>5 DEF SettleOwn
    <2>3. /\ sq' \in Seq(Submission) /\ Len(sq') <= SqCap
          /\ cq' \in Seq(Reply \cup Event) /\ Len(cq') <= CqCap
          /\ pc' \in Places /\ book' \in Seq(Entry)
      BY <2>1, <2>2, SettleTyped
    <2>4. applied' \in Seq(Nat \ {0})
      BY <1>5, <2>1 DEF SettleOwn, TypeOK
    <2> QED BY <1>5, <2>3, <2>4 DEF SettleOwn, TypeOK
  <1>6. CASE EndDrain
    BY <1>6 DEF EndDrain, TypeOK, Places
  <1>7. ASSUME NEW ok \in BOOLEAN, Answer(ok)
        PROVE  TypeOK'
    <2>1. cur \in Submission /\ sq # <<>>
      BY <1>7, HandlingFacts DEF Answer
    <2>2. /\ sq' \in Seq(Submission) /\ Len(sq') <= SqCap
          /\ cq' \in Seq(Reply \cup Event) /\ Len(cq') <= CqCap
          /\ pc' \in Places /\ book' \in Seq(Entry)
      BY <1>7, <2>1, SettleTyped DEF Answer
    <2> QED BY <1>7, <2>2 DEF Answer, TypeOK
  <1>8. ASSUME NEW tag \in Tags, Raise(tag)
        PROVE  TypeOK'
    <2>1. [n |-> 0, tag |-> tag, res |-> FALSE, ok |-> TRUE] \in Reply \cup Event
      BY DEF Event
    <2>2. pc \in Places
      BY DEF TypeOK
    <2>3. cq' \in Seq(Reply \cup Event) /\ Len(cq') <= CqCap /\ pc' \in Places
      BY <1>8, <2>1, <2>2, PostTyped DEF Raise
    <2> QED BY <1>8, <2>3 DEF Raise, TypeOK
  <1>9. ASSUME NEW w \in Wakes, Fall(w)
        PROVE  TypeOK'
    BY <1>9 DEF Fall, TypeOK, Places
  <1>10. CASE Trap
    BY <1>10 DEF Trap, TypeOK, Places
  <1>11. CASE UNCHANGED doorVars
    BY <1>11 DEF doorVars, TypeOK
  <1> QED
    BY <1>1, <1>2, <1>3, <1>4, <1>5, <1>6, <1>7, <1>8, <1>9, <1>10, <1>11
       DEF AnyStep, Next, RingTurn, GuestStep

LEMMA NextPlace ==
  ASSUME Order, [AnyStep]_doorVars
  PROVE  PlaceOK'
  <1> PlaceOK
    BY DEF Order
  <1>1. CASE Hand
    BY <1>1, HeadFacts DEF Hand, PlaceOK
  <1>2. ASSUME NEW ok \in BOOLEAN, Answer(ok)
        PROVE  PlaceOK'
    BY <1>2 DEF Answer, Settle, Post, PlaceOK
  <1>3. CASE SettleOwn
    BY <1>3 DEF SettleOwn, Settle, Post, PlaceOK
  <1>4. ASSUME NEW tag \in Tags, Raise(tag)
        PROVE  PlaceOK'
    BY <1>4 DEF Raise, Post, PlaceOK
  <1>5. ASSUME NEW w \in Wakes, Fall(w)
        PROVE  PlaceOK'
    BY <1>5 DEF Fall, PlaceOK
  <1>6. CASE EndDrain \/ Rise \/ TakeCompletion \/ Trap \/ UNCHANGED doorVars
    BY <1>6 DEF EndDrain, Rise, TakeCompletion, Trap, doorVars, PlaceOK
  <1>7. ASSUME NEW tag \in Tags, NEW kind \in Kinds, NEW ack \in BOOLEAN,
               Submit(tag, kind, ack)
        PROVE  PlaceOK'
    BY <1>7 DEF Submit, PlaceOK
  <1> QED BY <1>1, <1>2, <1>3, <1>4, <1>5, <1>6, <1>7 DEF AnyStep, Next, RingTurn, GuestStep

\* The head moves from what waits to the end of what was applied.
LEMMA ApplyHead ==
  ASSUME Order, sq # <<>>, ~Handling, applied' = Append(applied, Head(sq).n)
  PROVE  /\ Head(sq).n = Len(applied) + 1
         /\ \A i \in 1 .. Len(applied') : applied'[i] = i
         /\ \A i \in 1 .. Len(Tail(sq)) : Tail(sq)[i].n = Len(applied') + i
         /\ Len(book) = Len(applied') + Len(Tail(sq))
  <1> DEFINE m == Head(sq).n
  <1>1. applied \in Seq(Nat \ {0}) /\ sq \in Seq(Submission) /\ Len(sq) \in Nat /\ Len(sq) > 0
    BY DEF Order, TypeOK
  <1>2. /\ \A i \in 1 .. Len(applied) : applied[i] = i
        /\ \A i \in 1 .. Len(sq) : sq[i].n = Len(applied) + i
        /\ Len(book) = Len(applied) + Len(sq)
    BY DEF Order, AppliedInOrderOnce, Waiting
  <1>3. m = Len(applied) + 1 /\ m \in Nat \ {0}
    BY <1>1, <1>2, HeadFacts
  <1> HIDE DEF m
  <1>4. applied' = Append(applied, m)
    BY DEF m
  <1>5. Len(applied') = Len(applied) + 1
    BY <1>1, <1>3, <1>4
  <1>6. \A i \in 1 .. Len(applied') : applied'[i] = i
    BY <1>1, <1>2, <1>3, <1>4, <1>5
  <1>7. \A i \in 1 .. Len(Tail(sq)) : Tail(sq)[i].n = Len(applied') + i
    <2> SUFFICES ASSUME NEW i \in 1 .. Len(Tail(sq))
                 PROVE  Tail(sq)[i].n = Len(applied') + i
      OBVIOUS
    <2>1. Tail(sq)[i] = sq[i + 1] /\ i + 1 \in 1 .. Len(sq)
      BY <1>1, HeadFacts
    <2>2. sq[i + 1].n = Len(applied) + (i + 1)
      BY <1>2, <2>1
    <2> QED BY <1>1, <1>5, <2>1, <2>2
  <1>8. Len(book) = Len(applied') + Len(Tail(sq))
    BY <1>1, <1>2, <1>5, HeadFacts
  <1> QED BY <1>3, <1>6, <1>7, <1>8 DEF m

LEMMA NextOrdered ==
  ASSUME Order, [AnyStep]_doorVars
  PROVE  AppliedInOrderOnce'
  <1> AppliedInOrderOnce /\ TypeOK /\ PlaceOK
    BY DEF Order
  <1>1. ASSUME NEW tag \in Tags, NEW kind \in Kinds, NEW ack \in BOOLEAN,
               Submit(tag, kind, ack)
        PROVE  AppliedInOrderOnce'
    <2> DEFINE s == [n |-> Len(book) + 1, tag |-> tag, kind |-> kind, ack |-> ack]
    <2>1. ~Handling /\ ~Handling' /\ Waiting = sq /\ Waiting' = Append(sq, s)
      BY <1>1 DEF Submit, PlaceOK, Handling, Waiting
    <2>2. s.n = Len(book) + 1 /\ Len(book') = Len(book) + 1 /\ UNCHANGED applied
      BY <1>1 DEF Submit, TypeOK
    <2> HIDE DEF s
    <2>3. sq \in Seq(Submission) /\ Len(sq) \in Nat /\ Len(applied) \in Nat
      BY DEF TypeOK
    <2>4. /\ \A i \in 1 .. Len(applied) : applied[i] = i
          /\ \A i \in 1 .. Len(sq) : sq[i].n = Len(applied) + i
          /\ Len(book) = Len(applied) + Len(sq)
      BY <2>1 DEF AppliedInOrderOnce
    <2>5. /\ Len(Waiting') = Len(sq) + 1
          /\ \A i \in 1 .. Len(sq) : Waiting'[i] = sq[i]
          /\ Waiting'[Len(sq) + 1] = s
      BY <2>1, <2>3
    <2>6. \A i \in 1 .. Len(Waiting') : Waiting'[i].n = Len(applied) + i
      <3> SUFFICES ASSUME NEW i \in 1 .. Len(sq) + 1
                   PROVE  Waiting'[i].n = Len(applied) + i
        BY <2>5
      <3>1. CASE i \in 1 .. Len(sq)
        BY <2>4, <2>5, <3>1
      <3>2. CASE i = Len(sq) + 1
        BY <2>2, <2>3, <2>4, <2>5, <3>2
      <3> QED BY <2>3, <3>1, <3>2
    <2>7. Len(book') = Len(applied) + Len(Waiting')
      BY <2>2, <2>3, <2>4, <2>5
    <2> QED BY <2>1, <2>2, <2>4, <2>6, <2>7 DEF AppliedInOrderOnce
  <1>2. CASE Hand
    <2>1. sq # <<>> /\ ~Handling /\ applied' = Append(applied, Head(sq).n)
      BY <1>2 DEF Hand, PlaceOK, Handling
    <2>2. /\ Handling' /\ Waiting' = Tail(sq)
          /\ sq' # <<>> /\ cur' = Head(sq') /\ cur'.n = Head(sq).n /\ UNCHANGED book
      BY <1>2, <2>1, HeadFacts DEF Hand, Handling, Waiting
    <2>3. Len(applied') = Len(applied) + 1
      BY <2>1, HeadFacts DEF Order, TypeOK
    <2> QED BY <2>1, <2>2, <2>3, ApplyHead DEF AppliedInOrderOnce
  <1>3. CASE SettleOwn
    <2>1. /\ sq # <<>> /\ ~Handling /\ ~Handling'
          /\ applied' = Append(applied, Head(sq).n)
      BY <1>3 DEF SettleOwn, PlaceOK, Handling
    <2>2. Waiting' = Tail(sq) /\ Len(book') = Len(book)
      BY <1>3, <2>1, SettleTyped, HeadFacts DEF SettleOwn, Settle, Advanced, Handling, Waiting
    <2> QED BY <2>1, <2>2, ApplyHead DEF AppliedInOrderOnce
  <1>4. ASSUME NEW ok \in BOOLEAN, Answer(ok)
        PROVE  AppliedInOrderOnce'
    <2>1. Handling /\ ~Handling' /\ sq # <<>> /\ cur \in Submission
      BY <1>4, HandlingFacts DEF Answer, Handling
    <2>2. sq' = Tail(sq) /\ Waiting' = Waiting /\ UNCHANGED applied
      BY <1>4, <2>1 DEF Answer, Settle, Advanced, Waiting
    <2>3. Len(book') = Len(book)
      BY <1>4, <2>1, SettleTyped DEF Answer
    <2> QED BY <2>1, <2>2, <2>3 DEF AppliedInOrderOnce
  <1>5. CASE UNCHANGED <<sq, cur, applied, book>>
    BY <1>5 DEF AppliedInOrderOnce, Waiting, Handling
  <1>6. TakeCompletion \/ Rise \/ EndDrain \/ Trap \/ (\E tag \in Tags : Raise(tag))
          \/ (\E w \in Wakes : Fall(w)) \/ UNCHANGED doorVars
        => UNCHANGED <<sq, cur, applied, book>>
    BY DEF TakeCompletion, Rise, EndDrain, Trap, Raise, Fall, doorVars
  <1> QED BY <1>1, <1>2, <1>3, <1>4, <1>5, <1>6 DEF AnyStep, Next, RingTurn, GuestStep

\* TypeOK: the rings never hold more than their frames, and every variable
\* has its type (door.rs, ring.rs).
THEOREM TypeCorrect == Spec => []TypeOK
  <1>1. Init => Order
    BY InitOrder
  <1>2. Order /\ [Next]_doorVars => Order'
    BY NextTyped, NextPlace, NextOrdered DEF Order, AnyStep
  <1>3. Order => TypeOK
    BY DEF Order
  <1> QED BY <1>1, <1>2, <1>3, PTL DEF Spec

\* AppliedInOrderOnce: what the host sends is applied in order, each submission
\* once, whatever turns it is left for (rule 4 of the contract; Door::drain).
THEOREM AppliesInOrder == Spec => []AppliedInOrderOnce
  <1>1. Init => Order
    BY InitOrder
  <1>2. Order /\ [Next]_doorVars => Order'
    BY NextTyped, NextPlace, NextOrdered DEF Order, AnyStep
  <1>3. Order => AppliedInOrderOnce
    BY DEF Order
  <1> QED BY <1>1, <1>2, <1>3, PTL DEF Spec
-----------------------------------------------------------------------------
LEMMA NextRoom ==
  ASSUME Order, RoomKept, [AnyStep]_doorVars
  PROVE  RoomKept' /\ (pc' = "enospc" => pc \in {"after", "enospc"})
  <1> DEFINE Goal == RoomKept' /\ (pc' = "enospc" => pc \in {"after", "enospc"})
  <1>0. /\ Len(cq) \in Nat /\ raised \in 0 .. MostEvents
        /\ MostEvents \in Nat /\ CqCap \in Nat
        /\ cq \in Seq(Reply \cup Event)
    BY DoorAssumption DEF Order, TypeOK
  <1>1. CASE Hand
    BY <1>0, <1>1 DEF Hand, HasRoom, RoomKept
  <1>2. ASSUME NEW ok \in BOOLEAN, Answer(ok)
        PROVE  Goal
    <2>1. Len(cq) < CqCap
      BY <1>0, <1>2 DEF Answer, RoomKept
    <2>2. pc' = "drain"
      BY <1>2, <2>1 DEF Answer, Settle, Post
    <2> QED BY <2>2 DEF RoomKept
  <1>3. CASE SettleOwn
    <2>1. Len(cq) < CqCap
      BY <1>0, <1>3 DEF SettleOwn, HasRoom
    <2>2. pc' = "drain"
      BY <1>3, <2>1 DEF SettleOwn, Settle, Post
    <2> QED BY <2>2 DEF RoomKept
  <1>4. ASSUME NEW tag \in Tags, Raise(tag)
        PROVE  Goal
    <2>1. CASE pc = "handle"
      <3> DEFINE e == [n |-> 0, tag |-> tag, res |-> FALSE, ok |-> TRUE]
      <3>1. Len(cq) < CqCap /\ raised < MostEvents /\ raised' = raised + 1
        BY <1>0, <1>4, <2>1 DEF Raise, RoomKept
      <3>2. cq' = Append(cq, e) /\ pc' = "handle"
        BY <1>4, <2>1, <3>1 DEF Raise, Post
      <3>3. Len(cq') = Len(cq) + 1
        BY <1>0, <3>2
      <3> QED BY <1>0, <2>1, <3>1, <3>2, <3>3 DEF RoomKept
    <2>2. CASE pc = "after"
      BY <1>4, <2>2 DEF Raise, Post, RoomKept
    <2> QED BY <1>4, <2>1, <2>2 DEF Raise
  <1>5. ASSUME NEW w \in Wakes, Fall(w)
        PROVE  Goal
    BY <1>5 DEF Fall, RoomKept
  <1>6. CASE EndDrain \/ Rise \/ TakeCompletion \/ Trap
    BY <1>6 DEF EndDrain, Rise, TakeCompletion, Trap, RoomKept
  <1>7. ASSUME NEW tag \in Tags, NEW kind \in Kinds, NEW ack \in BOOLEAN,
               Submit(tag, kind, ack)
        PROVE  Goal
    BY <1>7 DEF Submit, RoomKept
  <1>8. CASE UNCHANGED doorVars
    BY <1>8 DEF doorVars, RoomKept
  <1> QED BY <1>1, <1>2, <1>3, <1>4, <1>5, <1>6, <1>7, <1>8 DEF AnyStep, Next, RingTurn, GuestStep

\* RoomKept: while a command is handled there is room for all it may still
\* leave, whatever ran before it this turn (Door::has_room).
THEOREM KeepsRoom == Spec => []RoomKept
  <1>1. Init => Order /\ RoomKept
    BY InitOrder DEF Init, RoomKept
  <1>2. Order /\ RoomKept /\ [Next]_doorVars => (Order /\ RoomKept)'
    BY NextTyped, NextPlace, NextOrdered, NextRoom DEF Order, AnyStep
  <1> QED BY <1>1, <1>2, PTL DEF Spec

\* DrainNeverOverruns: no push of a drain finds the completion ring full
\* (Door::on_posted's ENOSPC is out of a drain's reach).
THEOREM NeverOverruns == Spec => DrainNeverOverruns
  <1>1. Init => Order /\ RoomKept
    BY InitOrder DEF Init, RoomKept
  <1>2. Order /\ RoomKept /\ [Next]_doorVars => (Order /\ RoomKept)'
    BY NextTyped, NextPlace, NextOrdered, NextRoom DEF Order, AnyStep
  <1>3. Order /\ RoomKept /\ [Next]_doorVars
        => [pc' = "enospc" => pc \in {"after", "enospc"}]_doorVars
    BY NextRoom DEF AnyStep
  <1> QED BY <1>1, <1>2, <1>3, PTL DEF Spec, DrainNeverOverruns
-----------------------------------------------------------------------------
(***************************************************************************)
(* Each submission's reply.  While the guest lives, what waits is as the   *)
(* book recorded it; so its end, whichever it is, makes its reply count    *)
(* right, and disturbs no other's.                                         *)
(***************************************************************************)
Answered == pc \notin Stopped => Recorded /\ ExactlyOneReply

\* The numbers of what the ring holds, and that the book has them.
LEMMA Numbers ==
  ASSUME Order
  PROVE  \A i \in 1 .. Len(sq) :
           /\ sq[i].n = Len(applied) + (IF Handling THEN i - 1 ELSE i)
           /\ sq[i].n \in 1 .. Len(book)
  <1>1. sq \in Seq(Submission) /\ Len(applied) \in Nat /\ Len(book) \in Nat
    BY DEF Order, TypeOK
  <1>2. CASE ~Handling
    BY <1>1, <1>2 DEF Order, AppliedInOrderOnce, Waiting
  <1>3. CASE Handling
    <2> SUFFICES ASSUME NEW i \in 1 .. Len(sq)
                 PROVE  sq[i].n = Len(applied) + (i - 1) /\ sq[i].n \in 1 .. Len(book)
      BY <1>3
    <2>1. /\ sq # <<>> /\ sq[1].n = Len(applied)
          /\ \A j \in 1 .. Len(Tail(sq)) : Tail(sq)[j].n = Len(applied) + j
          /\ Len(book) = Len(applied) + Len(Tail(sq))
      BY <1>3, HeadFacts DEF Order, AppliedInOrderOnce, Waiting
    <2>2. sq[1].n \in Nat \ {0} /\ Len(Tail(sq)) = Len(sq) - 1
      BY <2>1, HeadFacts
    <2>3. CASE i = 1
      BY <1>1, <2>1, <2>2, <2>3
    <2>4. CASE i # 1
      <3>0. i - 1 \in 1 .. Len(Tail(sq)) /\ (i - 1) + 1 = i
        BY <1>1, <2>2, <2>4
      <3>1. i - 1 \in 1 .. Len(Tail(sq)) /\ Tail(sq)[i - 1] = sq[i]
        BY <2>1, <3>0, HeadFacts
      <3>2. sq[i].n = Len(applied) + (i - 1)
        BY <2>1, <3>1
      <3> DEFINE k == Len(Tail(sq))
      <3>3. k \in Nat /\ i - 1 \in 1 .. k /\ Len(book) = Len(applied) + k
        BY <1>1, <2>1, <2>2, <3>1
      <3> HIDE DEF k
      <3>4. Len(applied) + (i - 1) \in 1 .. Len(book)
        BY <1>1, <3>3
      <3> QED BY <3>2, <3>4
    <2> QED BY <2>3, <2>4
  <1> QED BY <1>2, <1>3

\* What settling the head leaves in the book.
LEMMA SettleBook ==
  ASSUME Order, Recorded, sq # <<>>, NEW ok \in BOOLEAN, Settle(Head(sq), ok),
         pc' \notin Stopped
  PROVE  LET b == book'[Head(sq).n] IN
         /\ Len(book') = Len(book)
         /\ \A n \in 1 .. Len(book) : n # Head(sq).n => book'[n] = book[n]
         /\ b.replies = IF b.ack \/ b.failed THEN 1 ELSE 0
  <1> DEFINE f == Head(sq)
             e == [ack |-> book[f.n].ack, failed |-> ~ok,
                   replies |-> IF Owed(f, ok) /\ Len(cq) < CqCap
                                 THEN book[f.n].replies + 1 ELSE book[f.n].replies]
  <1>1. f.n \in 1 .. Len(book) /\ book \in Seq(Entry) /\ f = sq[1] /\ f \in Submission
    BY Numbers, HeadFacts DEF Order, TypeOK
  <1>2. book[f.n].ack = f.ack /\ ~book[f.n].failed /\ book[f.n].replies = 0
    BY <1>1, HeadFacts DEF Recorded, Order, TypeOK
  <1>3. Owed(f, ok) => Len(cq) < CqCap
    BY DEF Settle, Post, Stopped
  <1>4. e.ack = f.ack /\ e.failed = ~ok /\ e.replies = IF Owed(f, ok) THEN 1 ELSE 0
    BY <1>2, <1>3
  <1>5. book' = [book EXCEPT ![f.n] = e]
    BY DEF Settle
  <1>6. /\ book'[f.n] = e /\ Len(book') = Len(book)
        /\ \A n \in 1 .. Len(book) : n # f.n => book'[n] = book[n]
    BY <1>1, <1>5
  <1> HIDE DEF e
  <1>7. book'[f.n].replies = IF book'[f.n].ack \/ book'[f.n].failed THEN 1 ELSE 0
    BY <1>4, <1>6 DEF Owed
  <1> HIDE DEF f
  <1> QED BY <1>6, <1>7 DEF f

LEMMA NextAnswered ==
  ASSUME Order, Answered, [AnyStep]_doorVars
  PROVE  Answered'
  <1> SUFFICES ASSUME pc' \notin Stopped
               PROVE  Recorded' /\ ExactlyOneReply'
    BY DEF Answered
  <1> DEFINE Goal == Recorded' /\ ExactlyOneReply'
  <1>0. pc \notin Stopped /\ Recorded /\ ExactlyOneReply
    <2>1. pc \notin Stopped
      BY DEF AnyStep, Next, RingTurn, GuestStep, Submit, TakeCompletion, Rise, Hand, SettleOwn,
             EndDrain, Answer, Raise, Fall, Trap, doorVars, Stopped
    <2> QED BY <2>1 DEF Answered
  <1>00. /\ sq \in Seq(Submission) /\ book \in Seq(Entry)
         /\ Len(sq) \in Nat /\ Len(book) \in Nat /\ Len(applied) \in Nat
         /\ applied \in Seq(Nat \ {0})
         /\ Len(book) >= Len(applied)
    BY DEF Order, TypeOK, AppliedInOrderOnce, Waiting
  <1>1. ASSUME NEW tag \in Tags, NEW kind \in Kinds, NEW ack \in BOOLEAN,
               Submit(tag, kind, ack)
        PROVE  Goal
    <2> DEFINE s == [n |-> Len(book) + 1, tag |-> tag, kind |-> kind, ack |-> ack]
               e == [ack |-> ack, failed |-> FALSE, replies |-> 0]
    <2>1. /\ sq' = Append(sq, s) /\ book' = Append(book, e)
          /\ UNCHANGED <<applied, cur>> /\ pc = "host" /\ pc' = "host"
      BY <1>1 DEF Submit
    <2>2. s.n = Len(book) + 1 /\ s.ack = ack /\ e.ack = ack /\ ~e.failed /\ e.replies = 0
      OBVIOUS
    <2> HIDE DEF s, e
    <2>3. /\ Len(sq') = Len(sq) + 1 /\ Len(book') = Len(book) + 1
          /\ \A i \in 1 .. Len(sq) : sq'[i] = sq[i]
          /\ \A n \in 1 .. Len(book) : book'[n] = book[n]
          /\ sq'[Len(sq) + 1] = s /\ book'[Len(book) + 1] = e
      BY <1>00, <2>1
    <2>4. Recorded'
      <3> SUFFICES ASSUME NEW i \in 1 .. Len(sq) + 1
                   PROVE  LET b == book'[sq'[i].n]
                          IN  b.ack = sq'[i].ack /\ ~b.failed /\ b.replies = 0
        BY <2>3 DEF Recorded
      <3>1. CASE i = Len(sq) + 1
        BY <2>2, <2>3, <3>1
      <3>2. CASE i \in 1 .. Len(sq)
        <4>1. sq'[i] = sq[i] /\ sq[i].n \in 1 .. Len(book)
          BY <2>3, <3>2, Numbers
        <4>2. book'[sq[i].n] = book[sq[i].n]
          BY <2>3, <4>1
        <4> QED BY <1>0, <3>2, <4>1, <4>2 DEF Recorded
      <3> QED BY <1>00, <3>1, <3>2
    <2>5. ExactlyOneReply'
      <3> SUFFICES ASSUME NEW n \in 1 .. Len(book) + 1
                   PROVE  book'[n].replies =
                            IF Settled(n)' /\ (book'[n].ack \/ book'[n].failed) THEN 1 ELSE 0
        BY <2>3 DEF ExactlyOneReply
      <3>1. Settled(n)' = Settled(n)
        BY <2>1 DEF Settled, Handling
      <3>2. CASE n = Len(book) + 1
        <4>1. ~Settled(n)
          BY <1>00, <3>2 DEF Settled
        <4> QED BY <2>2, <2>3, <3>1, <3>2, <4>1
      <3>3. CASE n \in 1 .. Len(book)
        <4>1. book'[n] = book[n]
          BY <2>3, <3>3
        <4> QED BY <1>0, <3>1, <3>3, <4>1 DEF ExactlyOneReply
      <3> QED BY <1>00, <3>2, <3>3
    <2> QED BY <2>4, <2>5
  <1>2. CASE Hand
    <2>1. /\ sq # <<>> /\ ~Handling /\ cur' = Head(sq) /\ Handling'
          /\ UNCHANGED <<sq, book>> /\ applied' = Append(applied, Head(sq).n)
      BY <1>2, HeadFacts DEF Hand, Order, PlaceOK, Handling
    <2>2. Head(sq).n = Len(applied) + 1 /\ Len(applied') = Len(applied) + 1
      BY <1>00, <2>1, ApplyHead, HeadFacts
    <2>3. ASSUME NEW n \in 1 .. Len(book)
          PROVE  Settled(n)' = Settled(n)
      BY <1>00, <2>1, <2>2 DEF Settled, Handling
    <2>4. Recorded'
      BY <1>0, <2>1 DEF Recorded
    <2>5. ExactlyOneReply'
      BY <1>0, <2>1, <2>3, <1>2 DEF ExactlyOneReply
    <2> QED BY <2>4, <2>5
  <1>3. ASSUME NEW ok \in BOOLEAN, sq # <<>>, Settle(Head(sq), ok), ~Handling',
               \A n \in 1 .. Len(book) : Settled(n)' = (Settled(n) \/ n = Head(sq).n)
        PROVE  Goal
    <2> DEFINE f == Head(sq)
    <2>1. LET b == book'[f.n] IN
          /\ Len(book') = Len(book)
          /\ \A n \in 1 .. Len(book) : n # f.n => book'[n] = book[n]
          /\ b.replies = IF b.ack \/ b.failed THEN 1 ELSE 0
      BY <1>0, <1>3, SettleBook
    <2>2. sq' = Tail(sq)
      BY <1>3 DEF Settle, Advanced
    <2>3. Recorded'
      <3> SUFFICES ASSUME NEW i \in 1 .. Len(Tail(sq))
                   PROVE  LET b == book'[Tail(sq)[i].n]
                          IN  b.ack = Tail(sq)[i].ack /\ ~b.failed /\ b.replies = 0
        BY <2>2 DEF Recorded
      <3>1. Tail(sq)[i] = sq[i + 1] /\ i + 1 \in 1 .. Len(sq) /\ f = sq[1] /\ 1 \in 1 .. Len(sq)
        BY <1>00, <1>3, HeadFacts
      <3>2. sq[i + 1].n # f.n /\ sq[i + 1].n \in 1 .. Len(book)
        BY <1>00, <3>1, Numbers
      <3>3. book'[sq[i + 1].n] = book[sq[i + 1].n]
        BY <2>1, <3>2
      <3> QED BY <1>0, <3>1, <3>3 DEF Recorded
    <2>4. ExactlyOneReply'
      <3> SUFFICES ASSUME NEW n \in 1 .. Len(book)
                   PROVE  book'[n].replies =
                            IF Settled(n)' /\ (book'[n].ack \/ book'[n].failed) THEN 1 ELSE 0
        BY <2>1 DEF ExactlyOneReply
      <3>1. CASE n = f.n
        BY <1>3, <2>1, <3>1
      <3>2. CASE n # f.n
        BY <1>0, <1>3, <2>1, <3>2 DEF ExactlyOneReply
      <3> QED BY <3>1, <3>2
    <2> QED BY <2>3, <2>4
  <1>4. CASE SettleOwn
    <2>1. /\ sq # <<>> /\ ~Handling /\ ~Handling'
          /\ applied' = Append(applied, Head(sq).n)
          /\ Settle(Head(sq), Head(sq).kind = "nop")
      BY <1>4 DEF SettleOwn, Order, PlaceOK, Handling
    <2>2. Head(sq).n = Len(applied) + 1 /\ Len(applied') = Len(applied) + 1
      BY <1>00, <2>1, ApplyHead, HeadFacts
    <2>3. \A n \in 1 .. Len(book) : Settled(n)' = (Settled(n) \/ n = Head(sq).n)
      BY <1>00, <2>1, <2>2 DEF Settled
    <2> QED BY <1>3, <2>1, <2>3
  <1>5. ASSUME NEW ok \in BOOLEAN, Answer(ok)
        PROVE  Goal
    <2>1. /\ Handling /\ ~Handling' /\ sq # <<>> /\ cur = Head(sq)
          /\ Settle(Head(sq), ok) /\ UNCHANGED applied
      BY <1>5, HandlingFacts DEF Answer, Handling
    <2>2. cur.n = Len(applied)
      BY <2>1 DEF Order, AppliedInOrderOnce
    <2>3. \A n \in 1 .. Len(book) : Settled(n)' = (Settled(n) \/ n = Head(sq).n)
      BY <1>00, <2>1, <2>2 DEF Settled
    <2> QED BY <1>3, <2>1, <2>3
  <1>6. CASE UNCHANGED <<sq, cur, applied, book>>
    BY <1>0, <1>6 DEF Recorded, ExactlyOneReply, Settled, Handling
  <1>7. TakeCompletion \/ Rise \/ EndDrain \/ Trap \/ (\E tag \in Tags : Raise(tag))
          \/ (\E w \in Wakes : Fall(w)) \/ UNCHANGED doorVars
        => UNCHANGED <<sq, cur, applied, book>>
    BY DEF TakeCompletion, Rise, EndDrain, Trap, Raise, Fall, doorVars
  <1> QED BY <1>1, <1>2, <1>4, <1>5, <1>6, <1>7 DEF AnyStep, Next, RingTurn, GuestStep

\* ExactlyOneReply: a submission settled has one reply if it asked or failed,
\* and none otherwise (rule 3 of the contract; Door::drain).
THEOREM RepliesOnce == Spec => []ExactlyOneReply
  <1>1. Init => Order /\ Answered
    BY InitOrder DEF Init, Answered, Recorded, ExactlyOneReply
  <1>2. Order /\ Answered /\ [Next]_doorVars => (Order /\ Answered)'
    BY NextTyped, NextPlace, NextOrdered, NextAnswered DEF Order, AnyStep
  <1>3. Order /\ Answered => ExactlyOneReply
    BY DEF Answered, ExactlyOneReply
  <1> QED BY <1>1, <1>2, <1>3, PTL DEF Spec
-----------------------------------------------------------------------------
(***************************************************************************)
(* The two ends together.                                                  *)
(***************************************************************************)

(***************************************************************************)
(* The invariant of the host's control: it reads only between turns, and   *)
(* knows of the guest's end only once there is one and then runs no        *)
(* operation.                                                              *)
(***************************************************************************)
ControlOK ==
  /\ reading => pc = "host"
  /\ trapped => pc \in Stopped /\ op = "idle"
  /\ nextCall \in 0 .. IdMod - 1
  /\ op = "submit" =>
       /\ task \in [tag : Tags, kind : Kinds, ack : BOOLEAN]
       /\ task.kind \in KindsOf(task.tag.port)

\* A step on the rings: the door's, with a host that keeps the contract but for
\* a turn rung, by a host that reads no more, over what it has left unread.
RingStep == Next \/ (~reading /\ Rise)

LEMMA InitControl == BellInit => ControlOK
  BY DoorbellAssumption DEF BellInit, Init, ControlOK

\* The steps of a turn are the door's own.
LEMMA TurnSteps ==
  ASSUME ControlOK, Turn
  PROVE  ControlOK' /\ Next
  <1>1. CASE \E w \in Wakes : Return(w)
    BY <1>1 DEF Return, Fall, ControlOK, Next, GuestStep, Stopped
  <1>2. CASE /\ \/ Hand \/ SettleOwn \/ EndDrain
                \/ \E ok \in BOOLEAN : Answer(ok)
                \/ \E tag \in Tags : Raise(tag)
             /\ UNCHANGED hostVars
    <2>1. Next
      BY <1>2 DEF Next, GuestStep
    <2>2. pc \in {"drain", "handle", "after"} /\ pc' \in {"drain", "handle", "after", "enospc"}
      BY <1>2 DEF Hand, SettleOwn, EndDrain, Answer, Raise, Settle, Post
    <2> QED BY <1>2, <2>1, <2>2 DEF ControlOK, hostVars, Stopped
  <1> QED BY <1>1, <1>2 DEF Turn

\* The operations begun, and the loops around a turn.
LEMMA HostSteps ==
  ASSUME ControlOK, HostStep
  PROVE  ControlOK' /\ [RingStep]_doorVars
  <1> USE DEF HostRuns, ControlOK, Stopped, RingStep
  <1>1. CASE PushTask
    <2>1. /\ pc = "host" /\ ~reading
          /\ task.tag \in Tags /\ task.kind \in Kinds /\ task.ack \in BOOLEAN
          /\ task.kind \in KindsOf(task.tag.port)
      BY <1>1 DEF PushTask
    <2>2. Submit(task.tag, task.kind, task.ack)
      BY <1>1, <2>1 DEF PushTask, Submit, SqRoom
    <2>3. ControlOK'
      BY <1>1, <2>1 DEF PushTask
    <2> QED BY <2>1, <2>2, <2>3 DEF Next
  <1>2. CASE BeginWriter
    BY <1>2 DEF BeginWriter, doorVars
  <1>3. CASE RingForRoom
    BY <1>3 DEF RingForRoom, RunTurn, Rise, hostVars
  <1>4. CASE RingForReply
    BY <1>4 DEF RingForReply, RunTurn, Rise
  <1>5. CASE EndCall
    BY <1>5 DEF EndCall, Leave, doorVars
  <1>6. CASE ReadReply
    BY <1>6 DEF ReadReply, TakeCompletion, Next
  <1>7. CASE ReadEvent
    BY <1>7 DEF ReadEvent, TakeCompletion, Next, hostVars
  <1>8. CASE ListenerThrows
    BY <1>8 DEF ListenerThrows, Leave, doorVars
  <1>9. CASE EndRead
    BY <1>9 DEF EndRead, doorVars
  <1>10. CASE Stop
    BY <1>10 DEF Stop, Leave, doorVars
  <1>11. CASE RefusePacket
    BY <1>11 DEF RefusePacket, Leave, doorVars
  <1> QED
    BY <1>1, <1>2, <1>3, <1>4, <1>5, <1>6, <1>7, <1>8, <1>9, <1>10, <1>11 DEF HostStep

LEMMA BellSteps ==
  ASSUME ControlOK, [BellNext]_bellVars
  PROVE  ControlOK' /\ [RingStep]_doorVars
  <1>1. ASSUME NEW port \in Ports, NEW kind \in Kinds,
               Send(port, kind) \/ StartCall(port, kind)
        PROVE  ControlOK' /\ [RingStep]_doorVars
    <2>1. CASE Send(port, kind)
      <3>1. Tagged(port, 0) \in Tags /\ Tagged(port, 0).port = port
        BY DoorbellAssumption DEF Tagged
      <3> QED BY <2>1, <3>1 DEF Send, ControlOK, Idle, HostRuns, doorVars
    <2>2. CASE StartCall(port, kind)
      <3>1. nextCall' \in 0 .. IdMod - 1
        BY <2>2, DoorbellAssumption DEF StartCall, NextId, ControlOK
      <3>2. Tagged(port, nextCall') \in Tags /\ Tagged(port, nextCall').port = port
        BY <3>1, DoorbellAssumption DEF Tagged
      <3>3. /\ task' = [tag |-> Tagged(port, nextCall'), kind |-> kind, ack |-> TRUE]
            /\ kind \in KindsOf(port)
            /\ UNCHANGED <<doorVars, reading, trapped>> /\ ~trapped
        BY <2>2 DEF StartCall
      <3> QED BY <3>1, <3>2, <3>3 DEF ControlOK, doorVars
    <2> QED BY <1>1, <2>1, <2>2
  <1>2. ASSUME NEW port \in Ports, Listen(port)
        PROVE  ControlOK' /\ [RingStep]_doorVars
    BY <1>2 DEF Listen, ControlOK, doorVars
  <1>3. CASE StartWriter \/ Request
    BY <1>3 DEF StartWriter, Request, ControlOK, Idle, HostRuns, doorVars
  <1>4. CASE Ring
    BY <1>4 DEF Ring, Idle, HostRuns, RunTurn, Rise, RingStep, ControlOK
  <1>5. CASE Strobe
    <2>1. CASE trapped
      BY <1>5, <2>1 DEF Strobe, ControlOK, doorVars
    <2>2. CASE ~trapped
      BY <1>5, <2>2 DEF Strobe, Idle, HostRuns, RunTurn, Rise, RingStep, ControlOK
    <2> QED BY <2>1, <2>2
  <1>6. CASE HostStep
    BY <1>6, HostSteps
  <1>7. CASE Turn
    BY <1>7, TurnSteps DEF RingStep
  <1>8. CASE Trap /\ UNCHANGED hostVars
    BY <1>8 DEF Trap, Next, RingStep, ControlOK, hostVars, Stopped
  <1>9. CASE UNCHANGED bellVars
    BY <1>9 DEF bellVars, hostVars, doorVars, ControlOK
  <1> QED BY <1>1, <1>2, <1>3, <1>4, <1>5, <1>6, <1>7, <1>8, <1>9 DEF BellNext

-----------------------------------------------------------------------------
\* The host's variables keep their types, and the rings theirs.
LEMMA TakenTyped ==
  ASSUME TypeOK, cq # <<>>, Head(cq).res
  PROVE  [n |-> Head(cq).n, ok |-> Head(cq).ok] \in Taken
  <1>1. Head(cq) \in Reply \cup Event
    BY DEF TypeOK
  <1>2. Head(cq) \in Reply
    BY <1>1 DEF Event
  <1> QED BY <1>2 DEF Reply, Taken

LEMMA HostTyped ==
  ASSUME TypeOK, ControlOK, HostTypeOK, [BellNext]_bellVars
  PROVE  HostTypeOK'
  <1> USE DEF HostTypeOK, Ops, hostVars, Leave
  <1>1. ASSUME NEW port \in Ports, NEW kind \in Kinds, Send(port, kind)
        PROVE  HostTypeOK'
    <2>1. Tagged(port, 0) \in Tags
      BY DoorbellAssumption DEF Tagged
    <2> QED BY <1>1, <2>1 DEF Send, Task
  <1>2. ASSUME NEW port \in Ports, NEW kind \in Kinds, StartCall(port, kind)
        PROVE  HostTypeOK'
    <2>1. NextId \in 0 .. IdMod - 1
      BY DoorbellAssumption DEF NextId
    <2>2. Tagged(port, NextId) \in Tags
      BY <2>1, DoorbellAssumption DEF Tagged
    <2> HIDE DEF NextId
    <2> QED BY <1>2, <2>1, <2>2 DEF StartCall, Task, Call
  <1>3. ASSUME NEW port \in Ports, Listen(port) PROVE HostTypeOK'
    BY <1>3 DEF Listen
  <1>4. CASE StartWriter \/ Request \/ Ring
    BY <1>4 DEF StartWriter, Request, Ring
  <1>5. CASE Strobe
    BY <1>5 DEF Strobe
  <1>6. CASE PushTask
    <2>1. Len(book) + 1 \in Nat
      BY DEF TypeOK
    <2> QED BY <1>6, <2>1 DEF PushTask, Call
  <1>7. CASE RefusePacket \/ BeginWriter \/ RingForRoom \/ Stop
    BY <1>7 DEF RefusePacket, BeginWriter, RingForRoom, Stop
  <1>8. CASE RingForReply \/ EndCall
    BY <1>8 DEF RingForReply, EndCall
  <1>9. CASE ReadReply
    BY <1>9, TakenTyped DEF ReadReply
  <1>10. CASE ReadEvent \/ ListenerThrows
    BY <1>10 DEF ReadEvent, ListenerThrows
  <1>11. CASE EndRead
    BY <1>11 DEF EndRead, Told
  <1>12. CASE Turn
    BY <1>12 DEF Turn, Return
  <1>13. CASE (Trap /\ UNCHANGED hostVars) \/ UNCHANGED bellVars
    BY <1>13 DEF bellVars
  <1> QED
    BY <1>1, <1>2, <1>3, <1>4, <1>5, <1>6, <1>7, <1>8, <1>9, <1>10, <1>11, <1>12, <1>13
       DEF BellNext, HostStep

\* The door's invariant, of the boundary.
BoundaryOK == Order /\ RoomKept /\ Answered /\ ControlOK /\ HostTypeOK

LEMMA InitBoundary == BellInit => BoundaryOK
  <1> SUFFICES ASSUME BellInit PROVE BoundaryOK
    OBVIOUS
  <1>1. Order /\ RoomKept /\ Answered
    BY InitOrder DEF BellInit, Init, RoomKept, Answered, Recorded, ExactlyOneReply
  <1>2. HostTypeOK
    <2>1. 0 \in 0 .. IdMod - 1
      BY DoorbellAssumption
    <2>2. {} \in SUBSET Ports
      OBVIOUS
    <2> QED BY <2>1, <2>2, Zenon DEF BellInit, HostTypeOK, Ops
  <1> QED BY <1>1, <1>2, InitControl DEF BoundaryOK

LEMMA BoundarySteps ==
  ASSUME BoundaryOK, [BellNext]_bellVars
  PROVE  BoundaryOK' /\ (pc' = "enospc" => pc \in {"after", "enospc"})
  <1>1. ControlOK' /\ [AnyStep]_doorVars
    BY BellSteps DEF BoundaryOK, RingStep, AnyStep
  <1>2. Order'
    BY <1>1, NextTyped, NextPlace, NextOrdered DEF BoundaryOK, Order
  <1>3. RoomKept' /\ (pc' = "enospc" => pc \in {"after", "enospc"})
    BY <1>1, NextRoom DEF BoundaryOK
  <1>4. Answered'
    BY <1>1, NextAnswered DEF BoundaryOK
  <1>5. HostTypeOK'
    BY HostTyped DEF BoundaryOK, Order
  <1> QED BY <1>1, <1>2, <1>3, <1>4, <1>5 DEF BoundaryOK

(***************************************************************************)
(* BoundaryHolds: over listeners that throw, and the frames they leave     *)
(* unread when the next turn is rung, each submission is applied once and  *)
(* in order and answered exactly where owed, and no drain overruns the     *)
(* completion ring (Door::drain, Doorbell.read).                           *)
(***************************************************************************)
THEOREM BoundaryKept == BellSpec => BoundaryHolds
  <1>1. BoundaryOK /\ [BellNext]_bellVars => BoundaryOK'
    BY BoundarySteps
  <1>2. BoundaryOK => BellTypeOK /\ AppliedInOrderOnce /\ ExactlyOneReply
    BY DEF BoundaryOK, Order, BellTypeOK, Answered, ExactlyOneReply
  <1>3. BoundaryOK /\ [BellNext]_bellVars
          => [pc' = "enospc" => pc \in {"after", "enospc"}]_doorVars
    BY BoundarySteps
  <1> QED BY <1>1, <1>2, <1>3, InitBoundary, PTL
          DEF BellSpec, BoundaryHolds, DrainNeverOverruns
-----------------------------------------------------------------------------
(***************************************************************************)
(* Where no listener throws: outside a reading the completion ring is dry, *)
(* and the strobe has been told of the last turn's wake; a turn, and the   *)
(* reading after it, are of some operation.                                *)
(***************************************************************************)
DryOK ==
  /\ pc = "host" /\ ~reading => cq = <<>>
  /\ pc = "host" /\ ~reading /\ wake = "next" => asked
  /\ reading \/ pc \in {"drain", "handle", "after"} => op # "idle"

LEMMA DrySteps ==
  ASSUME ControlOK, HostTypeOK, DryOK, [BellNext]_bellVars, ~ListenersThrow
  PROVE  DryOK'
  <1> USE DEF DryOK, ControlOK, Idle, HostRuns, Leave, doorVars, hostVars, Stopped, RunTurn
  <1>1. ASSUME NEW port \in Ports, NEW kind \in Kinds, Send(port, kind) \/ StartCall(port, kind)
        PROVE  DryOK'
    BY <1>1 DEF Send, StartCall
  <1>2. ASSUME NEW port \in Ports, Listen(port) PROVE DryOK'
    BY <1>2 DEF Listen
  <1>3. CASE StartWriter \/ Request
    BY <1>3 DEF StartWriter, Request
  <1>4. CASE Ring
    BY <1>4 DEF Ring
  <1>5. CASE Strobe
    BY <1>5 DEF Strobe
  <1>6. CASE PushTask
    BY <1>6 DEF PushTask
  <1>7. CASE RefusePacket \/ BeginWriter \/ RingForRoom
    BY <1>7 DEF RefusePacket, BeginWriter, RingForRoom
  <1>8. CASE RingForReply \/ EndCall
    BY <1>8 DEF RingForReply, EndCall
  <1>9. CASE ReadReply \/ ReadEvent
    BY <1>9 DEF ReadReply, ReadEvent
  <1>10. CASE ListenerThrows
    BY <1>10 DEF ListenerThrows
  <1>11. CASE EndRead
    BY <1>11 DEF EndRead, Told
  <1>12. CASE Stop
    BY <1>12 DEF Stop
  <1>13. CASE Turn
    <2>1. ASSUME NEW w \in Wakes, Return(w) PROVE DryOK'
      BY <2>1 DEF Return, Fall
    <2>2. CASE /\ \/ Hand \/ SettleOwn \/ EndDrain
                  \/ \E ok \in BOOLEAN : Answer(ok)
                  \/ \E tag \in Tags : Raise(tag)
               /\ UNCHANGED hostVars
      <3>1. pc \in {"drain", "handle", "after"} /\ pc' \in {"drain", "handle", "after", "enospc"}
        BY <2>2 DEF Hand, SettleOwn, EndDrain, Answer, Raise, Settle, Post
      <3>2. UNCHANGED <<reading, op, asked>> /\ ~reading /\ op # "idle"
        BY <2>2, <3>1
      <3> QED BY <3>1, <3>2
    <2> QED BY <1>13, <2>1, <2>2 DEF Turn
  <1>14. CASE (Trap /\ UNCHANGED hostVars) \/ UNCHANGED bellVars
    BY <1>14 DEF Trap, bellVars
  <1> QED
    BY <1>1, <1>2, <1>3, <1>4, <1>5, <1>6, <1>7, <1>8, <1>9, <1>10, <1>11, <1>12, <1>13, <1>14
       DEF BellNext, HostStep

\* A turn rung with the ring dry is the contract's.
LEMMA ContractSteps ==
  ASSUME ControlOK, DryOK, [BellNext]_bellVars
  PROVE  [Next]_doorVars
  <1>1. [RingStep]_doorVars
    BY BellSteps
  <1>2. ~reading /\ Rise => RingTurn
    BY DEF DryOK, Rise, RingTurn
  <1> QED BY <1>1, <1>2 DEF RingStep, Next

\* KeepsContract: the two ends together refine the door with a host that keeps
\* rules 2, 4 and 5 of the contract (Doorbell.ring, read, call, submit).
THEOREM ContractKept ==
  ASSUME ~ListenersThrow
  PROVE  BellSpec => KeepsContract
  <1>1. BellInit => BoundaryOK /\ DryOK /\ Init
    BY InitBoundary DEF BellInit, Init, DryOK
  <1>2. BoundaryOK /\ DryOK /\ [BellNext]_bellVars => (BoundaryOK /\ DryOK)' /\ [Next]_doorVars
    BY BoundarySteps, DrySteps, ContractSteps DEF BoundaryOK
  <1> QED BY <1>1, <1>2, PTL DEF BellSpec, KeepsContract, Spec

\* NoWakeLost: between operations, the strobe has been told of the wake the
\* last turn asked for, whoever rang it (Doorbell.turn).
THEOREM TellsEveryWake ==
  ASSUME ~ListenersThrow
  PROVE  BellSpec => []NoWakeLost
  <1>1. BellInit => BoundaryOK /\ DryOK
    BY InitBoundary DEF BellInit, Init, DryOK
  <1>2. BoundaryOK /\ DryOK /\ [BellNext]_bellVars => (BoundaryOK /\ DryOK)'
    BY BoundarySteps, DrySteps DEF BoundaryOK
  <1>3. DryOK => NoWakeLost
    BY DEF DryOK, NoWakeLost
  <1> QED BY <1>1, <1>2, <1>3, PTL DEF BellSpec
-----------------------------------------------------------------------------
(***************************************************************************)
(* A call and its reply.  A call that waits has its submission on the      *)
(* ring, or its reply among the completions left: so it never gives up on  *)
(* one still to come.  And while no call's id has been used twice, nothing *)
(* else there carries its tag.  Both hold over listeners that throw.       *)
(***************************************************************************)

\* What waits on the submission ring, and on the completion ring.
Asked == {sq[i] : i \in 1 .. Len(sq)}
Left  == {cq[i] : i \in 1 .. Len(cq)}

\* A turn's own steps take from the one, and add to the other what they owe.
TurnMoves ==
  /\ Asked' \subseteq Asked
  /\ \A f \in Asked \ Asked' : f.ack /\ pc' \notin Stopped
       => \E ok \in BOOLEAN : ReplyTo(f, ok) \in Left'
  /\ Left \subseteq Left'
  /\ \A c \in Left' \ Left : c.res
       => \E f \in Asked, ok \in BOOLEAN : c = ReplyTo(f, ok)

LEMMA SettleMoves ==
  ASSUME Order, sq # <<>>, NEW ok \in BOOLEAN, Settle(Head(sq), ok)
  PROVE  TurnMoves
  <1> DEFINE f == Head(sq)
             r == ReplyTo(f, ok)
  <1>1. sq \in Seq(Submission) /\ cq \in Seq(Reply \cup Event)
    BY DEF Order, TypeOK
  <1>2. f \in Asked /\ Asked = Asked' \cup {f}
    <2>1. sq' = Tail(sq)
      BY DEF Settle, Advanced
    <2> QED BY <1>1, <2>1, TakeHead DEF Asked
  <1>3. CASE Owed(f, ok)
    <2>1. \/ cq' = Append(cq, r)
          \/ cq' = cq /\ pc' = "enospc"
      BY <1>3 DEF Settle, Post
    <2>2. CASE cq' = Append(cq, r)
      <3>1. Left' = Left \cup {r}
        <4> HIDE DEF r
        <4> QED BY <1>1, <2>2, PutLast DEF Left
      <3> QED BY <1>2, <3>1 DEF TurnMoves
    <2>3. CASE cq' = cq /\ pc' = "enospc"
      BY <1>2, <2>3 DEF TurnMoves, Left, Stopped
    <2> QED BY <2>1, <2>2, <2>3
  <1>4. CASE ~Owed(f, ok)
    <2>1. cq' = cq /\ ~f.ack
      BY <1>4 DEF Settle, Owed
    <2> QED BY <1>2, <2>1 DEF TurnMoves, Left
  <1> QED BY <1>3, <1>4

LEMMA GuestMoves ==
  ASSUME Order, \/ Hand \/ SettleOwn \/ EndDrain
                \/ \E ok \in BOOLEAN : Answer(ok)
                \/ \E tag \in Tags : Raise(tag)
  PROVE  TurnMoves
  <1>1. CASE Hand \/ EndDrain
    BY <1>1 DEF Hand, EndDrain, TurnMoves, Asked, Left
  <1>2. CASE SettleOwn
    <2>1. sq # <<>> /\ Settle(Head(sq), Head(sq).kind = "nop") /\ (Head(sq).kind = "nop") \in BOOLEAN
      BY <1>2 DEF SettleOwn
    <2> QED BY <2>1, SettleMoves
  <1>3. ASSUME NEW ok \in BOOLEAN, Answer(ok) PROVE TurnMoves
    BY <1>3, HandlingFacts, SettleMoves DEF Answer
  <1>4. ASSUME NEW tag \in Tags, Raise(tag) PROVE TurnMoves
    <2> DEFINE e == [n |-> 0, tag |-> tag, res |-> FALSE, ok |-> TRUE]
    <2>1. UNCHANGED sq /\ (cq' = Append(cq, e) \/ cq' = cq) /\ ~e.res
      BY <1>4 DEF Raise, Post
    <2> HIDE DEF e
    <2>2. Left' = Left \cup {e} \/ Left' = Left
      <3>1. cq \in Seq(Reply \cup Event)
        BY DEF Order, TypeOK
      <3>2. CASE cq' = Append(cq, e)
        BY <3>1, <3>2, PutLast DEF Left
      <3>3. CASE cq' = cq
        BY <3>3 DEF Left
      <3> QED BY <2>1, <3>2, <3>3
    <2> QED BY <2>1, <2>2 DEF TurnMoves, Asked
  <1> QED BY <1>1, <1>2, <1>3, <1>4
-----------------------------------------------------------------------------
(***************************************************************************)
(* The invariant of a call.  `Coming`: its submission waits, or its reply  *)
(* does.  When the ring was empty before the turn rung for it, only the    *)
(* reply can; and once that turn is read, nothing is left.                 *)
(***************************************************************************)
Coming ==
  \/ \E f \in Asked : f.tag = call.tag /\ f.ack
  \/ \E c \in Left : c.res /\ c.tag = call.tag

CallOK ==
  /\ call # None => op \in {"submit", "await"}
  /\ op = "await" => call # None
  /\ answer # None => call # None
  /\ dry => op = "await"
  /\ op = "submit" /\ call # None => task.tag = call.tag /\ task.ack /\ call.n = 0
  /\ op = "await" /\ answer = None /\ pc \notin Stopped => Coming
  /\ dry => sq = <<>>
  /\ dry /\ pc = "host" /\ ~reading => cq = <<>>
  /\ ~protocol

LEMMA NothingThere ==
  /\ sq = <<>> => Asked = {}
  /\ cq = <<>> => Left = {}
  BY DEF Asked, Left

LEMMA RingsTyped ==
  ASSUME TypeOK
  PROVE  /\ \A f \in Asked : f \in Submission /\ f.n \in Nat \ {0}
         /\ \A c \in Left : c.res => c \in Reply /\ c.n \in Nat \ {0}
  <1>1. \A i \in 1 .. Len(sq) : sq[i] \in Submission
    BY DEF TypeOK
  <1>2. \A i \in 1 .. Len(cq) : cq[i] \in Reply \cup Event
    BY DEF TypeOK
  <1>3. \A f \in Asked : f \in Submission /\ f.n \in Nat \ {0}
    BY <1>1 DEF Asked, Submission
  <1>4. \A c \in Left : c \in Reply \cup Event
    BY <1>2 DEF Left
  <1>5. \A c \in Left : c.res => c \in Reply /\ c.n \in Nat \ {0}
    BY <1>4 DEF Reply, Event
  <1> QED BY <1>3, <1>5

\* What a push adds, and what a reading takes.
LEMMA PushAdds ==
  ASSUME TypeOK, PushTask
  PROVE  LET s == [n |-> Len(book) + 1, tag |-> task.tag, kind |-> task.kind, ack |-> task.ack]
         IN  Asked' = Asked \cup {s} /\ Left' = Left
  <1> DEFINE s == [n |-> Len(book) + 1, tag |-> task.tag, kind |-> task.kind, ack |-> task.ack]
  <1>1. sq' = Append(sq, s) /\ cq' = cq /\ sq \in Seq(Submission)
    BY DEF PushTask, TypeOK
  <1> HIDE DEF s
  <1>2. Asked' = Asked \cup {s}
    BY <1>1, PutLast DEF Asked
  <1>3. Left' = Left
    BY <1>1 DEF Left
  <1> QED BY <1>2, <1>3 DEF s

LEMMA ReadTakes ==
  ASSUME TypeOK, ReadReply \/ ReadEvent
  PROVE  Asked' = Asked /\ Left = Left' \cup {Head(cq)} /\ Head(cq) \in Left
  <1>1. sq' = sq /\ cq # <<>> /\ cq' = Tail(cq) /\ cq \in Seq(Reply \cup Event)
    BY DEF ReadReply, ReadEvent, TypeOK
  <1>2. Left = Left' \cup {Head(cq)} /\ Head(cq) \in Left
    BY <1>1, TakeHead DEF Left
  <1>3. Asked' = Asked
    BY <1>1 DEF Asked
  <1> QED BY <1>2, <1>3

\* A reply and a tag handed on are not None.
LEMMA NotNone ==
  /\ \A x \in Call \cup Taken : x # None
  BY DoorbellAssumption

LEMMA CallSteps ==
  ASSUME BoundaryOK, CallOK, [BellNext]_bellVars
  PROVE  CallOK'
  <1> USE DEF CallOK, Leave, HostRuns, Idle, hostVars
  <1>0. /\ TypeOK /\ Order /\ ControlOK /\ HostTypeOK
        /\ reading => pc = "host"
        /\ trapped => pc \in Stopped /\ op = "idle"
    BY DEF BoundaryOK, Order, ControlOK
  <1>1. ASSUME NEW port \in Ports, NEW kind \in Kinds, Send(port, kind)
        PROVE  CallOK'
    BY <1>1 DEF Send, Coming, doorVars
  <1>2. ASSUME NEW port \in Ports, NEW kind \in Kinds, StartCall(port, kind)
        PROVE  CallOK'
    BY <1>2 DEF StartCall, doorVars
  <1>3. CASE (\E port \in Ports : Listen(port)) \/ StartWriter \/ Request
    BY <1>3 DEF Listen, StartWriter, Request, doorVars, Coming, Asked, Left
  <1>4. CASE Ring
    BY <1>4 DEF Ring, RunTurn
  <1>5. CASE Strobe
    BY <1>5 DEF Strobe, RunTurn, doorVars
  <1>6. CASE PushTask
    <2> DEFINE s == [n |-> Len(book) + 1, tag |-> task.tag, kind |-> task.kind, ack |-> task.ack]
    <2>1. Asked' = Asked \cup {s}
      BY <1>0, <1>6, PushAdds
    <2>2. /\ op = "submit" /\ ~dry /\ UNCHANGED <<answer, dry, protocol>>
          /\ IF call = None THEN op' = "idle" /\ UNCHANGED call
             ELSE op' = "await" /\ call' = [call EXCEPT !.n = Len(book) + 1]
      BY <1>6 DEF PushTask
    <2>3. CASE call = None
      BY <2>2, <2>3
    <2>4. CASE call # None
      <3>1. call \in Call /\ Len(book) + 1 \in Nat
        BY <1>0, <2>4 DEF HostTypeOK, TypeOK
      <3>2. call' \in Call /\ call'.tag = call.tag
        BY <2>2, <2>4, <3>1 DEF Call
      <3>3. s.tag = call'.tag /\ s.ack /\ s \in Asked'
        BY <2>1, <2>2, <2>4, <3>2
      <3>4. Coming'
        BY <3>3 DEF Coming
      <3> QED BY <2>2, <2>4, <3>2, <3>4, NotNone
    <2> QED BY <2>3, <2>4
  <1>7. CASE RefusePacket \/ BeginWriter \/ ListenerThrows \/ Stop
    BY <1>7 DEF RefusePacket, BeginWriter, ListenerThrows, Stop, doorVars
  <1>8. CASE RingForRoom
    BY <1>8 DEF RingForRoom, RunTurn
  <1>9. CASE RingForReply
    <2>1. op = "await" /\ pc = "host" /\ answer = None /\ Coming
      BY <1>0, <1>9 DEF RingForReply, Stopped
    <2>2. Coming'
      BY <1>9, <2>1 DEF RingForReply, RunTurn, Coming, Asked, Left
    <2> QED BY <1>9, <2>1, <2>2 DEF RingForReply, RunTurn
  <1>10. CASE EndCall
    <2>1. pc = "host" /\ op = "await" /\ ~reading
      BY <1>0, <1>10 DEF EndCall
    <2>2. answer # None
      <3> SUFFICES ASSUME answer = None PROVE FALSE
        OBVIOUS
      <3>1. dry /\ sq = <<>> /\ cq = <<>> /\ Coming
        BY <1>10, <2>1 DEF EndCall, Stopped
      <3> QED BY <3>1, NothingThere DEF Coming
    <2> QED BY <1>10, <2>2 DEF EndCall, doorVars
  <1>11. CASE ReadReply
    <2>1. Asked' = Asked /\ Left = Left' \cup {Head(cq)}
      BY <1>0, <1>11, ReadTakes
    <2>2. UNCHANGED <<sq, pc, op, task, call, dry, reading, protocol>> /\ reading
      BY <1>11 DEF ReadReply
    <2>3. CASE call # None /\ Head(cq).tag = call.tag
      <3>1. answer' \in Taken
        BY <1>0, <1>11, <2>3, TakenTyped DEF ReadReply
      <3> QED BY <2>2, <2>3, <3>1, NotNone
    <2>4. CASE ~(call # None /\ Head(cq).tag = call.tag)
      <3>1. UNCHANGED answer
        BY <1>11, <2>4 DEF ReadReply
      <3>2. call # None /\ Coming => Coming'
        BY <2>1, <2>2, <2>4 DEF Coming
      <3> QED BY <2>2, <3>1, <3>2
    <2> QED BY <2>3, <2>4
  <1>12. CASE ReadEvent
    <2>1. Asked' = Asked /\ Left = Left' \cup {Head(cq)} /\ ~Head(cq).res
      BY <1>0, <1>12, ReadTakes DEF ReadEvent
    <2>2. UNCHANGED <<sq, pc, hostVars>> /\ reading
      BY <1>12 DEF ReadEvent
    <2>3. Coming => Coming'
      BY <2>1, <2>2 DEF Coming
    <2> QED BY <2>2, <2>3
  <1>13. CASE EndRead
    BY <1>13 DEF EndRead, doorVars, Coming, Asked, Left
  <1>14. CASE /\ \/ Hand \/ SettleOwn \/ EndDrain
                 \/ \E ok \in BOOLEAN : Answer(ok)
                 \/ \E tag \in Tags : Raise(tag)
              /\ UNCHANGED hostVars
    <2>1. TurnMoves
      BY <1>0, <1>14, GuestMoves
    <2>2. pc \in {"drain", "handle", "after"} /\ pc' \in {"drain", "handle", "after", "enospc"}
      BY <1>14 DEF Hand, SettleOwn, EndDrain, Answer, Raise, Settle, Post
    <2>3. UNCHANGED <<op, task, call, answer, dry, reading, protocol>>
      BY <1>14
    <2>4. sq = <<>> => sq' = <<>>
      <3>1. sq = <<>> => Asked' = {}
        BY <2>1, NothingThere DEF TurnMoves
      <3>2. sq' \in Seq(Submission)
        BY <1>0, <1>14, NextTyped DEF AnyStep, Next, GuestStep, TypeOK
      <3>3. Asked' = {} => sq' = <<>>
        <4>1. sq' # <<>> => 1 \in 1 .. Len(sq')
          BY <3>2
        <4> QED BY <4>1 DEF Asked
      <3> QED BY <3>1, <3>3
    <2>5. Coming /\ pc' \notin Stopped => Coming'
      <3> SUFFICES ASSUME Coming, pc' \notin Stopped PROVE Coming'
        OBVIOUS
      <3>1. ASSUME NEW f \in Asked, f.tag = call.tag, f.ack PROVE Coming'
        <4>1. CASE f \in Asked'
          BY <2>3, <3>1, <4>1 DEF Coming
        <4>2. CASE f \notin Asked'
          <5>1. PICK ok \in BOOLEAN : ReplyTo(f, ok) \in Left'
            BY <2>1, <3>1, <4>2 DEF TurnMoves
          <5>2. ReplyTo(f, ok).res /\ ReplyTo(f, ok).tag = call'.tag
            BY <2>3, <3>1 DEF ReplyTo
          <5> QED BY <5>1, <5>2 DEF Coming
        <4> QED BY <4>1, <4>2
      <3>2. ASSUME NEW c \in Left, c.res, c.tag = call.tag PROVE Coming'
        BY <2>1, <2>3, <3>2 DEF TurnMoves, Coming
      <3> QED BY <3>1, <3>2 DEF Coming
    <2> QED BY <2>2, <2>3, <2>4, <2>5 DEF Stopped
  <1>15. ASSUME NEW w \in Wakes, Return(w) PROVE CallOK'
    BY <1>15 DEF Return, Fall, Coming, Asked, Left, Stopped
  <1>16. CASE Trap /\ UNCHANGED hostVars
    BY <1>16 DEF Trap, Stopped
  <1>17. CASE UNCHANGED bellVars
    BY <1>17 DEF bellVars, doorVars, Coming, Asked, Left
  <1> QED
    BY <1>1, <1>2, <1>3, <1>4, <1>5, <1>6, <1>7, <1>8, <1>9, <1>10, <1>11, <1>12, <1>13,
       <1>14, <1>15, <1>16, <1>17 DEF BellNext, HostStep, Turn

\* NoProtocolError: a call never gives up on a reply still to come, whatever
\* listeners do (Doorbell.call, Door::drain).
THEOREM NeverGivesUp == BellSpec => []NoProtocolError
  <1>1. BellInit => BoundaryOK /\ CallOK
    BY InitBoundary DEF BellInit, Init, CallOK
  <1>2. BoundaryOK /\ CallOK /\ [BellNext]_bellVars => (BoundaryOK /\ CallOK)'
    BY BoundarySteps, CallSteps
  <1>3. CallOK => NoProtocolError
    BY DEF CallOK, NoProtocolError
  <1> QED BY <1>1, <1>2, <1>3, PTL DEF BellSpec
-----------------------------------------------------------------------------
\* No call takes an id that wraps: those before it, and sends, have smaller.
IdsFresh ==
  [][\A port \in Ports, kind \in Kinds : StartCall(port, kind) => nextCall' > nextCall]_bellVars

(***************************************************************************)
(* The invariant: no id on the rings is past the last call's, and what     *)
(* carries the tag of the call waiting is its own.                         *)
(***************************************************************************)
Mine(f) ==
  /\ f.tag.id <= nextCall
  /\ call # None /\ f.tag = call.tag => f.n = call.n

FreshOK ==
  /\ op = "submit" => task.tag.id <= nextCall
  /\ call # None => call.tag.id = nextCall
  /\ \A f \in Asked : Mine(f)
  /\ \A c \in Left : c.res => Mine(c)
  /\ answer # None => answer.n = call.n

\* With the call as it was, what is taken or moved leaves the rest its own.
LEMMA StaysMine ==
  ASSUME FreshOK, UNCHANGED <<call, nextCall>>,
         \A f \in Asked' : Mine(f),
         \A c \in Left' : c.res => Mine(c)
  PROVE  /\ \A f \in Asked' : Mine(f)'
         /\ \A c \in Left' : c.res => Mine(c)'
  BY DEF Mine

LEMMA FreshSteps ==
  ASSUME BoundaryOK, CallOK, FreshOK, [BellNext]_bellVars,
         \A port \in Ports, kind \in Kinds : StartCall(port, kind) => nextCall' > nextCall
  PROVE  FreshOK'
  <1> USE DEF Leave, hostVars
  <1>0. /\ TypeOK /\ Order /\ HostTypeOK /\ nextCall \in Nat
        /\ op = "submit" => task.tag \in Tags
        /\ \A tag \in Tags : tag.id \in Nat
        /\ \A c \in Left : c.res => c \in Reply /\ c.tag \in Tags
        /\ \A f \in Asked : f \in Submission /\ f.tag \in Tags
    <2>1. TypeOK /\ Order /\ HostTypeOK /\ ControlOK
      BY DEF BoundaryOK, Order
    <2>2. nextCall \in Nat /\ \A tag \in Tags : tag.id \in Nat
      BY <2>1, DoorbellAssumption DEF ControlOK
    <2>3. op = "submit" => task.tag \in Tags
      BY <2>1 DEF ControlOK
    <2>4. /\ \A c \in Left : c.res => c \in Reply /\ c.tag \in Tags
          /\ \A f \in Asked : f \in Submission /\ f.tag \in Tags
      BY <2>1, RingsTyped DEF Submission, Reply
    <2> QED BY <2>1, <2>2, <2>3, <2>4
  <1>1. ASSUME UNCHANGED <<sq, cq, op, task, call, answer, nextCall>> PROVE FreshOK'
    BY <1>1 DEF FreshOK, Mine, Asked, Left
  <1>2. ASSUME UNCHANGED <<sq, cq, nextCall>>, task' = None, call' = None, answer' = None, op' = "idle"
        PROVE  FreshOK'
    BY <1>2 DEF FreshOK, Mine, Asked, Left
  <1>3. ASSUME NEW port \in Ports, NEW kind \in Kinds, Send(port, kind)
        PROVE  FreshOK'
    <2>1. task'.tag.id = 0 /\ UNCHANGED <<sq, cq, call, answer, nextCall>>
      BY <1>3 DEF Send, Tagged, doorVars
    <2> QED BY <1>0, <2>1 DEF FreshOK, Mine, Asked, Left
  <1>4. ASSUME NEW port \in Ports, NEW kind \in Kinds, StartCall(port, kind)
        PROVE  FreshOK'
    <2>1. /\ UNCHANGED <<sq, cq, answer>> /\ nextCall' > nextCall /\ op = "idle"
          /\ task'.tag.id = nextCall' /\ call'.tag.id = nextCall'
      BY <1>4 DEF StartCall, Tagged, doorVars, Idle
    <2>2. answer = None
      BY <2>1 DEF CallOK
    <2>3. nextCall' \in Nat
      BY <1>4, DoorbellAssumption DEF StartCall, NextId, BoundaryOK, ControlOK
    <2>4. ASSUME NEW f, f.tag \in Tags, Mine(f) PROVE Mine(f)'
      <3>1. f.tag.id < nextCall'
        BY <1>0, <2>1, <2>3, <2>4 DEF Mine
      <3>2. f.tag # call'.tag
        BY <1>0, <2>1, <2>3, <2>4, <3>1
      <3> QED BY <1>0, <2>3, <2>4, <3>1, <3>2 DEF Mine
    <2>5. Asked' = Asked /\ Left' = Left
      BY <2>1 DEF Asked, Left
    <2>6. task'.tag.id <= nextCall'
      BY <2>1, <2>3
    <2> QED BY <1>0, <2>1, <2>2, <2>4, <2>5, <2>6 DEF FreshOK
  <1>5. CASE PushTask
    <2> DEFINE s == [n |-> Len(book) + 1, tag |-> task.tag, kind |-> task.kind, ack |-> task.ack]
    <2>1. Asked' = Asked \cup {s} /\ Left' = Left
      BY <1>0, <1>5, PushAdds
    <2>2. /\ op = "submit" /\ op' # "submit" /\ UNCHANGED <<answer, nextCall>>
          /\ call = None => UNCHANGED call
          /\ call # None => call' = [call EXCEPT !.n = Len(book) + 1]
      BY <1>5 DEF PushTask
    <2>3. s.tag.id <= nextCall /\ s.tag = task.tag /\ s.n = Len(book) + 1
      BY <2>2 DEF FreshOK
    <2>4. CASE call = None
      BY <2>1, <2>2, <2>3, <2>4 DEF FreshOK, Mine, CallOK
    <2>5. CASE call # None
      <3>1. /\ call \in Call /\ call.n = 0 /\ Len(book) + 1 \in Nat
            /\ answer \in Taken \cup {None}
        BY <1>0, <2>2, <2>5 DEF HostTypeOK, TypeOK, CallOK
      <3>2. call'.n = Len(book) + 1 /\ call'.tag = call.tag
        BY <2>2, <2>5, <3>1 DEF Call
      <3>3. answer = None
        BY <3>1 DEF FreshOK, Taken
      <3>4. ASSUME NEW f, f.n # 0, Mine(f) PROVE Mine(f)'
        BY <2>2, <2>5, <3>1, <3>2, <3>4 DEF Mine
      <3>5. /\ \A f \in Asked : f.n # 0
            /\ \A c \in Left : c.res => c.n # 0
        BY <1>0, RingsTyped
      <3>6. ASSUME NEW f, f = s PROVE f.n # 0 => Mine(f)'
        BY <2>2, <2>3, <3>2, <3>6 DEF Mine
      <3>7. s.n # 0
        BY <3>1
      <3> HIDE DEF s
      <3>8. (\A f \in Asked' : Mine(f)') /\ (\A c \in Left' : c.res => Mine(c)')
        BY <2>1, <3>4, <3>5, <3>6, <3>7 DEF FreshOK
      <3>9. call'.tag.id = nextCall'
        BY <2>2, <2>5, <3>2 DEF FreshOK
      <3> QED BY <2>2, <3>3, <3>8, <3>9 DEF FreshOK
    <2> QED BY <2>4, <2>5
  <1>6. CASE ReadReply
    <2>1. Asked' = Asked /\ Left = Left' \cup {Head(cq)} /\ Head(cq) \in Left
      BY <1>0, <1>6, ReadTakes
    <2>2. UNCHANGED <<op, task, call, nextCall>> /\ Head(cq).res
      BY <1>6 DEF ReadReply
    <2>3. (\A f \in Asked' : Mine(f)') /\ (\A c \in Left' : c.res => Mine(c)')
      BY <2>1, <2>2, StaysMine DEF FreshOK
    <2>4. answer' # None => answer'.n = call'.n
      <3>1. CASE call # None /\ Head(cq).tag = call.tag
        BY <1>6, <2>1, <2>2, <3>1 DEF ReadReply, FreshOK, Mine
      <3>2. CASE ~(call # None /\ Head(cq).tag = call.tag)
        BY <1>6, <2>2, <3>2 DEF ReadReply, FreshOK
      <3> QED BY <3>1, <3>2
    <2> QED BY <2>2, <2>3, <2>4 DEF FreshOK
  <1>7. CASE ReadEvent
    <2>1. Asked' = Asked /\ Left = Left' \cup {Head(cq)}
      BY <1>0, <1>7, ReadTakes
    <2>2. UNCHANGED <<op, task, call, answer, nextCall>>
      BY <1>7 DEF ReadEvent
    <2>3. (\A f \in Asked' : Mine(f)') /\ (\A c \in Left' : c.res => Mine(c)')
      BY <2>1, <2>2, StaysMine DEF FreshOK
    <2> QED BY <2>2, <2>3 DEF FreshOK
  <1>8. CASE /\ \/ Hand \/ SettleOwn \/ EndDrain
                \/ \E ok \in BOOLEAN : Answer(ok)
                \/ \E tag \in Tags : Raise(tag)
             /\ UNCHANGED hostVars
    <2>1. TurnMoves
      BY <1>0, <1>8, GuestMoves
    <2>2. UNCHANGED <<op, task, call, answer, nextCall>>
      BY <1>8
    <2>3. ASSUME NEW c \in Left', c.res PROVE Mine(c)
      <3>1. CASE c \in Left
        BY <2>3, <3>1 DEF FreshOK
      <3>2. CASE c \notin Left
        <4>1. PICK f \in Asked, ok \in BOOLEAN : c = ReplyTo(f, ok)
          BY <2>1, <2>3, <3>2 DEF TurnMoves
        <4>2. c.n = f.n /\ c.tag = f.tag
          BY <4>1 DEF ReplyTo
        <4> QED BY <4>2 DEF FreshOK, Mine
      <3> QED BY <3>1, <3>2
    <2>4. \A f \in Asked' : Mine(f)
      BY <2>1 DEF TurnMoves, FreshOK
    <2>5. (\A f \in Asked' : Mine(f)') /\ (\A c \in Left' : c.res => Mine(c)')
      BY <2>2, <2>3, <2>4, StaysMine
    <2> QED BY <2>2, <2>5 DEF FreshOK
  <1>9. CASE StartWriter \/ Ring
    <2>1. UNCHANGED <<sq, cq, task, call, answer, nextCall>> /\ op' # "submit"
      BY <1>9 DEF StartWriter, Ring, RunTurn, doorVars
    <2> QED BY <2>1 DEF FreshOK, Mine, Asked, Left
  <1>10. CASE Strobe \/ BeginWriter \/ EndRead
    <2>1. UNCHANGED <<sq, cq, task, call, answer, nextCall>> /\ (op' = op \/ op' # "submit")
      BY <1>10 DEF Strobe, BeginWriter, EndRead, RunTurn, doorVars
    <2> QED BY <2>1 DEF FreshOK, Mine, Asked, Left
  <1>11. CASE RefusePacket \/ ListenerThrows \/ Stop \/ EndCall
    BY <1>2, <1>11 DEF RefusePacket, ListenerThrows, Stop, EndCall, doorVars
  <1>12. CASE \/ Request \/ RingForRoom \/ RingForReply
              \/ (\E port \in Ports : Listen(port))
              \/ (\E w \in Wakes : Return(w))
              \/ (Trap /\ UNCHANGED hostVars) \/ UNCHANGED bellVars
    BY <1>1, <1>12
       DEF Request, RingForRoom, RingForReply, RunTurn, Listen, Return, Fall, Trap, bellVars, doorVars
  <1> QED
    BY <1>3, <1>4, <1>5, <1>6, <1>7, <1>8, <1>9, <1>10, <1>11, <1>12 DEF BellNext, HostStep, Turn

\* OwnReply: the reply a call takes is its own submission's, as long as no
\* call's id has wrapped (Doorbell.call, next_call).
THEOREM TakesOwnReply == BellSpec /\ IdsFresh => []OwnReply
  <1> DEFINE Fresh ==
        \A port \in Ports, kind \in Kinds : StartCall(port, kind) => nextCall' > nextCall
             IInv == BoundaryOK /\ CallOK /\ FreshOK
  <1>1. BellInit => IInv
    <2> SUFFICES ASSUME BellInit PROVE IInv
      OBVIOUS
    <2>1. CallOK
      BY DEF BellInit, Init, CallOK
    <2>2. FreshOK
      BY NothingThere DEF BellInit, Init, FreshOK
    <2> QED BY <2>1, <2>2, InitBoundary
  <1>2. IInv /\ [BellNext]_bellVars /\ [Fresh]_bellVars => IInv'
    <2> SUFFICES ASSUME IInv, [BellNext]_bellVars, [Fresh]_bellVars PROVE IInv'
      OBVIOUS
    <2>1. BoundaryOK' /\ CallOK'
      BY BoundarySteps, CallSteps
    <2>2. CASE Fresh
      BY <2>1, <2>2, FreshSteps
    <2>3. CASE UNCHANGED bellVars
      BY <2>1, <2>3 DEF FreshOK, Mine, Asked, Left, bellVars, hostVars, doorVars
    <2> QED BY <2>2, <2>3
  <1>3. IInv => OwnReply
    BY DEF FreshOK, CallOK, OwnReply
  <1> HIDE DEF IInv
  <1> QED BY <1>1, <1>2, <1>3, PTL DEF BellSpec, IdsFresh
=============================================================================
