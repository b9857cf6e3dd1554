-------------------------------- MODULE Ring --------------------------------
(***************************************************************************)
(* One ring of frames as it lies in the core memory: the header's head and *)
(* tail words, the frames, and the payload slots, one a frame              *)
(* (guest ipc/ring.rs, host ipc/ring.ts; laid out by spec/ipc/ring.json).  *)
(*                                                                         *)
(* Positions only grow, in words of the machine's width: PosMod stands for *)
(* 2^32, and all position arithmetic is modulo it.  A position is masked   *)
(* to its frame and to its slot.  The producer alone writes the tail, the  *)
(* consumer alone the head.                                                *)
(*                                                                         *)
(* A producer is one of two.  The host ("writer") begins its one packet    *)
(* writer over the tail's slot, fills it over as many steps as it likes,   *)
(* and publishes the frame later.  The guest ("inplace") fills the slot    *)
(* and publishes in one call.                                              *)
(***************************************************************************)
EXTENDS Integers, Sequences

CONSTANTS
  Cap,       \* frames the ring holds, a power of two
  PosMod,    \* 2^width of a position
  Msgs,      \* a frame's own words: its tag, command, flags and result
  Pkts,      \* packets that fit a slot
  Oversize,  \* a packet that does not: its writer has overflowed the slot
  None       \* no slot, no view, no packet

RingAssumption ==
  /\ Cap \in Nat \ {0}
  /\ PosMod \in Nat
  /\ Cap < PosMod
  /\ PosMod % Cap = 0
  /\ Msgs # {}
  /\ Oversize \notin Pkts
  /\ None \notin Pkts \cup {Oversize} \cup (0 .. Cap - 1) \cup (0 .. PosMod - 1)

VARIABLES
  head,    \* the next position read
  tail,    \* the next position written
  frames,  \* the frame words, by masked position
  slots,   \* the payload slots, by masked position
  begun,   \* the slot the host's writer was begun over, while it is valid
  view,    \* the position the consumer is looking at, until it advances
  producer \* which producer the ring was laid out for

ringVars == <<head, tail, frames, slots, begun, view, producer>>

Position == 0 .. PosMod - 1
SlotIds  == 0 .. Cap - 1
Frame    == [msg : Msgs, pkt_at : SlotIds \cup {None}]
-----------------------------------------------------------------------------
\* Mutant of LenOf: not modulo the width.
LenUnwrapped(h, t) == t - h

\* tail.wrapping_sub(head)
LenOf(h, t) == (t - h) % PosMod
Length == LenOf(head, tail)

\* pos & mask, for a power of two.
SlotAt(pos) == pos % Cap

\* Mutant of Room: off by one.
RoomOneMore == Length <= Cap

Room == Length < Cap

RingInit ==
  /\ head = 0
  /\ tail = 0
  /\ frames = [s \in SlotIds |-> [msg |-> CHOOSE m \in Msgs : TRUE, pkt_at |-> None]]
  /\ slots = [s \in SlotIds |-> None]
  /\ begun = None
  /\ view = None
  /\ producer \in {"writer", "inplace"}

\* Mutant of Publish: the tail is not wrapped.
PublishUnwrapped(m, at) ==
  /\ frames' = [frames EXCEPT ![SlotAt(tail)] = [msg |-> m, pkt_at |-> at]]
  /\ tail' = tail + 1

\* The frame's four words, then the tail that hands it over.
Publish(m, at) ==
  /\ frames' = [frames EXCEPT ![SlotAt(tail)] = [msg |-> m, pkt_at |-> at]]
  /\ tail' = (tail + 1) % PosMod

\* A frame of no packet; it leaves a begun writer where it was.
PushBare(m) ==
  /\ Room
  /\ Publish(m, None)
  /\ UNCHANGED <<head, slots, begun, view, producer>>

\* The guest's push in place: the slot is filled first, and a packet that
\* does not fit is refused with its bytes left in the slot (EMSGSIZE).
PushInPlace(m, p) ==
  /\ producer = "inplace"
  /\ Room
  /\ slots' = [slots EXCEPT ![SlotAt(tail)] = p]
  /\ IF p = Oversize
       THEN UNCHANGED <<frames, tail>>
       ELSE Publish(m, SlotAt(tail))
  /\ UNCHANGED <<head, begun, view, producer>>

\* The host's writer, begun over the tail's slot; nothing when full.
BeginPush ==
  /\ producer = "writer"
  /\ Room
  /\ begun' = SlotAt(tail)
  /\ UNCHANGED <<head, tail, frames, slots, view, producer>>

\* The writer's own stores, in the slot it was begun over.
Fill(p) ==
  /\ begun # None
  /\ slots' = [slots EXCEPT ![begun] = p]
  /\ UNCHANGED <<head, tail, frames, begun, view, producer>>

\* The push of a begun writer: refused by an exception when the tail has
\* moved since it was begun, with EMSGSIZE when the packet overflowed; both
\* leave the ring as it was.
PushBegun(m) ==
  /\ begun # None
  /\ Room
  /\ begun = SlotAt(tail)
  /\ slots[begun] \in Pkts
  /\ Publish(m, begun)
  /\ begun' = None
  /\ UNCHANGED <<head, slots, view, producer>>

\* The consumer's frame and the view of its packet, valid until `advance`.
Peek ==
  /\ Length # 0
  /\ view = None
  /\ view' = head
  /\ UNCHANGED <<head, tail, frames, slots, begun, producer>>

Advance ==
  /\ Length # 0
  /\ view = head
  /\ head' = (head + 1) % PosMod
  /\ view' = None
  /\ UNCHANGED <<tail, frames, slots, begun, producer>>

RingNext ==
  \/ \E m \in Msgs : PushBare(m) \/ PushBegun(m)
  \/ \E m \in Msgs, p \in Pkts \cup {Oversize} : PushInPlace(m, p)
  \/ \E p \in Pkts \cup {Oversize} : Fill(p)
  \/ BeginPush
  \/ Peek
  \/ Advance

RingSpec == RingInit /\ [][RingNext]_ringVars
-----------------------------------------------------------------------------
RingTypeOK ==
  /\ head \in Position
  /\ tail \in Position
  /\ frames \in [SlotIds -> Frame]
  /\ slots \in [SlotIds -> Pkts \cup {Oversize, None}]
  /\ begun \in SlotIds \cup {None}
  /\ view \in Position \cup {None}
  /\ producer \in {"writer", "inplace"}

\* What the frame at a position carries, as its reader takes it.
ItemAt(pos) ==
  LET f == frames[SlotAt(pos)]
  IN  [msg |-> f.msg, pkt |-> IF f.pkt_at = None THEN None ELSE slots[f.pkt_at]]

\* The frames waiting, oldest first.
Waiting == [i \in 1 .. Length |-> ItemAt((head + i - 1) % PosMod)]

(***************************************************************************)
(* The ring is a bounded queue: what is pushed is read, whole, once and in *)
(* order, whatever the positions have wrapped to, and a full ring is never *)
(* taken for an empty one.                                                 *)
(***************************************************************************)
Queue == INSTANCE Fifo WITH
  Items <- [msg : Msgs, pkt : Pkts \cup {None}],
  queue <- Waiting

ImplementsFifo == Queue!Spec

(***************************************************************************)
(* The consumer acts on the frame and reads the packet where it lies, with *)
(* no copy, until it advances: no push, begun, filled or refused meanwhile *)
(* may touch the words it is looking at (Ring.pkt "valid until advance").  *)
(***************************************************************************)
ViewStands ==
  [][view # None /\ view' = view => ItemAt(view)' = ItemAt(view)]_ringVars

(***************************************************************************)
(* The ring is a bounded queue, whatever its positions wrap to, and no     *)
(* push writes the frame its consumer looks at.                            *)
(***************************************************************************)
BoundedQueue ==
  /\ ImplementsFifo
  /\ ViewStands
  /\ [](RingTypeOK)
=============================================================================
