------------------------------ MODULE SlabHalf ------------------------------
(***************************************************************************)
(* The C++ slab where a request is above half a page (kit alloc/slab.hpp). *)
(* Its class is CLASS_CNT, one past the last of partial_, and the word     *)
(* behind partial_ is allocs_, which every allocation counts up: so the    *)
(* count of allocations is that class's list.  0 is an empty list.         *)
(*                                                                         *)
(* Slab is the rest of the allocator.  A run of this class is followed in  *)
(* the bytes of its header and its links, as a word moved by a count is    *)
(* read across two of them.  A pointer is an address of a little-endian    *)
(* machine; memory not written is zero, and the code's reads and writes    *)
(* are in the order it has them.  Past an access out of the range, which   *)
(* traps or falls on what is not the heap's, nothing is said.              *)
(***************************************************************************)
EXTENDS Slab

CONSTANTS
  Base,       \* the range's address
  WordBytes   \* bytes of a pointer; of a count, on the machine a guest is of

VARIABLES
  word,  \* allocs_
  mem    \* the bytes written by the runs of this class, by address

halfVars == <<pages, live, runs, partial, runLive, slotLive, word, mem>>

PageClass == MinLog2 - MinClassLog2
IsHalf(g) == IsSlot(g.asked, g.align) /\ ClassOf(g) = PageClass

\* Where a header's fields lie.
PrevAt  == 0
NextAt  == WordBytes
FreeAt  == 2 * WordBytes
InuseAt == 3 * WordBytes

Load(m, a) ==
  MapThenSumSet(LAMBDA i : (IF a + i \in DOMAIN m THEN m[a + i] ELSE 0) * 256 ^ i, 0 .. WordBytes - 1)

Store(m, a, w) == [x \in a .. a + WordBytes - 1 |-> (w \div 256 ^ (x - a)) % 256] @@ m

\* What a pointer to a header, or to a slot, reaches is the heap's.
Within(p) == Base <= p /\ p + RunBytes <= Base + EndAt
-----------------------------------------------------------------------------
\* push_partial: the list's head is the word.
PushWord(h, run) ==
  LET kept == Store(Store(h.mem, run + PrevAt, 0), run + NextAt, h.word)
  IN  [mem  |-> IF h.word = 0 THEN kept ELSE Store(kept, h.word + PrevAt, run),
       word |-> run]

\* drop_partial, and the runs on either side that it writes to.
DropWord(h, run) ==
  LET prev == Load(h.mem, run + PrevAt)
      past == IF prev = 0 THEN h.mem ELSE Store(h.mem, prev + NextAt, Load(h.mem, run + NextAt))
      next == Load(past, run + NextAt)
  IN  [mem  |-> IF next = 0 THEN past ELSE Store(past, next + PrevAt, Load(past, run + PrevAt)),
       word |-> IF prev = 0 THEN Load(h.mem, run + NextAt) ELSE h.word]

Beside(h, run) == {Load(h.mem, run + PrevAt), Load(h.mem, run + NextAt)} \ {0}

\* open_run: the free slots linked, the header written, and the run listed.
OpenedWord(h, run) ==
  LET slots == FreshSlots(run, PageClass)
      Linked(m, k) == Store(m, slots[k], IF k = Len(slots) THEN 0 ELSE slots[k + 1])
      linked == FoldLeft(Linked, h.mem, [k \in DOMAIN slots |-> k])
      kept == Store(Store(linked, run + FreeAt, slots[1]), run + InuseAt, 0)
  IN  PushWord([mem |-> kept, word |-> h.word], run)

\* A slot of the run the word names, whatever the word names; then the count.
TakeHalf(h, bytes, align) ==
  LET run   == h.word
      slot  == Load(h.mem, run + FreeAt)
      moved == Store(h.mem, run + FreeAt, Load(h.mem, slot))
      taken == [mem |-> Store(moved, run + InuseAt, Load(moved, run + InuseAt) + 1), word |-> run]
      left  == IF Load(taken.mem, run + FreeAt) = 0 THEN DropWord(taken, run) ELSE taken
  IN  /\ Within(run) /\ Within(slot)
      /\ left # taken => \A p \in Beside(taken, run) : Within(p)
      /\ mem' = left.mem
      /\ word' = left.word + 1
      /\ slotLive' = slotLive + ClassBytes(PageClass)
      /\ Handed(slot - Base, bytes, align)

AllocHalf(bytes, align) ==
  LET got == Allocated(pages, RunSize(PageClass))
      h   == [mem |-> mem, word |-> word]
  IN  /\ IsSlot(bytes, align) /\ ClassFor(bytes, align) = PageClass
      /\ IF word # 0
           THEN TakeHalf(h, bytes, align) /\ UNCHANGED <<pages, runLive>>
           ELSE /\ pages' = got.tree
                /\ IF got.at = None
                     THEN UNCHANGED <<live, runLive, slotLive, word, mem>>
                     ELSE /\ TakeHalf(OpenedWord(h, Base + got.at), bytes, align)
                          /\ runLive' = runLive + RunSize(PageClass)
      /\ UNCHANGED <<runs, partial>>

\* Any other allocation counts itself where it is served.
AllocOther(bytes, align) ==
  /\ \/ AllocPages(bytes, align)
     \/ IsSlot(bytes, align) /\ ClassFor(bytes, align) \in Classes /\ AllocSlot(bytes, align)
  /\ word' = IF live' = live THEN word ELSE word + 1
  /\ UNCHANGED mem

DeallocHalf(block) ==
  LET slot    == Base + block.at
      run     == Base + RunAt(block.at, PageClass)
      wasFull == Load(mem, run + FreeAt) = 0
      linked  == Store(Store(mem, slot, Load(mem, run + FreeAt)), run + FreeAt, slot)
      fewer   == Load(linked, run + InuseAt) - 1
      given   == [mem |-> Store(linked, run + InuseAt, fewer), word |-> word]
      left    == IF fewer = 0
                   THEN IF wasFull THEN given ELSE DropWord(given, run)
                   ELSE IF wasFull THEN PushWord(given, run) ELSE given
  IN  /\ IsHalf(block)
      /\ live' = live \ {block}
      /\ \A p \in (IF wasFull THEN {word} ELSE Beside(given, run)) \ {0} : left # given => Within(p)
      /\ mem' = left.mem
      /\ word' = left.word
      /\ slotLive' = slotLive - ClassBytes(PageClass)
      /\ IF fewer = 0
           THEN pages' = Freed(pages, run - Base, RunSize(PageClass)) /\ runLive' = runLive - RunSize(PageClass)
           ELSE UNCHANGED <<pages, runLive>>
      /\ UNCHANGED <<runs, partial>>

DeallocOther(block) == ~ IsHalf(block) /\ Dealloc(block) /\ UNCHANGED <<word, mem>>

HalfInit == SlabInit /\ word = 0 /\ mem = << >>

HalfNext ==
  \/ /\ Cardinality(live) < MostLive
     /\ \E bytes \in AllocSizes, align \in Aligns : AllocHalf(bytes, align) \/ AllocOther(bytes, align)
  \/ \E block \in live : DeallocHalf(block) \/ DeallocOther(block)

HalfSpec == HalfInit /\ [][HalfNext]_halfVars
-----------------------------------------------------------------------------
(***************************************************************************)
(* "A slot finds its run by masking its offset" (slab.hpp): the header it  *)
(* finds so counts the slots that find it, which is how the run is known   *)
(* to be given back when its last slot is.                                 *)
(***************************************************************************)
SlotsFindTheirRun ==
  \A g \in live : IsHalf(g) =>
    LET run == RunAt(g.at, PageClass)
    IN  Load(mem, Base + run + InuseAt) = Cardinality({x \in live : IsHalf(x) /\ RunAt(x.at, PageClass) = run})
=============================================================================
