-------------------------------- MODULE Slab --------------------------------
(***************************************************************************)
(* A guest's allocator (kit alloc/slab.hpp): requests below a page fall in *)
(* classes, each served from runs of slots that are blocks of a buddy tree *)
(* (BuddyTree); a page or more is a block of its own.  A run's header lies *)
(* in its first slots, its free slots are a list through them, and a class *)
(* lists its runs that have a free slot, by links in their headers.        *)
(*                                                                         *)
(* The size and the alignment are told back on free.  Addresses are as in  *)
(* BuddyTree; a header takes `RunBytes`.  The classes go up to a page's,   *)
(* and `HeadCount` is how many of them have a list's head: more than there *)
(* are in the Rust twin, all but the last in the C++.  AllocSlot is of a   *)
(* class that has a head; SlabHalf is the one the C++ has none for.        *)
(***************************************************************************)
EXTENDS BuddyTree

CONSTANTS
  AllocSizes,    \* sizes asked for
  Aligns,        \* alignments asked for
  MinClassLog2,  \* the least class
  MinSlotsLog2,  \* slots a run has at least
  RunBytes,      \* sizeof(Run)
  HeadCount,     \* heads of lists there are
  MostLive       \* allocations held at once

VARIABLES
  pages,     \* the buddy's tree
  live,      \* what is handed out: [at, asked, align]
  runs,      \* the headers: links, free slots, slots in use
  partial,   \* by class, its first run with a free slot
  runLive,   \* bytes of runs
  slotLive   \* bytes of slots in use

slabVars == <<pages, live, runs, partial, runLive, slotLive>>

Classes == {c \in 0 .. MinLog2 - MinClassLog2 : c < HeadCount}
NoRun   == -1
Larger(a, b) == IF a >= b THEN a ELSE b
-----------------------------------------------------------------------------
RunLog2(c)    == Larger(MinClassLog2 + c + MinSlotsLog2, MinLog2)
ClassBytes(c) == TwoTo[MinClassLog2 + c]
RunSize(c)    == TwoTo[RunLog2(c)]
HeadSlots(c)  == (RunBytes + ClassBytes(c) - 1) \div ClassBytes(c)
SlotsOf(c)    == TwoTo[RunLog2(c) - (MinClassLog2 + c)]

\* A header leaves each run a slot, and no run is larger than the largest block.
SlabAssumption ==
  /\ AllocSizes \subseteq Nat /\ MostLive \in Nat
  /\ \A a \in Aligns : a \in Nat /\ (a <= TwoTo[MinLog2] => \E n \in 0 .. MinLog2 : a = TwoTo[n])
  /\ MinClassLog2 \in Nat /\ MinClassLog2 <= MinLog2
  /\ MinSlotsLog2 \in Nat /\ MinLog2 + MinSlotsLog2 <= MaxLog2 /\ HeadCount \in Nat
  /\ RunBytes \in Nat \ {0} /\ \A c \in Classes : HeadSlots(c) < SlotsOf(c)

\* Mutant of Need: the alignment is not folded into the size.
NeedUnaligned(bytes, align) == Larger(bytes, 1)

Need(bytes, align) == Larger(Larger(bytes, align), 1)

IsSlot(bytes, align) == Need(bytes, align) < TwoTo[MinLog2]

\* class_for, of a request below a page.
ClassFor(bytes, align) == Min({c \in 0 .. MinLog2 - MinClassLog2 : ClassBytes(c) >= Need(bytes, align)})

\* So it is in the Rust twin, and in the C++ for requests of half a page at most.
HeadsEnough == \A bytes \in AllocSizes, align \in Aligns : IsSlot(bytes, align) => ClassFor(bytes, align) \in Classes

\* The slots of a run past its header's, lowest first.
FreshSlots(base, c) ==
  [k \in 1 .. SlotsOf(c) - HeadSlots(c) |-> base + (HeadSlots(c) + k - 1) * ClassBytes(c)]

\* The headers and the lists' heads, as one, so that steps of one call compose.
Heads == [runs |-> runs, partial |-> partial]

PushPartial(h, c, r) ==
  [runs |-> [x \in DOMAIN h.runs |->
     [prev  |-> IF x = r THEN NoRun ELSE IF x = h.partial[c] THEN r ELSE h.runs[x].prev,
      next  |-> IF x = r THEN h.partial[c] ELSE h.runs[x].next,
      free  |-> h.runs[x].free,
      inuse |-> h.runs[x].inuse]],
   partial |-> [h.partial EXCEPT ![c] = r]]

\* Mutant of DropPartial: the run after is left pointing at it.
DropPartialOneWay(h, c, r) ==
  LET run == h.runs[r]
  IN  [runs |-> [x \in DOMAIN h.runs |->
         IF x = run.prev THEN [h.runs[x] EXCEPT !.next = run.next] ELSE h.runs[x]],
       partial |-> IF run.prev = NoRun THEN [h.partial EXCEPT ![c] = run.next] ELSE h.partial]

DropPartial(h, c, r) ==
  LET run == h.runs[r]
  IN  [runs |-> [x \in DOMAIN h.runs |->
         [prev  |-> IF x = run.next THEN run.prev ELSE h.runs[x].prev,
          next  |-> IF x = run.prev THEN run.next ELSE h.runs[x].next,
          free  |-> h.runs[x].free,
          inuse |-> h.runs[x].inuse]],
       partial |-> IF run.prev = NoRun THEN [h.partial EXCEPT ![c] = run.next] ELSE h.partial]

\* open_run, of the block the buddy gave.
Opened(h, c, base) ==
  LET fresh == [prev |-> NoRun, next |-> NoRun, free |-> FreshSlots(base, c), inuse |-> 0]
  IN  PushPartial([runs |-> [x \in DOMAIN h.runs \cup {base} |-> IF x = base THEN fresh ELSE h.runs[x]],
                   partial |-> h.partial], c, base)

\* A run that has other slots free, and so many in use.
Holding(h, r, free, inuse) ==
  [runs |-> [h.runs EXCEPT ![r] = [prev |-> @.prev, next |-> @.next, free |-> free, inuse |-> inuse]],
   partial |-> h.partial]

SlabInit ==
  /\ pages = NewTree
  /\ live = {}
  /\ runs = [x \in {} |-> 0]
  /\ partial = [c \in Classes |-> NoRun]
  /\ runLive = 0
  /\ slotLive = 0

Handed(at, bytes, align) == live' = live \cup {[at |-> at, asked |-> bytes, align |-> align]}

\* A slot of the class's first run; a run that has none left leaves the list.
TakeSlot(h, c, bytes, align) ==
  LET r     == h.partial[c]
      slot  == Head(h.runs[r].free)
      taken == Holding(h, r, Tail(h.runs[r].free), h.runs[r].inuse + 1)
      left  == IF taken.runs[r].free = <<>> THEN DropPartial(taken, c, r) ELSE taken
  IN  /\ runs' = left.runs
      /\ partial' = left.partial
      /\ slotLive' = slotLive + ClassBytes(c)
      /\ Handed(slot, bytes, align)

AllocPages(bytes, align) ==
  /\ ~ IsSlot(bytes, align)
  /\ LET got == IF align > TwoTo[MinLog2] THEN Over(pages, None) ELSE Allocated(pages, bytes)
     IN  /\ pages' = got.tree
         /\ IF got.at = None THEN UNCHANGED live ELSE Handed(got.at, bytes, align)
  /\ UNCHANGED <<runs, partial, runLive, slotLive>>

AllocSlot(bytes, align) ==
  /\ IsSlot(bytes, align)
  /\ LET c   == ClassFor(bytes, align)
         got == Allocated(pages, RunSize(c))
     IN  IF partial[c] # NoRun
           THEN TakeSlot(Heads, c, bytes, align) /\ UNCHANGED <<pages, runLive>>
           ELSE /\ pages' = got.tree
                /\ IF got.at = None
                     THEN UNCHANGED <<live, runs, partial, runLive, slotLive>>
                     ELSE /\ TakeSlot(Opened(Heads, c, got.at), c, bytes, align)
                          /\ runLive' = runLive + RunSize(c)

\* Mutant of WasFull: a run is taken never to have been listed.
WasFullAlways(run) == TRUE

WasFull(run) == run.free = <<>>

\* Mutant of GiveRun: the run's bytes stay counted.
GiveRunCounted(h, c, r) ==
  LET left == IF WasFull(runs[r]) THEN h ELSE DropPartial(h, c, r)
  IN  /\ runs' = [x \in DOMAIN left.runs \ {r} |-> left.runs[x]]
      /\ partial' = left.partial
      /\ runLive' = runLive
      /\ pages' = Freed(pages, r, RunSize(c))

\* The last slot of a run: the run goes back, and every class gets its pages.
GiveRun(h, c, r) ==
  LET left == IF WasFull(runs[r]) THEN h ELSE DropPartial(h, c, r)
  IN  /\ runs' = [x \in DOMAIN left.runs \ {r} |-> left.runs[x]]
      /\ partial' = left.partial
      /\ runLive' = runLive - RunSize(c)
      /\ pages' = Freed(pages, r, RunSize(c))

GiveSlot(h, c, r) ==
  LET left == IF WasFull(runs[r]) THEN PushPartial(h, c, r) ELSE h
  IN  /\ runs' = left.runs
      /\ partial' = left.partial
      /\ UNCHANGED <<pages, runLive>>

\* The run a slot lies in, found by masking its address.
RunAt(at, c) == (at \div RunSize(c)) * RunSize(c)

Dealloc(block) ==
  LET c == ClassFor(block.asked, block.align)
      r == RunAt(block.at, c)
      h == Holding(Heads, r, <<block.at>> \o runs[r].free, runs[r].inuse - 1)
  IN  /\ live' = live \ {block}
      /\ IF IsSlot(block.asked, block.align)
           THEN /\ IF runs[r].inuse = 1 THEN GiveRun(h, c, r) ELSE GiveSlot(h, c, r)
                /\ slotLive' = slotLive - ClassBytes(c)
           ELSE /\ pages' = Freed(pages, block.at, block.asked)
                /\ UNCHANGED <<runs, partial, runLive, slotLive>>

SlabNext ==
  \/ /\ Cardinality(live) < MostLive
     /\ \E bytes \in AllocSizes, align \in Aligns : AllocPages(bytes, align) \/ AllocSlot(bytes, align)
  \/ \E block \in live : Dealloc(block)

SlabSpec == SlabInit /\ [][SlabNext]_slabVars
-----------------------------------------------------------------------------
\* An allocation's class, where it is a slot; the run it lies in; its extent.
ClassOf(g) == ClassFor(g.asked, g.align)
InSlots    == {g \in live : IsSlot(g.asked, g.align)}
Owned(r)   == {g \in InSlots : RunAt(g.at, ClassOf(g)) = r}
Taking(g)  == IF IsSlot(g.asked, g.align) THEN ClassBytes(ClassOf(g)) ELSE SizeOf(BucketFor(g.asked))

ClassOfRun(r) == ClassOf(CHOOSE g \in Owned(r) : TRUE)

SlabTypeOK ==
  /\ \A r \in DOMAIN runs : runs[r].inuse \in 0 .. MostLive /\ runs[r].free \in Seq(0 .. EndAt)
  /\ partial \in [Classes -> DOMAIN runs \cup {NoRun}]
  /\ runLive \in Nat /\ slotLive \in Nat

(***************************************************************************)
(* What is handed out, slots and pages, is apart, within the range, large  *)
(* enough and aligned as asked; and none of it lies under a run's header.  *)
(***************************************************************************)
AllocationsApart ==
  /\ \A g, h \in live : g # h => g.at + Taking(g) <= h.at \/ h.at + Taking(h) <= g.at
  /\ \A g \in live : g.asked <= Taking(g) /\ g.at % g.align = 0 /\ g.at + Taking(g) <= EndAt
  /\ \A g \in live, r \in DOMAIN runs : r + RunBytes <= g.at \/ g.at + Taking(g) <= r

\* The runs on a class's list, walked by their links.
WalkFrom(c) ==
  LET Walk[k \in 0 .. Cardinality(DOMAIN runs)] ==
        IF k = 0 THEN partial[c]
        ELSE IF Walk[k - 1] \in DOMAIN runs THEN runs[Walk[k - 1]].next ELSE NoRun
  IN  {Walk[k] : k \in DOMAIN Walk} \ {NoRun}

(***************************************************************************)
(* A class's list, threaded through headers that come and go with their    *)
(* runs, is exactly its runs that have a free slot, and a run's free slots *)
(* are those it has handed out to none: so no slot is out of reach, and no *)
(* run that went back to the buddy is still listed.                        *)
(***************************************************************************)
PartialExact ==
  /\ \A c \in Classes : WalkFrom(c) = {r \in DOMAIN runs : ClassOfRun(r) = c /\ runs[r].free # <<>>}
  /\ \A r \in DOMAIN runs :
       /\ Owned(r) # {} /\ \A g \in Owned(r) : ClassOf(g) = ClassOfRun(r)
       /\ runs[r].inuse = Cardinality(Owned(r))
       /\ runs[r].inuse + Len(runs[r].free) = SlotsOf(ClassOfRun(r)) - HeadSlots(ClassOfRun(r))
       /\ \A i \in DOMAIN runs[r].free, g \in live : runs[r].free[i] # g.at

\* The counts a host reads are what is held, and a run none is in is given back.
CountsHold ==
  /\ slotLive = SumFunction([g \in InSlots |-> Taking(g)])
  /\ runLive = SumFunction([r \in DOMAIN runs |-> RunSize(ClassOfRun(r))])
  /\ live = {} => DOMAIN runs = {}

\* What is handed out lies apart and off the headers, each class lists its runs
\* that have a slot free, and what is counted is what is held.
RunsAgree == SlabTypeOK /\ AllocationsApart /\ PartialExact /\ CountsHold
=============================================================================
