------------------------------ MODULE BuddyTree ------------------------------
(***************************************************************************)
(* A buddy tree (kit alloc/buddy_tree.hpp), which grows from one block of  *)
(* the smallest size, doubling its root when it must, over a range it      *)
(* takes only as far as it is asked.  A bucket lists the free blocks of    *)
(* one size, bucket 0 the largest; one bit a parent says whether exactly   *)
(* one of its children is in use.                                          *)
(*                                                                         *)
(* The tree is one record, and each operation a function of it: a guest's  *)
(* pages (Buddy) and its slabs (Slab) are built over the same.  An address *)
(* is counted from the range's base, in bytes of which a list's links take *)
(* `LinkBytes`.                                                            *)
(***************************************************************************)
EXTENDS Integers, Sequences, FiniteSets, SequencesExt, FiniteSetsExt


CONSTANTS
  MinLog2,    \* the least block's
  MaxLog2,    \* the largest block the tree can describe
  LinkBytes,  \* sizeof(List)
  EndAt       \* the range's end

TwoTo[n \in 0 .. MaxLog2] == IF n = 0 THEN 1 ELSE 2 * TwoTo[n - 1]

BuddyAssumption ==
  /\ MinLog2 \in Nat /\ MaxLog2 \in Nat /\ MinLog2 < MaxLog2
  /\ LinkBytes \in 1 .. TwoTo[MinLog2]
  /\ EndAt \in Nat /\ LinkBytes <= EndAt

Least     == MaxLog2 - MinLog2
Buckets   == 0 .. Least
SizeOf(b) == TwoTo[MaxLog2 - b]
None      == -1
-----------------------------------------------------------------------------
\* A node's address, and an address's node, in a bucket.
PtrForNode(i, b)  == (i + 1 - TwoTo[b]) * SizeOf(b)
NodeForPtr(p, b)  == p \div SizeOf(b) + TwoTo[b] - 1
Parent(i)         == (i - 1) \div 2
Sibling(i)        == IF i % 2 = 1 THEN i + 1 ELSE i - 1
IsSplit(t, i)     == Parent(i) \in t.split
Flip(t, i)        == [t EXCEPT !.split = SymDiff(@, {Parent(i)})]

ListPush(t, b, p) == [t EXCEPT !.lists[b] = Append(@, p)]
ListRemove(t, p)  == [t EXCEPT !.lists = [b \in Buckets |-> RemoveFirst(@[b], p)]]
\* A bucket whose list is not yet its own sentinel has no entry either.
ListInit(t, b)    == [t EXCEPT !.lists[b] = <<>>]

BucketFor(request) == Max({b \in Buckets : SizeOf(b) >= request})

\* Mutant of Reaches: the range's end is not looked at.
ReachesAlways(to) == TRUE

Reaches(to) == to <= EndAt

\* Mutant of Taken: the mark is moved back as well.
TakenTo(t, to) == [t EXCEPT !.max = to]

Taken(t, to) == [t EXCEPT !.max = IF to > @ THEN to ELSE @]

\* The tree as the first call makes it: one block, the smallest.
NewTree ==
  [lists |-> [b \in Buckets |-> IF b = Least THEN <<0>> ELSE <<>>],
   limit |-> Least, split |-> {}, max |-> LinkBytes]

\* The root is free, and the range with it: the wider one is the free block.
RootFree(t) == ListPush(ListInit([ListRemove(t, 0) EXCEPT !.limit = @ - 1], t.limit - 1), t.limit - 1, 0)

\* The root is in use: its new buddy is free, and its new parent in use.
RootUsed(t) ==
  LET root  == NodeForPtr(0, t.limit)
      right == PtrForNode(root + 1, t.limit)
      wider == ListInit([ListPush(Taken(t, right + LinkBytes), t.limit, right) EXCEPT !.limit = @ - 1], t.limit - 1)
  IN  IF Parent(root) # 0 THEN Flip(wider, Parent(root)) ELSE wider

\* One doubling, where the root lies below the bucket and the range lets it.
LoweredOnce(t, b) ==
  LET root == NodeForPtr(0, t.limit)
  IN  CASE b >= t.limit -> t
        [] b < t.limit /\ ~ IsSplit(t, root) -> RootFree(t)
        [] b < t.limit /\ IsSplit(t, root) ->
             IF Reaches(PtrForNode(root + 1, t.limit) + LinkBytes) THEN RootUsed(t) ELSE t

Lowered(t, b) ==
  LET Low[n \in 0 .. Least] == IF n = 0 THEN t ELSE LoweredOnce(Low[n - 1], b)
  IN  Low[Least]

\* A node split down to a bucket: each right child goes on its list.
SplitOnce(s, b) ==
  LET l == 2 * s.i + 1
  IN  [tree |-> ListPush(Flip(s.tree, l), b, PtrForNode(l + 1, b)), i |-> l]

SplitTo(t, i, b, original) ==
  LET Down[n \in 0 .. original - b] ==
        IF n = 0 THEN [tree |-> t, i |-> i] ELSE SplitOnce(Down[n - 1], b + n)
  IN  Down[original - b].tree

\* What a search comes to, or has so far: the block, and whether it is over.
Over(t, p)   == [tree |-> t, at |-> p, b |-> 0, over |-> TRUE]
Onward(t, b) == [tree |-> t, at |-> None, b |-> b, over |-> FALSE]

\* A block popped from a bucket's list: used whole, split down, or put back.
Popped(t, b, original) ==
  LET p      == t.lists[b][Len(t.lists[b])]
      rest   == [t EXCEPT !.lists[b] = Front(@)]
      needed == p + (IF b < original THEN SizeOf(b) \div 2 + LinkBytes ELSE SizeOf(b))
      i      == NodeForPtr(p, b)
      used   == IF i # 0 THEN Flip(Taken(rest, needed), i) ELSE Taken(rest, needed)
  IN  IF Reaches(needed) THEN Over(SplitTo(used, i, b, original), p)
      ELSE Over(ListPush(rest, b, p), None)

\* One bucket searched; where its list is empty the tree may grow, once more.
SearchedOnce(s, original) ==
  LET t1 == Lowered(s.tree, s.b)
      t2 == Lowered(t1, s.b - 1)
  IN  CASE s.over -> s
        [] ~ s.over /\ t1.limit > s.b -> Over(t1, None)
        [] ~ s.over /\ t1.limit <= s.b /\ t1.lists[s.b] # <<>> -> Popped(t1, s.b, original)
        [] ~ s.over /\ t1.limit <= s.b /\ t1.lists[s.b] = <<>> ->
             CASE s.b = 0 -> Over(t1, None)
               [] s.b # 0 /\ s.b # t1.limit -> Onward(t1, s.b - 1)
               [] s.b # 0 /\ s.b = t1.limit ->
                    IF t2.limit > s.b - 1 THEN Over(t2, None) ELSE Popped(t2, s.b, original)

\* malloc
Allocated(t, request) ==
  LET original == BucketFor(request)
      Search[n \in 0 .. Least + 1] ==
        IF n = 0 THEN Onward(t, original) ELSE SearchedOnce(Search[n - 1], original)
  IN  IF request > SizeOf(0) THEN Over(t, None) ELSE Search[Least + 1]

\* Mutants of Merges: a buddy in use is merged with; a free one is not.
MergesAlways(t, i, b) == b # t.limit
MergesNever(t, i, b)  == FALSE

\* After the flip, a parent not split has both children free.
Merges(t, i, b) == ~ IsSplit(t, i) /\ b # t.limit

\* One step up from a node being freed, until one that is merged no further.
MergedOnce(m) ==
  LET t1 == Flip(m.tree, m.i)
  IN  IF m.over \/ m.i = 0 THEN m
      ELSE IF Merges(t1, m.i, m.b)
        THEN [tree |-> ListRemove(t1, PtrForNode(Sibling(m.i), m.b)), i |-> Parent(m.i), b |-> m.b - 1, over |-> FALSE]
        ELSE [m EXCEPT !.tree = t1, !.over = TRUE]

\* free
Freed(t, at, request) ==
  LET bucket == BucketFor(request)
      Up[n \in 0 .. Least + 1] ==
        IF n = 0 THEN [tree |-> t, i |-> NodeForPtr(at, bucket), b |-> bucket, over |-> FALSE]
        ELSE MergedOnce(Up[n - 1])
      m == Up[Least + 1]
  IN  ListPush(m.tree, m.b, PtrForNode(m.i, m.b))

\* The largest block that lies in a list (largest_free).
LargestFree(t) ==
  LET listed == {b \in Buckets : b >= t.limit /\ t.lists[b] # <<>>}
  IN  IF listed = {} THEN 0 ELSE SizeOf(Min(listed))
=============================================================================
