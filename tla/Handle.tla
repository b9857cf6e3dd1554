------------------------------- MODULE Handle -------------------------------
(***************************************************************************)
(* The table a guest names its resources by (guest abi/handle.hpp): slots, *)
(* each with a generation that its handle repeats, so that a handle kept   *)
(* past its release names nothing; a list of free slots threaded through   *)
(* them; and a transaction, whose rollback gives back what it took.        *)
(*                                                                         *)
(* A generation has 16 bits, of which GenMod stands for 2^16: it skips 0,  *)
(* and comes round.  The epoch a slot was taken in has 64 bits and does    *)
(* not, so of `made` only what the code asks is kept: free, taken before   *)
(* the transaction, or taken since.                                        *)
(***************************************************************************)
EXTENDS Integers, FiniteSets

CONSTANTS
  Most,    \* the highest slot, N - 1
  GenMod,  \* 2^width of a generation
  Vals     \* what a live slot holds

HandleAssumption ==
  /\ Most \in Nat \ {0}
  /\ GenMod \in Nat
  /\ GenMod > 2

VARIABLES
  table,    \* the slots
  freeHead, \* the first free slot, 0 for none
  top,      \* the highest slot handed out
  cnt,      \* slots taken
  kept      \* a handle a program kept past its release, and its slot's takings since

handleVars == <<table, freeHead, top, cnt, kept>>

SlotNos == 1 .. Most
NoVal   == "no value"
Slot    == [generation : 0 .. GenMod - 1, made : {"free", "earlier", "now"},
            next : 0 .. Most, val : Vals \cup {NoVal}]
Handles == [slot : SlotNos, generation : 1 .. GenMod - 1]
NoKept  == [handle |-> [slot |-> 0, generation |-> 0], reused |-> 0]
-----------------------------------------------------------------------------
HandleOf(slot) == [slot |-> slot, generation |-> table[slot].generation]

Live(h) ==
  /\ h.slot # 0
  /\ table[h.slot].made # "free"
  /\ table[h.slot].generation = h.generation

LiveHandles == {HandleOf(s) : s \in {t \in SlotNos : Live(HandleOf(t))}}

HandleInit ==
  /\ table = [s \in SlotNos |-> [generation |-> 0, made |-> "free", next |-> 0, val |-> NoVal]]
  /\ freeHead = 0
  /\ top = 0
  /\ cnt = 0
  /\ kept = NoKept

\* Mutant of NextGeneration: 0 is not skipped.
NextGenerationWithZero(g) == (g + 1) % GenMod

\* Never 0, so no handle is 0.
NextGeneration(g) == IF (g + 1) % GenMod = 0 THEN 1 ELSE (g + 1) % GenMod

\* Mutant of Taken: the slot keeps its generation.
TakenSameGeneration(slot, v) ==
  [generation |-> IF table[slot].generation = 0 THEN 1 ELSE table[slot].generation,
   made |-> "now", next |-> table[slot].next, val |-> v]

Taken(slot, v) ==
  [generation |-> NextGeneration(table[slot].generation),
   made |-> "now", next |-> table[slot].next, val |-> v]

\* The slot the next handle takes: the last given back, else one never handed out.
SlotNext ==
  IF freeHead # 0 THEN freeHead ELSE IF top < Most THEN top + 1 ELSE 0

Insert(v) ==
  /\ SlotNext # 0
  /\ table' = [table EXCEPT ![SlotNext] = Taken(SlotNext, v)]
  /\ freeHead' = IF freeHead # 0 THEN table[freeHead].next ELSE 0
  /\ top' = IF freeHead # 0 THEN top ELSE top + 1
  /\ cnt' = cnt + 1
  /\ kept' = IF kept.handle.slot = SlotNext
               THEN [kept EXCEPT !.reused = IF @ < GenMod THEN @ + 1 ELSE @]
               ELSE kept

\* Mutant of Without: the slot given back is not linked to the rest.
WithoutUnlinked(w, slot) ==
  [tab |-> [w.tab EXCEPT ![slot] = [@ EXCEPT !.made = "free", !.val = NoVal]],
   free |-> slot,
   n |-> w.n - 1]

\* The table's words after a live slot is given back: all that `remove` writes.
Without(w, slot) ==
  [tab |-> [w.tab EXCEPT ![slot] = [@ EXCEPT !.made = "free", !.next = w.free, !.val = NoVal]],
   free |-> slot,
   n |-> w.n - 1]

Words == [tab |-> table, free |-> freeHead, n |-> cnt]

Store(w) ==
  /\ table' = w.tab
  /\ freeHead' = w.free
  /\ cnt' = w.n

\* A handle given back; its holder may keep it, and ask for it later.
Remove(h) ==
  /\ Live(h)
  /\ Store(Without(Words, h.slot))
  /\ kept' \in {kept, [handle |-> h, reused |-> 0]}
  /\ UNCHANGED top

\* Every slot taken so far is from here on of an earlier epoch.
Begin ==
  /\ table' = [s \in SlotNos |->
       [table[s] EXCEPT !.made = IF @ = "now" THEN "earlier" ELSE @]]
  /\ UNCHANGED <<freeHead, top, cnt, kept>>

\* Mutant of Undone: every live slot goes, earlier ones too.
UndoneAll(slot) == table[slot].made # "free"

Undone(slot) == table[slot].made = "now"

\* The walk of `rollback` over the slots handed out, in their order.
Walk[s \in 0 .. Most] ==
  IF s = 0 THEN Words
  ELSE IF s <= top /\ Undone(s) THEN Without(Walk[s - 1], s) ELSE Walk[s - 1]

Rollback ==
  /\ Store(Walk[Most])
  /\ UNCHANGED <<top, kept>>

HandleNext ==
  \/ \E v \in Vals : Insert(v)
  \/ \E h \in LiveHandles : Remove(h)
  \/ Begin
  \/ Rollback

HandleSpec == HandleInit /\ [][HandleNext]_handleVars
-----------------------------------------------------------------------------
HandleTypeOK ==
  /\ table \in [SlotNos -> Slot]
  /\ freeHead \in 0 .. Most
  /\ top \in 0 .. Most
  /\ cnt \in 0 .. Most
  /\ kept = NoKept \/ (kept.handle \in Handles /\ kept.reused \in 0 .. GenMod)

(***************************************************************************)
(* "A handle kept past its release names nothing", however its slot is     *)
(* given out again, until the slot's generation comes round: the 65535th   *)
(* taking since is the first that may answer to it.                        *)
(***************************************************************************)
KeptNamesNothing == kept.reused < GenMod - 1 => ~ Live(kept.handle)

\* The slots on the free list after k steps along it.
Along[k \in 0 .. Most] ==
  IF k = 0 THEN freeHead ELSE IF Along[k - 1] = 0 THEN 0 ELSE table[Along[k - 1]].next

FreeListed == {Along[k] : k \in 0 .. Most} \ {0}

(***************************************************************************)
(* The free list, threaded through the slots by removals and by rollbacks  *)
(* in any mix, is exactly the slots handed out and not taken, each once;   *)
(* so a slot is never given out twice, and never lost.                     *)
(***************************************************************************)
FreeListExact ==
  /\ FreeListed = {s \in 1 .. top : table[s].made = "free"}
  /\ Along[Cardinality(FreeListed)] = 0
  /\ cnt = top - Cardinality(FreeListed)

(***************************************************************************)
(* What the table promises (Names): handles in use, of which the           *)
(* transaction's own are those it gives back, and no other.                *)
(***************************************************************************)
Promised == INSTANCE Names WITH
  MostHeld <- Most,
  Ids  <- Handles,
  held <- [h \in LiveHandles |-> table[h.slot].val],
  own  <- {h \in LiveHandles : table[h.slot].made = "now"}

ImplementsNames == Promised!Spec

(***************************************************************************)
(* The handle table is a bounded set of names: rollback gives back exactly *)
(* its own; a handle kept past its release names nothing until its         *)
(* generation comes round; the free list is the slots handed out and not   *)
(* taken.                                                                  *)
(***************************************************************************)
NamesKept ==
  /\ ImplementsNames
  /\ [](HandleTypeOK /\ KeptNamesNothing /\ FreeListExact)
=============================================================================
