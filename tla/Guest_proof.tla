---------------------------- MODULE Guest_proof -----------------------------
(***************************************************************************)
(* What a guest keeps of its own.  The handle table, of any number of      *)
(* slots and any width of generation: it is a bounded set of names         *)
(* (Names); its free list is the slots handed out and not taken, each      *)
(* once, after removals and rollbacks in any mix; and a handle kept past   *)
(* its release names nothing until its generation comes round.             *)
(*                                                                         *)
(* And the edge, of any frames and room: a suspended frame is resumed by   *)
(* exactly one, and no task finds the list of the parked full.             *)
(*                                                                         *)
(* And the tick, of any steps, phases and budget: each step runs once in   *)
(* its phase, whatever is registered and taken off on the way, and a later *)
(* phase finds its share.                                                  *)
(***************************************************************************)
EXTENDS Handle, Edge, Tick, Elements, FiniteSetTheorems

(***************************************************************************)
(* The table's words, and the free list as a sequence: it begins at the    *)
(* head, goes on by the slots' `next` and ends at 0; it is the free slots  *)
(* of those handed out, up to `hi`, each once.                             *)
(***************************************************************************)
WordRecs == [tab : [SlotNos -> Slot], free : 0 .. Most, n : Int]

FreeIn(tab, hi) == {s \in 1 .. hi : tab[s].made = "free"}

Listed(tab, free, hi, l) ==
  /\ l \in Seq(SlotNos)
  /\ free = IF Len(l) = 0 THEN 0 ELSE l[1]
  /\ \A i \in 1 .. Len(l) : tab[l[i]].next = IF i = Len(l) THEN 0 ELSE l[i + 1]
  /\ \A i, j \in 1 .. Len(l) : l[i] = l[j] => i = j
  /\ \A i \in 1 .. Len(l) : l[i] \in FreeIn(tab, hi)
  /\ \A s \in FreeIn(tab, hi) : \E i \in 1 .. Len(l) : l[i] = s

WordsOK(w, hi) == \E l : Listed(w.tab, w.free, hi, l) /\ w.n = hi - Len(l)

Fresh(tab, hi) == \A s \in SlotNos : s > hi => tab[s].made = "free"
Named(tab)     == \A s \in SlotNos : tab[s].made # "free" => tab[s].generation # 0

\* A handle kept: its slot's generation is its own and the takings since, round
\* from GenMod to 1; with none since, the slot is free.
Came(k) ==
  IF k.handle.generation + k.reused < GenMod
    THEN k.handle.generation + k.reused
    ELSE k.handle.generation + k.reused - (GenMod - 1)

KeptFits(k, tab, hi) ==
  k # NoKept =>
    /\ k \in [handle : Handles, reused : 0 .. GenMod]
    /\ k.handle.slot <= hi
    /\ k.reused = 0 => tab[k.handle.slot].made = "free"
    /\ k.reused < GenMod => tab[k.handle.slot].generation = Came(k)

KeptOK == KeptFits(kept, table, top)

HandleInv ==
  /\ table \in [SlotNos -> Slot] /\ freeHead \in 0 .. Most /\ top \in 0 .. Most /\ cnt \in Int
  /\ WordsOK(Words, top)
  /\ Fresh(table, top)
  /\ Named(table)
  /\ KeptOK
-----------------------------------------------------------------------------
LEMMA GenerationAfter ==
  ASSUME HandleAssumption, NEW g \in 0 .. GenMod - 1
  PROVE  NextGeneration(g) = (IF g = GenMod - 1 THEN 1 ELSE g + 1) /\ NextGeneration(g) \in 1 .. GenMod - 1
  <1>1. GenMod \in Nat \ {0} /\ GenMod > 2 /\ 0 \in Int /\ 1 \in Int
    BY DEF HandleAssumption
  <1>2. CASE g = GenMod - 1
    <2>1. 0 \in 0 .. GenMod - 1 /\ GenMod * 1 + 0 = g + 1
      BY <1>1, <1>2
    <2>2. (GenMod * 1 + 0) % GenMod = 0
      BY <1>1, <2>1, Remainder
    <2>3. (g + 1) % GenMod = 0
      BY <2>1, <2>2
    <2> QED BY <1>1, <1>2, <2>3 DEF NextGeneration
  <1>3. CASE g # GenMod - 1
    <2>1. g + 1 \in 0 .. GenMod - 1 /\ GenMod * 0 + (g + 1) = g + 1 /\ g + 1 # 0
      BY <1>1, <1>3
    <2>2. (GenMod * 0 + (g + 1)) % GenMod = g + 1
      BY <1>1, <2>1, Remainder
    <2>3. (g + 1) % GenMod = g + 1
      BY <2>1, <2>2
    <2> QED BY <1>1, <1>3, <2>1, <2>3 DEF NextGeneration
  <1> QED BY <1>2, <1>3

\* The list has as many as there are free slots, no more than were handed out.
LEMMA ListedCount ==
  ASSUME HandleAssumption, NEW tab, NEW free, NEW hi \in 0 .. Most, NEW l, Listed(tab, free, hi, l)
  PROVE  /\ IsFiniteSet(FreeIn(tab, hi)) /\ Cardinality(FreeIn(tab, hi)) = Len(l)
         /\ Len(l) \in 0 .. hi
  <1>1. Len(l) \in Nat /\ hi \in Nat /\ 1 \in Int /\ hi \in Int
    BY DEF Listed, HandleAssumption
  <1>2. PICK F : F = FreeIn(tab, hi)
    OBVIOUS
  <1>3. PICK f : f = [i \in 1 .. Len(l) |-> l[i]]
    OBVIOUS
  <1>4. f \in [1 .. Len(l) -> F]
    BY <1>2, <1>3 DEF Listed
  <1>5. \A i, j \in 1 .. Len(l) : f[i] = f[j] => i = j
    BY <1>3 DEF Listed
  <1>6. \A s \in F : \E i \in 1 .. Len(l) : f[i] = s
    BY <1>2, <1>3 DEF Listed
  <1>7. f \in Bijection(1 .. Len(l), F)
    BY <1>4, <1>5, <1>6 DEF Bijection, Injection, Surjection, IsInjective
  <1>8. ExistsBijection(1 .. Len(l), F)
    BY <1>7 DEF ExistsBijection
  <1>9. Cardinality(F) = Len(l)
    BY <1>1, <1>8, FS_CountingElements
  <1>10. IsFiniteSet(1 .. hi) /\ Cardinality(1 .. hi) = hi
    BY <1>1, FS_Interval
  <1>11. F \in SUBSET (1 .. hi)
    BY <1>2 DEF FreeIn
  <1>12. IsFiniteSet(F) /\ Cardinality(F) <= hi
    BY <1>10, <1>11, FS_Subset
  <1> QED BY <1>1, <1>2, <1>9, <1>12

\* A live slot given back goes before the list.
LEMMA GivenBack ==
  ASSUME HandleAssumption, NEW w \in WordRecs, NEW hi \in 0 .. Most, WordsOK(w, hi),
         NEW s \in 1 .. hi, w.tab[s].made # "free", NEW u, u = Without(w, s)
  PROVE  /\ u \in WordRecs /\ WordsOK(u, hi)
         /\ u.tab[s].made = "free" /\ u.tab[s].generation = w.tab[s].generation
         /\ \A t \in SlotNos : t # s => u.tab[t] = w.tab[t]
  <1>1. Most \in Nat /\ s \in SlotNos /\ s # 0
    BY DEF HandleAssumption, SlotNos
  <1>2. w.tab \in [SlotNos -> Slot] /\ w.free \in 0 .. Most /\ w.n \in Int
    BY DEF WordRecs
  <1>3. /\ u = [tab |-> u.tab, free |-> u.free, n |-> u.n] /\ u.free = s /\ u.n = w.n - 1
        /\ u.tab = [w.tab EXCEPT ![s] = [w.tab[s] EXCEPT !.made = "free", !.next = w.free, !.val = NoVal]]
    BY DEF Without
  <1>4. w.tab[s] \in Slot
    BY <1>1, <1>2
  <1>5. /\ u.tab[s] = [w.tab[s] EXCEPT !.made = "free", !.next = w.free, !.val = NoVal]
        /\ \A t \in SlotNos : t # s => u.tab[t] = w.tab[t]
    BY <1>1, <1>2, <1>3
  <1>6. /\ u.tab[s].made = "free" /\ u.tab[s].generation = w.tab[s].generation /\ u.tab[s].next = w.free
        /\ u.tab[s] \in Slot
    BY <1>2, <1>4, <1>5 DEF Slot
  <1>7. u.tab \in [SlotNos -> Slot]
    BY <1>2, <1>3, <1>5, <1>6
  <1>8. s \in 0 .. Most /\ w.n - 1 \in Int
    BY <1>1, <1>2
  <1>9. u \in WordRecs
    BY <1>3, <1>7, <1>8 DEF WordRecs
  <1>10. PICK l : Listed(w.tab, w.free, hi, l) /\ w.n = hi - Len(l)
    BY DEF WordsOK
  <1>11. PICK m : m = [i \in 1 .. Len(l) + 1 |-> IF i = 1 THEN s ELSE l[i - 1]]
    OBVIOUS
  <1>12. l \in Seq(SlotNos) /\ Len(l) \in Nat
    BY <1>10 DEF Listed
  <1>13. /\ m \in Seq(SlotNos) /\ Len(m) = Len(l) + 1 /\ m[1] = s
         /\ \A i \in 1 .. Len(l) : m[i + 1] = l[i] /\ i + 1 \in 1 .. Len(m)
         /\ \A i \in 1 .. Len(m) : i # 1 => i - 1 \in 1 .. Len(l) /\ m[i] = l[i - 1]
    BY <1>1, <1>11, <1>12
  <1>14. \A t \in 1 .. hi : t \in FreeIn(u.tab, hi) <=> t = s \/ t \in FreeIn(w.tab, hi)
    <2>1. ASSUME NEW t \in 1 .. hi, t # s PROVE u.tab[t] = w.tab[t]
      <3>1. t \in SlotNos
        BY <1>1, <2>1 DEF SlotNos
      <3> QED BY <1>5, <2>1, <3>1
    <2> QED BY <1>6, <2>1 DEF FreeIn
  <1>15. \A i \in 1 .. Len(l) : l[i] \in FreeIn(w.tab, hi) /\ l[i] \in 1 .. hi /\ l[i] # s /\ l[i] \in SlotNos
    BY <1>1, <1>10, <1>12 DEF Listed, FreeIn, SlotNos
  <1>16. \A i \in 1 .. Len(m) : u.tab[m[i]].next = IF i = Len(m) THEN 0 ELSE m[i + 1]
    <2>1. ASSUME NEW i \in 1 .. Len(m) PROVE u.tab[m[i]].next = IF i = Len(m) THEN 0 ELSE m[i + 1]
      <3>1. CASE i = 1
        <4>1. u.tab[m[1]].next = w.free
          BY <1>6, <1>13
        <4>2. w.free = IF Len(l) = 0 THEN 0 ELSE l[1]
          BY <1>10 DEF Listed
        <4> QED BY <1>12, <1>13, <3>1, <4>1, <4>2
      <3>2. CASE i # 1
        <4>1. i - 1 \in 1 .. Len(l) /\ m[i] = l[i - 1] /\ u.tab[m[i]] = w.tab[l[i - 1]]
          BY <1>5, <1>13, <1>15, <3>2
        <4>2. w.tab[l[i - 1]].next = IF i - 1 = Len(l) THEN 0 ELSE l[(i - 1) + 1]
          BY <1>10, <4>1 DEF Listed
        <4>3. i # Len(m) => m[i + 1] = l[(i - 1) + 1]
          <5>1. i \in 1 .. Len(m) /\ Len(m) \in Nat /\ i \in Nat
            BY <1>12, <1>13, <2>1
          <5>2. i # Len(m) => i + 1 \in 1 .. Len(m) /\ i + 1 # 1 /\ (i + 1) - 1 = (i - 1) + 1
            BY <5>1
          <5> QED BY <5>2, <1>13
        <4> QED BY <1>12, <1>13, <4>1, <4>2, <4>3
      <3> QED BY <3>1, <3>2
    <2> QED BY <2>1
  <1>17. \A i, j \in 1 .. Len(m) : m[i] = m[j] => i = j
    <2>1. ASSUME NEW i \in 1 .. Len(m), NEW j \in 1 .. Len(m), m[i] = m[j] PROVE i = j
      <3>1. i = 1 <=> j = 1
        <4>1. \A k \in 1 .. Len(m) : k # 1 => m[k] # s
          BY <1>13, <1>15
        <4> QED BY <1>13, <2>1, <4>1
      <3>2. CASE i # 1
        <4>1. i - 1 = j - 1
          <5>1. i - 1 \in 1 .. Len(l) /\ j - 1 \in 1 .. Len(l) /\ l[i - 1] = l[j - 1]
            BY <1>13, <2>1, <3>1, <3>2
          <5> QED BY <1>10, <5>1 DEF Listed
        <4> QED BY <4>1
      <3> QED BY <3>1, <3>2
    <2> QED BY <2>1
  <1>18. \A i \in 1 .. Len(m) : m[i] \in FreeIn(u.tab, hi)
    BY <1>13, <1>14, <1>15
  <1>19. \A t \in FreeIn(u.tab, hi) : \E i \in 1 .. Len(m) : m[i] = t
    <2>1. ASSUME NEW t \in FreeIn(u.tab, hi) PROVE \E i \in 1 .. Len(m) : m[i] = t
      <3>1. t = s \/ t \in FreeIn(w.tab, hi)
        BY <1>14 DEF FreeIn
      <3>2. CASE t = s
        BY <1>12, <1>13, <3>2
      <3>3. CASE t \in FreeIn(w.tab, hi)
        <4>1. PICK i \in 1 .. Len(l) : l[i] = t
          BY <1>10, <3>3 DEF Listed
        <4> QED BY <1>13, <4>1
      <3> QED BY <3>1, <3>2, <3>3
    <2> QED BY <2>1
  <1>20. Listed(u.tab, u.free, hi, m)
    <2>1. u.free = IF Len(m) = 0 THEN 0 ELSE m[1]
      BY <1>3, <1>12, <1>13
    <2>2. m \in Seq(SlotNos)
      BY <1>13
    <2> QED BY <1>16, <1>17, <1>18, <1>19, <2>1, <2>2 DEF Listed
  <1>21. u.n = hi - Len(m)
    BY <1>3, <1>10, <1>12, <1>13
  <1> QED BY <1>5, <1>6, <1>9, <1>20, <1>21 DEF WordsOK

\* What the list begins with, or a slot never handed out, is free; taken, the
\* list is the rest.
NextOf(free, hi) == IF free # 0 THEN free ELSE IF hi < Most THEN hi + 1 ELSE 0

LEMMA NextIsFree ==
  ASSUME HandleAssumption, NEW tab, NEW free, NEW hi \in 0 .. Most, NEW n,
         WordsOK([tab |-> tab, free |-> free, n |-> n], hi), Fresh(tab, hi), NextOf(free, hi) # 0
  PROVE  NextOf(free, hi) \in SlotNos /\ tab[NextOf(free, hi)].made = "free"
  <1>1. PICK l : Listed(tab, free, hi, l)
    BY DEF WordsOK
  <1>2. Most \in Nat
    BY DEF HandleAssumption
  <1>3. CASE free # 0
    <2>1. 1 \in 1 .. Len(l) /\ free = l[1]
      BY <1>1, <1>3 DEF Listed
    <2>2. free \in 1 .. hi /\ tab[free].made = "free"
      BY <1>1, <2>1 DEF Listed, FreeIn
    <2> QED BY <1>2, <1>3, <2>2 DEF NextOf, SlotNos
  <1>4. CASE free = 0
    <2>1. hi + 1 \in SlotNos /\ hi + 1 > hi /\ NextOf(free, hi) = hi + 1
      BY <1>2, <1>4 DEF NextOf, SlotNos
    <2> QED BY <2>1 DEF Fresh
  <1> QED BY <1>3, <1>4

TakesOut(tab, free, hi, n, s, rec, tab2, free2, hi2) ==
  /\ tab \in [SlotNos -> Slot] /\ free \in 0 .. Most /\ hi \in 0 .. Most /\ n \in Int
  /\ WordsOK([tab |-> tab, free |-> free, n |-> n], hi) /\ Fresh(tab, hi)
  /\ s = NextOf(free, hi) /\ s # 0
  /\ rec \in Slot /\ rec.made # "free" /\ tab2 = [tab EXCEPT ![s] = rec]
  /\ free2 = IF free # 0 THEN tab[free].next ELSE 0
  /\ hi2 = IF free # 0 THEN hi ELSE hi + 1

LEMMA TakenOut ==
  ASSUME HandleAssumption, NEW tab, NEW free, NEW hi, NEW n, NEW s, NEW rec, NEW tab2, NEW free2, NEW hi2,
         TakesOut(tab, free, hi, n, s, rec, tab2, free2, hi2)
  PROVE  /\ tab2 \in [SlotNos -> Slot] /\ free2 \in 0 .. Most /\ hi2 \in 0 .. Most
         /\ hi <= hi2 /\ s <= hi2
         /\ WordsOK([tab |-> tab2, free |-> free2, n |-> n + 1], hi2) /\ Fresh(tab2, hi2)
  <1>0. /\ tab \in [SlotNos -> Slot] /\ free \in 0 .. Most /\ hi \in 0 .. Most /\ n \in Int
        /\ WordsOK([tab |-> tab, free |-> free, n |-> n], hi) /\ Fresh(tab, hi)
        /\ s = NextOf(free, hi) /\ s # 0
        /\ rec \in Slot /\ rec.made # "free" /\ tab2 = [tab EXCEPT ![s] = rec]
        /\ free2 = (IF free # 0 THEN tab[free].next ELSE 0)
        /\ hi2 = IF free # 0 THEN hi ELSE hi + 1
    BY DEF TakesOut
  <1> USE <1>0
  <1>1. s \in SlotNos /\ tab[s].made = "free"
    BY NextIsFree
  <1>2. Most \in Nat
    BY DEF HandleAssumption
  <1>3. tab2[s] = rec /\ \A t \in SlotNos : t # s => tab2[t] = tab[t]
    BY <1>1
  <1>4. tab2 \in [SlotNos -> Slot]
    BY <1>1
  <1>5. PICK l : Listed(tab, free, hi, l) /\ n = hi - Len(l)
    BY DEF WordsOK
  <1>6. l \in Seq(SlotNos) /\ Len(l) \in Nat
    BY <1>5 DEF Listed
  <1>7. CASE free # 0
    <2>1. s = free /\ hi2 = hi /\ free2 = tab[s].next /\ tab[s] \in Slot
      BY <1>1, <1>7 DEF NextOf
    <2>2. Len(l) # 0 /\ s = l[1]
      BY <1>5, <1>7, <2>1 DEF Listed
    <2>3. free2 \in 0 .. Most
      BY <2>1 DEF Slot
    <2>4. PICK m : m = [i \in 1 .. Len(l) - 1 |-> l[i + 1]]
      OBVIOUS
    <2>5. /\ m \in Seq(SlotNos) /\ Len(m) = Len(l) - 1
          /\ \A i \in 1 .. Len(m) : m[i] = l[i + 1] /\ i + 1 \in 1 .. Len(l)
          /\ \A i \in 1 .. Len(l) : i # 1 => i - 1 \in 1 .. Len(m) /\ m[i - 1] = l[i]
      BY <1>6, <2>2, <2>4
    <2>6. \A i \in 1 .. Len(l) : l[i] \in SlotNos /\ (i # 1 => l[i] # s)
      BY <1>5, <1>6, <2>2 DEF Listed
    <2>7. free2 = IF Len(m) = 0 THEN 0 ELSE m[1]
      <3>1. tab[l[1]].next = IF 1 = Len(l) THEN 0 ELSE l[1 + 1]
        <4>1. 1 \in 1 .. Len(l)
          BY <1>6, <2>2
        <4>2. \A i \in 1 .. Len(l) : tab[l[i]].next = IF i = Len(l) THEN 0 ELSE l[i + 1]
          BY <1>5 DEF Listed
        <4> QED BY <4>1, <4>2
      <3>2. Len(m) # 0 => m[1] = l[1 + 1]
        BY <1>6, <2>5
      <3> QED BY <1>6, <2>1, <2>2, <2>5, <3>1, <3>2
    <2>8. ASSUME NEW i \in 1 .. Len(m) PROVE tab2[m[i]].next = IF i = Len(m) THEN 0 ELSE m[i + 1]
      <3>1. i + 1 \in 1 .. Len(l) /\ m[i] = l[i + 1] /\ tab2[m[i]] = tab[l[i + 1]]
        BY <1>3, <2>5, <2>6
      <3>2. tab[l[i + 1]].next = IF i + 1 = Len(l) THEN 0 ELSE l[(i + 1) + 1]
        BY <1>5, <3>1 DEF Listed
      <3>3. i # Len(m) => m[i + 1] = l[(i + 1) + 1]
        <4>1. i # Len(m) => i + 1 \in 1 .. Len(m)
          BY <1>6, <2>5
        <4> QED BY <2>5, <4>1
      <3> QED BY <1>6, <2>5, <3>1, <3>2, <3>3
    <2>9. ASSUME NEW i \in 1 .. Len(m), NEW j \in 1 .. Len(m), m[i] = m[j] PROVE i = j
      <3>1. i + 1 \in 1 .. Len(l) /\ j + 1 \in 1 .. Len(l) /\ l[i + 1] = l[j + 1]
        BY <2>5, <2>9
      <3>2. i + 1 = j + 1
        BY <1>5, <3>1 DEF Listed
      <3> QED BY <3>2
    <2>10. ASSUME NEW t \in SlotNos PROVE t \in FreeIn(tab2, hi) <=> t # s /\ t \in FreeIn(tab, hi)
      BY <1>3 DEF FreeIn
    <2>11. \A i \in 1 .. Len(m) : m[i] \in FreeIn(tab2, hi)
      <3>1. ASSUME NEW i \in 1 .. Len(m) PROVE m[i] \in FreeIn(tab2, hi)
        <4>1. i + 1 \in 1 .. Len(l) /\ m[i] = l[i + 1] /\ i + 1 # 1
          BY <2>5
        <4>2. l[i + 1] \in FreeIn(tab, hi)
          BY <1>5, <4>1 DEF Listed
        <4>3. m[i] \in SlotNos /\ m[i] # s
          BY <2>6, <4>1
        <4> QED BY <2>10, <4>1, <4>2, <4>3
      <3> QED BY <3>1
    <2>12. ASSUME NEW t \in FreeIn(tab2, hi) PROVE \E i \in 1 .. Len(m) : m[i] = t
      <3>1. t \in SlotNos
        BY <1>2 DEF FreeIn, SlotNos
      <3>2. PICK i \in 1 .. Len(l) : l[i] = t
        BY <1>5, <2>10, <3>1 DEF Listed
      <3>3. i # 1
        BY <2>2, <2>10, <3>1, <3>2
      <3> QED BY <2>5, <3>2, <3>3
    <2>13. Listed(tab2, free2, hi, m)
      BY <2>5, <2>7, <2>8, <2>9, <2>11, <2>12 DEF Listed
    <2>14. n + 1 = hi - Len(m)
      BY <1>5, <1>6, <2>5
    <2>15. WordsOK([tab |-> tab2, free |-> free2, n |-> n + 1], hi)
      BY <2>13, <2>14 DEF WordsOK
    <2>16. s \in 1 .. hi
      BY <1>5, <1>6, <2>2 DEF Listed, FreeIn
    <2>17. Fresh(tab2, hi)
      BY <1>3, <2>16 DEF Fresh
    <2> QED BY <1>4, <2>1, <2>3, <2>15, <2>16, <2>17
  <1>8. CASE free = 0
    <2>1. s = hi + 1 /\ hi < Most /\ hi2 = hi + 1 /\ free2 = 0
      BY <1>8 DEF NextOf
    <2>2. free2 \in 0 .. Most /\ hi2 \in 0 .. Most
      BY <1>2, <2>1
    <2>3. Len(l) = 0
      <3>1. CASE Len(l) # 0
        <4>1. 1 \in 1 .. Len(l) /\ l[1] = 0
          BY <1>5, <1>6, <1>8, <3>1 DEF Listed
        <4>2. l[1] \in 1 .. hi
          BY <1>5, <4>1 DEF Listed, FreeIn
        <4> QED BY <4>1, <4>2
      <3> QED BY <3>1
    <2>4. FreeIn(tab2, hi2) = {}
      <3>1. ASSUME NEW t \in FreeIn(tab2, hi2) PROVE FALSE
        <4>1. t \in 1 .. hi + 1 /\ tab2[t].made = "free" /\ t \in SlotNos
          BY <1>2, <2>1, <3>1 DEF FreeIn, SlotNos
        <4>2. t # s
          BY <1>3, <4>1
        <4>3. t \in FreeIn(tab, hi)
          BY <1>3, <2>1, <4>1, <4>2 DEF FreeIn
        <4> QED BY <1>5, <2>3, <4>3 DEF Listed
      <3> QED BY <3>1
    <2>5. Listed(tab2, free2, hi2, l)
      <3>1. 1 .. Len(l) = {}
        BY <2>3
      <3>2. free2 = 0 /\ l \in Seq(SlotNos)
        BY <1>6, <2>1
      <3> QED BY <2>3, <2>4, <3>1, <3>2 DEF Listed
    <2>6. n + 1 = hi2 - Len(l)
      BY <1>5, <1>6, <2>1
    <2>7. WordsOK([tab |-> tab2, free |-> free2, n |-> n + 1], hi2)
      BY <2>5, <2>6 DEF WordsOK
    <2>8. Fresh(tab2, hi2)
      <3>1. ASSUME NEW t \in SlotNos, t > hi2 PROVE t > hi /\ t # s
        BY <2>1, <3>1 DEF SlotNos
      <3> QED BY <1>3, <3>1 DEF Fresh
    <2>9. hi <= hi2 /\ s <= hi2
      BY <2>1
    <2> QED BY <1>4, <2>2, <2>7, <2>8, <2>9
  <1> QED BY <1>7, <1>8
-----------------------------------------------------------------------------
(***************************************************************************)
(* The rollback's walk: each slot it has come past that the transaction    *)
(* took is given back, and every other is as it was but for its `next`.    *)
(***************************************************************************)
LEMMA WithoutType ==
  ASSUME HandleAssumption, NEW w \in WordRecs, NEW s \in SlotNos
  PROVE  Without(w, s) \in WordRecs
  <1>1. w.tab \in [SlotNos -> Slot] /\ w.free \in 0 .. Most /\ w.n \in Int
    BY DEF WordRecs
  <1>2. w.tab[s] \in Slot /\ s \in 0 .. Most /\ w.n - 1 \in Int
    BY <1>1 DEF SlotNos, HandleAssumption
  <1>3. PICK r : r = [w.tab[s] EXCEPT !.made = "free", !.next = w.free, !.val = NoVal]
    OBVIOUS
  <1>4. r \in Slot
    BY <1>1, <1>2, <1>3 DEF Slot
  <1>5. [w.tab EXCEPT ![s] = r] \in [SlotNos -> Slot]
    BY <1>1, <1>4
  <1>6. Without(w, s) = [tab |-> [w.tab EXCEPT ![s] = r], free |-> s, n |-> w.n - 1]
    BY <1>3 DEF Without
  <1> QED BY <1>2, <1>5, <1>6 DEF WordRecs

LEMMA WalkGoes ==
  ASSUME HandleAssumption, HandleInv
  PROVE  /\ \A s \in 0 .. Most : Walk[s] \in WordRecs
         /\ Walk[0] = Words
         /\ \A s \in 1 .. Most : Walk[s] = IF s <= top /\ Undone(s) THEN Without(Walk[s - 1], s) ELSE Walk[s - 1]
  <1>1. Most \in Nat
    BY DEF HandleAssumption
  <1>2. Words \in WordRecs
    BY DEF HandleInv, Words, WordRecs
  <1>3. PICK step : step = [s \in 1 .. Most |-> [w \in WordRecs |-> IF s <= top /\ Undone(s) THEN Without(w, s) ELSE w]]
    OBVIOUS
  <1>4. StepsOn(step, Most, WordRecs)
    <2>1. ASSUME NEW s \in 1 .. Most, NEW w \in WordRecs
          PROVE  (IF s <= top /\ Undone(s) THEN Without(w, s) ELSE w) \in WordRecs
      BY WithoutType DEF SlotNos
    <2> QED BY <1>3, <2>1 DEF StepsOn
  <1>5. PICK f : Follows(f, Most, WordRecs, Words, step)
    BY <1>1, <1>2, <1>4, Recursion
  <1>6. f \in [0 .. Most -> WordRecs] /\ f[0] = Words /\ \A s \in 1 .. Most : f[s] = step[s][f[s - 1]]
    BY <1>5 DEF Follows
  <1>7. ASSUME NEW s \in 1 .. Most PROVE f[s] = IF s <= top /\ Undone(s) THEN Without(f[s - 1], s) ELSE f[s - 1]
    <2>1. s - 1 \in 0 .. Most
      BY <1>1
    <2>2. f[s - 1] \in WordRecs
      BY <1>6, <2>1
    <2> QED BY <1>3, <1>6, <2>2
  <1>8. f = [s \in 0 .. Most |->
               IF s = 0 THEN Words ELSE IF s <= top /\ Undone(s) THEN Without(f[s - 1], s) ELSE f[s - 1]]
    BY <1>6, <1>7
  <1>9. PICK w : w = Walk
    OBVIOUS
  <1>10. w = [s \in 0 .. Most |->
                IF s = 0 THEN Words ELSE IF s <= top /\ Undone(s) THEN Without(w[s - 1], s) ELSE w[s - 1]]
    BY <1>8, <1>9 DEF Walk
  <1>11. \A s \in 0 .. Most : w[s] =
           IF s = 0 THEN Words ELSE IF s <= top /\ Undone(s) THEN Without(w[s - 1], s) ELSE w[s - 1]
    BY <1>10
  <1>12. w[0] = Words
    BY <1>1, <1>11
  <1>13. ASSUME NEW s \in 1 .. Most
         PROVE  w[s] = IF s <= top /\ Undone(s) THEN Without(w[s - 1], s) ELSE w[s - 1]
    <2>1. s \in 0 .. Most /\ s # 0
      BY <1>1
    <2> QED BY <1>11, <2>1
  <1>14. 0 .. Most \subseteq {s \in 0 .. Most : w[s] \in WordRecs}
    <2> DEFINE P == {s \in 0 .. Most : w[s] \in WordRecs}
    <2>1. 0 \in P
      BY <1>1, <1>2, <1>12
    <2>2. ASSUME NEW s \in 1 .. Most, s - 1 \in P PROVE s \in P
      <3>1. w[s - 1] \in WordRecs /\ s \in SlotNos
        BY <2>2 DEF SlotNos
      <3>2. Without(w[s - 1], s) \in WordRecs
        BY <3>1, WithoutType
      <3>3. w[s] \in WordRecs
        BY <1>13, <3>1, <3>2
      <3> QED BY <3>3
    <2> HIDE DEF P
    <2> QED BY <1>1, <2>1, <2>2, UpTo DEF P
  <1> QED BY <1>9, <1>12, <1>13, <1>14

WalkOK(w, s) ==
  /\ w \in WordRecs /\ WordsOK(w, top)
  /\ \A t \in SlotNos : w.tab[t].generation = table[t].generation
  /\ \A t \in SlotNos :
       IF t <= s /\ t <= top /\ table[t].made = "now"
         THEN w.tab[t].made = "free"
         ELSE w.tab[t].made = table[t].made /\ w.tab[t].val = table[t].val

LEMMA Walked ==
  ASSUME HandleAssumption, HandleInv
  PROVE  WalkOK(Walk[Most], Most)
  <1>1. Most \in Nat /\ top \in 0 .. Most /\ Most \in 0 .. Most
    BY DEF HandleAssumption, HandleInv
  <1>2. /\ \A s \in 0 .. Most : Walk[s] \in WordRecs
        /\ Walk[0] = Words
        /\ \A s \in 1 .. Most : Walk[s] = IF s <= top /\ Undone(s) THEN Without(Walk[s - 1], s) ELSE Walk[s - 1]
    BY WalkGoes
  <1> DEFINE P == {s \in 0 .. Most : WalkOK(Walk[s], s)}
  <1>3. 0 \in P
    <2>1. Words \in WordRecs /\ WordsOK(Words, top) /\ Words.tab = table
      BY DEF HandleInv, Words, WordRecs
    <2>2. \A t \in SlotNos : ~ (t <= 0)
      BY DEF SlotNos
    <2>3. WalkOK(Words, 0)
      BY <2>1, <2>2 DEF WalkOK
    <2> QED BY <1>1, <1>2, <2>3
  <1>4. ASSUME NEW s \in 1 .. Most, s - 1 \in P PROVE s \in P
    <2>1. PICK w : w = Walk[s - 1]
      OBVIOUS
    <2>2. WalkOK(w, s - 1) /\ s \in SlotNos
      BY <1>4, <2>1 DEF SlotNos
    <2>3. \A t \in SlotNos : t # s => (t <= s <=> t <= s - 1)
      BY DEF SlotNos
    <2>4. ~ (s <= s - 1) /\ s <= s
      OBVIOUS
    <2>5. CASE s <= top /\ Undone(s)
      <3>1. PICK u : u = Without(w, s)
        OBVIOUS
      <3>2. s \in 1 .. top /\ table[s].made = "now" /\ w.tab[s].made # "free"
        BY <1>1, <2>2, <2>4, <2>5 DEF WalkOK, Undone
      <3>3. /\ u \in WordRecs /\ WordsOK(u, top)
            /\ u.tab[s].made = "free" /\ u.tab[s].generation = w.tab[s].generation
            /\ \A t \in SlotNos : t # s => u.tab[t] = w.tab[t]
        BY <1>1, <2>2, <3>1, <3>2, GivenBack DEF WalkOK
      <3>4. ASSUME NEW t \in SlotNos
            PROVE  /\ u.tab[t].generation = table[t].generation
                   /\ IF t <= s /\ t <= top /\ table[t].made = "now"
                        THEN u.tab[t].made = "free"
                        ELSE u.tab[t].made = table[t].made /\ u.tab[t].val = table[t].val
        <4>1. CASE t = s
          BY <2>2, <2>4, <2>5, <3>2, <3>3, <4>1 DEF WalkOK
        <4>2. CASE t # s
          BY <2>2, <2>3, <3>3, <4>2 DEF WalkOK
        <4> QED BY <4>1, <4>2
      <3>5. WalkOK(u, s)
        BY <3>3, <3>4 DEF WalkOK
      <3> QED BY <1>2, <2>1, <2>5, <3>1, <3>5
    <2>6. CASE ~ (s <= top /\ Undone(s))
      <3>1. ASSUME NEW t \in SlotNos
            PROVE  IF t <= s /\ t <= top /\ table[t].made = "now"
                     THEN w.tab[t].made = "free"
                     ELSE w.tab[t].made = table[t].made /\ w.tab[t].val = table[t].val
        <4>1. CASE t = s
          BY <2>2, <2>4, <2>6, <4>1 DEF WalkOK, Undone
        <4>2. CASE t # s
          BY <2>2, <2>3, <4>2 DEF WalkOK
        <4> QED BY <4>1, <4>2
      <3>2. WalkOK(w, s)
        BY <2>2, <3>1 DEF WalkOK
      <3> QED BY <1>2, <2>1, <2>6, <3>2
    <2> QED BY <2>5, <2>6
  <1> HIDE DEF P
  <1>5. 0 .. Most \subseteq P
    BY <1>1, <1>3, <1>4, UpTo
  <1> QED BY <1>1, <1>5 DEF P
-----------------------------------------------------------------------------
(* Each step keeps the invariant.                                          *)

LEMMA KeptTypes ==
  ASSUME NEW k, NEW tab, NEW hi, KeptFits(k, tab, hi), k # NoKept
  PROVE  /\ k \in [handle : Handles, reused : 0 .. GenMod]
         /\ k.handle \in Handles /\ k.reused \in 0 .. GenMod
         /\ k.handle.slot \in SlotNos /\ k.handle.generation \in 1 .. GenMod - 1
         /\ k.handle.slot <= hi
  <1>1. k \in [handle : Handles, reused : 0 .. GenMod] /\ k.handle.slot <= hi
    BY DEF KeptFits
  <1>2. k.handle \in Handles /\ k.reused \in 0 .. GenMod
    BY <1>1
  <1>3. k.handle.slot \in SlotNos /\ k.handle.generation \in 1 .. GenMod - 1
    BY <1>2 DEF Handles
  <1> QED BY <1>1, <1>2, <1>3

LEMMA InsertKeeps ==
  ASSUME HandleAssumption, HandleInv, NEW v \in Vals, Insert(v)
  PROVE  HandleInv'
  <1>1. PICK s : s = SlotNext
    OBVIOUS
  <1>2. PICK rec : rec = Taken(s, v)
    OBVIOUS
  <1>3. /\ s = NextOf(freeHead, top) /\ s # 0
        /\ table' = [table EXCEPT ![s] = rec]
        /\ freeHead' = (IF freeHead # 0 THEN table[freeHead].next ELSE 0)
        /\ top' = (IF freeHead # 0 THEN top ELSE top + 1)
        /\ cnt' = cnt + 1
    BY <1>1, <1>2 DEF Insert, NextOf, SlotNext
  <1>4. kept' = IF kept.handle.slot = s
                  THEN [kept EXCEPT !.reused = IF @ < GenMod THEN @ + 1 ELSE @]
                  ELSE kept
    BY <1>1 DEF Insert
  <1>5. /\ table \in [SlotNos -> Slot] /\ freeHead \in 0 .. Most /\ top \in 0 .. Most /\ cnt \in Int
        /\ WordsOK([tab |-> table, free |-> freeHead, n |-> cnt], top) /\ Fresh(table, top)
        /\ Named(table) /\ KeptOK
    BY DEF HandleInv, Words
  <1>6. s \in SlotNos /\ table[s].made = "free" /\ table[s] \in Slot
    BY <1>3, <1>5, NextIsFree
  <1>7. table[s].generation \in 0 .. GenMod - 1 /\ table[s].next \in 0 .. Most
    BY <1>6 DEF Slot
  <1>8. /\ rec.generation = NextGeneration(table[s].generation) /\ rec.made = "now"
        /\ rec = [generation |-> NextGeneration(table[s].generation), made |-> "now",
                  next |-> table[s].next, val |-> v]
    BY <1>2 DEF Taken
  <1>9. /\ NextGeneration(table[s].generation) =
             (IF table[s].generation = GenMod - 1 THEN 1 ELSE table[s].generation + 1)
        /\ NextGeneration(table[s].generation) \in 1 .. GenMod - 1
    BY <1>7, GenerationAfter
  <1>10. NextGeneration(table[s].generation) \in 0 .. GenMod - 1
    BY <1>9 DEF HandleAssumption
  <1>11. rec \in Slot /\ rec.made # "free"
    BY <1>7, <1>8, <1>10 DEF Slot
  <1>12. /\ table' \in [SlotNos -> Slot] /\ freeHead' \in 0 .. Most /\ top' \in 0 .. Most
         /\ top <= top' /\ s <= top'
         /\ WordsOK([tab |-> table', free |-> freeHead', n |-> cnt + 1], top') /\ Fresh(table', top')
    <2>1. PICK f, h, n, t, f2, h2, t2 :
            /\ f = freeHead /\ h = top /\ n = cnt /\ t = table /\ f2 = freeHead' /\ h2 = top' /\ t2 = table'
      OBVIOUS
    <2>2. t \in [SlotNos -> Slot] /\ f \in 0 .. Most /\ h \in 0 .. Most /\ n \in Int
      BY <1>5, <2>1
    <2>3. WordsOK([tab |-> t, free |-> f, n |-> n], h) /\ Fresh(t, h)
      BY <1>5, <2>1
    <2>4. s = NextOf(f, h) /\ s # 0
      BY <1>3, <2>1
    <2>5. t2 = [t EXCEPT ![s] = rec]
      BY <1>3, <2>1
    <2>6. f2 = IF f # 0 THEN t[f].next ELSE 0
      BY <1>3, <2>1
    <2>7. h2 = IF f # 0 THEN h ELSE h + 1
      BY <1>3, <2>1
    <2>8. TakesOut(t, f, h, n, s, rec, t2, f2, h2)
      BY <1>11, <2>2, <2>3, <2>4, <2>5, <2>6, <2>7 DEF TakesOut
    <2>9. /\ t2 \in [SlotNos -> Slot] /\ f2 \in 0 .. Most /\ h2 \in 0 .. Most
          /\ h <= h2 /\ s <= h2
          /\ WordsOK([tab |-> t2, free |-> f2, n |-> n + 1], h2) /\ Fresh(t2, h2)
      BY <2>8, TakenOut
    <2> QED BY <2>1, <2>9
  <1>13. table'[s] = rec /\ \A t \in SlotNos : t # s => table'[t] = table[t]
    BY <1>3, <1>5, <1>6
  <1>14. Named(table')
    BY <1>5, <1>8, <1>9, <1>13 DEF Named
  <1>15. KeptOK'
    <2>1. CASE kept = NoKept
      <3>1. kept.handle.slot = 0
        BY <2>1 DEF NoKept
      <3>2. kept' = NoKept
        BY <1>3, <1>4, <2>1, <3>1
      <3>3. NoKept' = NoKept
        BY DEF NoKept
      <3> QED BY <3>2, <3>3 DEF KeptOK, KeptFits
    <2>2. CASE kept # NoKept
      <3>1. PICK k : k = kept
        OBVIOUS
      <3>2. k # NoKept /\ KeptFits(k, table, top)
        BY <1>5, <2>2, <3>1 DEF KeptOK
      <3>3. /\ k \in [handle : Handles, reused : 0 .. GenMod]
            /\ k.handle \in Handles /\ k.reused \in 0 .. GenMod
            /\ k.handle.slot \in SlotNos /\ k.handle.generation \in 1 .. GenMod - 1
            /\ k.handle.slot <= top
        BY <3>2, KeptTypes
      <3>4. k.handle.slot <= top'
        BY <1>5, <1>12, <3>3 DEF SlotNos
      <3>5. CASE k.handle.slot # s
        <4>1. kept' = k /\ table'[k.handle.slot] = table[k.handle.slot]
          BY <1>4, <1>13, <3>1, <3>3, <3>5
        <4>2. KeptFits(k, table', top')
          BY <3>2, <3>3, <3>4, <4>1 DEF KeptFits
        <4> QED BY <4>1, <4>2 DEF KeptOK
      <3>6. CASE k.handle.slot = s
        <4>1. PICK n : n = IF k.reused < GenMod THEN k.reused + 1 ELSE k.reused
          OBVIOUS
        <4>2. PICK m : m = kept'
          OBVIOUS
        <4>3. m = [k EXCEPT !.reused = n]
          BY <1>4, <3>1, <3>6, <4>1, <4>2
        <4>4. n \in 0 .. GenMod /\ n # 0 /\ GenMod \in Nat /\ GenMod > 2
          BY <3>3, <4>1 DEF HandleAssumption
        <4>5. /\ m \in [handle : Handles, reused : 0 .. GenMod]
              /\ m.handle = k.handle /\ m.reused = n
          BY <3>3, <4>3, <4>4
        <4>6. PICK g : g = k.handle.generation
          OBVIOUS
        <4>7. PICK r : r = k.reused
          OBVIOUS
        <4>8. PICK o : o = table[s].generation
          OBVIOUS
        <4>9. g \in 1 .. GenMod - 1 /\ r \in 0 .. GenMod /\ n = (IF r < GenMod THEN r + 1 ELSE r)
          BY <3>3, <4>1, <4>6, <4>7
        <4>10. r < GenMod => o = IF g + r < GenMod THEN g + r ELSE g + r - (GenMod - 1)
          BY <3>2, <3>6, <4>6, <4>7, <4>8 DEF KeptFits, Came
        <4>11. rec.generation = IF o = GenMod - 1 THEN 1 ELSE o + 1
          BY <1>8, <1>9, <4>8
        <4>12. n < GenMod => rec.generation = IF g + n < GenMod THEN g + n ELSE g + n - (GenMod - 1)
          BY <4>4, <4>9, <4>10, <4>11
        <4>13. n < GenMod => rec.generation = Came(m)
          BY <4>5, <4>6, <4>12 DEF Came
        <4>14. m.handle.slot = s /\ table'[s] = rec /\ m.reused # 0
          BY <1>13, <3>6, <4>4, <4>5
        <4>15. KeptFits(m, table', top')
          BY <3>4, <3>6, <4>5, <4>13, <4>14 DEF KeptFits
        <4> QED BY <4>2, <4>15 DEF KeptOK
      <3> QED BY <3>5, <3>6
    <2> QED BY <2>1, <2>2
  <1>16. cnt' \in Int
    BY <1>3, <1>5
  <1>17. Words' = [tab |-> table', free |-> freeHead', n |-> cnt + 1]
    BY <1>3 DEF Words
  <1> QED BY <1>12, <1>14, <1>15, <1>16, <1>17 DEF HandleInv

\* With the slots' generations as they were, and none taken, what is kept stays so.
LEMMA KeptStays ==
  ASSUME HandleAssumption, HandleInv, UNCHANGED <<top, kept>>,
         \A t \in SlotNos : /\ table'[t].generation = table[t].generation
                            /\ table[t].made = "free" => table'[t].made = "free"
  PROVE  KeptOK'
  <1>1. PICK k : k = kept
    OBVIOUS
  <1>2. KeptFits(k, table, top) /\ kept' = k /\ top' = top
    BY <1>1 DEF HandleInv, KeptOK
  <1>3. KeptFits(k, table', top)
    <2>1. CASE k = NoKept
      BY <2>1 DEF KeptFits
    <2>2. CASE k # NoKept
      <3>1. k.handle.slot \in SlotNos
        BY <1>2, <2>2, KeptTypes
      <3>2. /\ table'[k.handle.slot].generation = table[k.handle.slot].generation
            /\ table[k.handle.slot].made = "free" => table'[k.handle.slot].made = "free"
        BY <3>1
      <3> QED BY <1>2, <3>2 DEF KeptFits
    <2> QED BY <2>1, <2>2
  <1> QED BY <1>2, <1>3 DEF KeptOK

LEMMA RemoveKeeps ==
  ASSUME HandleAssumption, HandleInv, NEW h \in LiveHandles, Remove(h)
  PROVE  HandleInv'
  <1>1. PICK s \in SlotNos : h = HandleOf(s) /\ Live(HandleOf(s))
    BY DEF LiveHandles
  <1>2. /\ h.slot = s /\ h.generation = table[s].generation /\ table[s].made # "free"
        /\ h = [slot |-> s, generation |-> table[s].generation]
    BY <1>1 DEF HandleOf, Live
  <1>3. PICK u : u = Without(Words, s)
    OBVIOUS
  <1>4. /\ table' = u.tab /\ freeHead' = u.free /\ cnt' = u.n /\ top' = top
        /\ kept' = kept \/ kept' = [handle |-> h, reused |-> 0]
    BY <1>2, <1>3 DEF Remove, Store
  <1>5. /\ table \in [SlotNos -> Slot] /\ top \in 0 .. Most
        /\ Words \in WordRecs /\ WordsOK(Words, top) /\ Words.tab = table
        /\ Fresh(table, top) /\ Named(table) /\ KeptOK
    BY DEF HandleInv, Words, WordRecs
  <1>6. s \in 1 .. top
    BY <1>2, <1>5 DEF Fresh, SlotNos
  <1>7. /\ u \in WordRecs /\ WordsOK(u, top)
        /\ u.tab[s].made = "free" /\ u.tab[s].generation = table[s].generation
        /\ \A t \in SlotNos : t # s => u.tab[t] = table[t]
    BY <1>2, <1>3, <1>5, <1>6, GivenBack
  <1>8. u.tab \in [SlotNos -> Slot] /\ u.free \in 0 .. Most /\ u.n \in Int /\ u = [tab |-> u.tab, free |-> u.free, n |-> u.n]
    BY <1>7 DEF WordRecs
  <1>9. Words' = u
    BY <1>4, <1>8 DEF Words
  <1>10. Fresh(table', top) /\ Named(table')
    BY <1>4, <1>5, <1>7 DEF Fresh, Named
  <1>11. KeptOK'
    <2>1. CASE kept' = kept
      BY <1>4, <1>7, <2>1, KeptStays
    <2>2. CASE kept' = [handle |-> h, reused |-> 0]
      <3>1. table[s] \in Slot
        BY <1>5
      <3>2. table[s].generation \in 1 .. GenMod - 1 /\ 0 \in 0 .. GenMod
        BY <1>2, <1>5, <3>1 DEF Slot, Named, HandleAssumption
      <3>3. h \in Handles
        BY <1>2, <3>2 DEF Handles
      <3>4. PICK k : k = kept'
        OBVIOUS
      <3>5. k \in [handle : Handles, reused : 0 .. GenMod] /\ k.handle = h /\ k.reused = 0
        BY <2>2, <3>2, <3>3, <3>4
      <3>6. PICK g : g = h.generation
        OBVIOUS
      <3>7. g \in 1 .. GenMod - 1 /\ GenMod \in Nat
        BY <1>2, <3>2, <3>6 DEF HandleAssumption
      <3>8. g + 0 = g /\ g + 0 < GenMod
        BY <3>7
      <3>9. Came(k) = g
        BY <3>5, <3>6, <3>8 DEF Came
      <3>10. table'[s].generation = g /\ table'[s].made = "free" /\ s <= top'
        BY <1>2, <1>4, <1>6, <1>7, <3>6
      <3>11. KeptFits(k, table', top')
        BY <1>2, <3>5, <3>9, <3>10 DEF KeptFits
      <3> QED BY <3>4, <3>11 DEF KeptOK
    <2> QED BY <1>4, <2>1, <2>2
  <1> QED BY <1>4, <1>5, <1>7, <1>8, <1>9, <1>10, <1>11 DEF HandleInv

\* A table that differs but in its slots' epochs has the same list.
LEMMA SameList ==
  ASSUME NEW tab, NEW tab2, NEW free, NEW n, NEW hi, hi \in 0 .. Most, HandleAssumption,
         WordsOK([tab |-> tab, free |-> free, n |-> n], hi),
         \A t \in SlotNos : tab2[t].next = tab[t].next /\ (tab2[t].made = "free" <=> tab[t].made = "free")
  PROVE  WordsOK([tab |-> tab2, free |-> free, n |-> n], hi)
  <1>1. PICK l : Listed(tab, free, hi, l) /\ n = hi - Len(l)
    BY DEF WordsOK
  <1>2. FreeIn(tab2, hi) = FreeIn(tab, hi)
    <2>1. 1 .. hi \subseteq SlotNos
      BY DEF SlotNos, HandleAssumption
    <2> QED BY <2>1 DEF FreeIn
  <1>3. l \in Seq(SlotNos)
    BY <1>1 DEF Listed
  <1>4. \A i \in 1 .. Len(l) : l[i] \in SlotNos
    BY <1>3
  <1>5. Listed(tab2, free, hi, l)
    BY <1>1, <1>2, <1>4 DEF Listed
  <1> QED BY <1>1, <1>5 DEF WordsOK

LEMMA BeginKeeps ==
  ASSUME HandleAssumption, HandleInv, Begin
  PROVE  HandleInv'
  <1>1. /\ table \in [SlotNos -> Slot] /\ top \in 0 .. Most
        /\ WordsOK([tab |-> table, free |-> freeHead, n |-> cnt], top)
        /\ Fresh(table, top) /\ Named(table) /\ KeptOK
    BY DEF HandleInv, Words
  <1>2. UNCHANGED <<freeHead, top, cnt, kept>>
    BY DEF Begin
  <1>3. table' = [s \in SlotNos |-> [table[s] EXCEPT !.made = IF @ = "now" THEN "earlier" ELSE @]]
    BY DEF Begin
  <1>4. ASSUME NEW s \in SlotNos
        PROVE  /\ table'[s] \in Slot /\ table'[s].generation = table[s].generation
               /\ table'[s].next = table[s].next /\ (table'[s].made = "free" <=> table[s].made = "free")
    <2>1. table[s] \in Slot
      BY <1>1
    <2>2. PICK r : r = table[s]
      OBVIOUS
    <2>3. table'[s] = [r EXCEPT !.made = IF r.made = "now" THEN "earlier" ELSE r.made]
      BY <1>3, <2>2
    <2> QED BY <2>1, <2>2, <2>3 DEF Slot
  <1>5. table' \in [SlotNos -> Slot]
    <2>1. PICK t2 : t2 = table'
      OBVIOUS
    <2>2. t2 = [s \in SlotNos |-> t2[s]]
      BY <1>3, <2>1
    <2> QED BY <1>4, <2>1, <2>2
  <1>6. WordsOK([tab |-> table', free |-> freeHead, n |-> cnt], top)
    <2>1. \A t \in SlotNos : table'[t].next = table[t].next /\ (table'[t].made = "free" <=> table[t].made = "free")
      BY <1>4
    <2> QED BY <1>1, <2>1, SameList
  <1>7. Fresh(table', top) /\ Named(table')
    BY <1>1, <1>4 DEF Fresh, Named
  <1>8. KeptOK'
    BY <1>2, <1>4, KeptStays
  <1>9. Words' = [tab |-> table', free |-> freeHead, n |-> cnt]
    BY <1>2 DEF Words
  <1> QED BY <1>1, <1>2, <1>5, <1>6, <1>7, <1>8, <1>9 DEF HandleInv

LEMMA RollbackKeeps ==
  ASSUME HandleAssumption, HandleInv, Rollback
  PROVE  HandleInv'
  <1>1. PICK u : u = Walk[Most]
    OBVIOUS
  <1>2. table' = u.tab /\ freeHead' = u.free /\ cnt' = u.n /\ UNCHANGED <<top, kept>>
    BY <1>1 DEF Rollback, Store
  <1>3. WalkOK(u, Most)
    BY <1>1, Walked
  <1>4. u \in WordRecs /\ WordsOK(u, top)
    BY <1>3 DEF WalkOK
  <1>5. u.tab \in [SlotNos -> Slot] /\ u.free \in 0 .. Most /\ u.n \in Int /\ u = [tab |-> u.tab, free |-> u.free, n |-> u.n]
    BY <1>4 DEF WordRecs
  <1>6. Words' = u
    BY <1>2, <1>5 DEF Words
  <1>7. ASSUME NEW t \in SlotNos
        PROVE  /\ table'[t].generation = table[t].generation
               /\ table[t].made = "free" => table'[t].made = "free"
               /\ table'[t].made # "free" => table[t].made # "free"
    BY <1>2, <1>3 DEF WalkOK
  <1>8. Fresh(table, top) /\ Named(table) /\ top \in 0 .. Most
    BY DEF HandleInv
  <1>9. Fresh(table', top) /\ Named(table')
    BY <1>7, <1>8 DEF Fresh, Named
  <1>10. KeptOK'
    BY <1>2, <1>7, KeptStays
  <1> QED BY <1>2, <1>4, <1>5, <1>6, <1>8, <1>9, <1>10 DEF HandleInv

LEMMA HandleStarts ==
  ASSUME HandleAssumption, HandleInit
  PROVE  HandleInv
  <1>1. Most \in Nat /\ GenMod \in Nat /\ GenMod > 2
    BY DEF HandleAssumption
  <1>2. [generation |-> 0, made |-> "free", next |-> 0, val |-> NoVal] \in Slot
    BY <1>1 DEF Slot
  <1>3. table \in [SlotNos -> Slot] /\ freeHead \in 0 .. Most /\ top \in 0 .. Most /\ cnt \in Int
    BY <1>1, <1>2 DEF HandleInit
  <1>4. FreeIn(table, top) = {}
    BY DEF HandleInit, FreeIn
  <1>5. Listed(table, freeHead, top, <<>>)
    <2>1. <<>> \in Seq(SlotNos) /\ Len(<<>>) = 0 /\ 1 .. Len(<<>>) = {}
      OBVIOUS
    <2>2. freeHead = 0
      BY DEF HandleInit
    <2> QED BY <1>4, <2>1, <2>2 DEF Listed
  <1>6. cnt = top - Len(<<>>)
    <2>1. PICK n : n = Len(<<>>)
      OBVIOUS
    <2>2. n = 0 /\ cnt = 0 /\ top = 0
      BY <2>1 DEF HandleInit
    <2>3. cnt = top - n
      BY <2>2
    <2> QED BY <2>1, <2>3
  <1>7. WordsOK([tab |-> table, free |-> freeHead, n |-> cnt], top)
    BY <1>5, <1>6 DEF WordsOK
  <1>8. Fresh(table, top) /\ Named(table)
    BY DEF HandleInit, Fresh, Named
  <1>9. KeptOK
    BY DEF HandleInit, KeptOK, KeptFits
  <1> QED BY <1>3, <1>7, <1>8, <1>9 DEF HandleInv, Words

\* The invariant holds of every state.
LEMMA AlwaysHandle ==
  ASSUME HandleAssumption
  PROVE  HandleSpec => []HandleInv
  <1>1. HandleInit => HandleInv
    BY HandleStarts
  <1>2. HandleInv /\ [HandleNext]_handleVars => HandleInv'
    <2>1. SUFFICES ASSUME HandleInv, [HandleNext]_handleVars PROVE HandleInv'
      OBVIOUS
    <2>2. ASSUME NEW v \in Vals, Insert(v) PROVE HandleInv'
      BY <2>1, <2>2, InsertKeeps
    <2>3. ASSUME NEW h \in LiveHandles, Remove(h) PROVE HandleInv'
      BY <2>1, <2>3, RemoveKeeps
    <2>4. CASE Begin
      BY <2>1, <2>4, BeginKeeps
    <2>5. CASE Rollback
      BY <2>1, <2>5, RollbackKeeps
    <2>6. CASE UNCHANGED handleVars
      BY <2>1, <2>6 DEF handleVars, HandleInv, Words, KeptOK
    <2> QED BY <2>1, <2>2, <2>3, <2>4, <2>5, <2>6 DEF HandleNext
  <1> QED BY <1>1, <1>2, PTL DEF HandleSpec
-----------------------------------------------------------------------------
(* What the invariant says.                                                *)

LEMMA HandleTypes ==
  ASSUME HandleAssumption, HandleInv
  PROVE  HandleTypeOK
  <1>1. PICK l : Listed(table, freeHead, top, l) /\ cnt = top - Len(l)
    BY DEF HandleInv, WordsOK, Words
  <1>2. top \in 0 .. Most /\ Most \in Nat
    BY DEF HandleInv, HandleAssumption
  <1>3. Len(l) \in 0 .. top
    BY <1>1, <1>2, ListedCount
  <1>4. cnt \in 0 .. Most
    BY <1>1, <1>2, <1>3
  <1>5. kept = NoKept \/ (kept.handle \in Handles /\ kept.reused \in 0 .. GenMod)
    <2>1. PICK k : k = kept
      OBVIOUS
    <2>2. KeptFits(k, table, top)
      BY <2>1 DEF HandleInv, KeptOK
    <2>3. k = NoKept \/ (k.handle \in Handles /\ k.reused \in 0 .. GenMod)
      BY <2>2, KeptTypes
    <2> QED BY <2>1, <2>3
  <1>6. table \in [SlotNos -> Slot] /\ freeHead \in 0 .. Most
    BY DEF HandleInv
  <1> QED BY <1>2, <1>4, <1>5, <1>6 DEF HandleTypeOK

LEMMA KeptDead ==
  ASSUME HandleAssumption, HandleInv
  PROVE  KeptNamesNothing
  <1>1. PICK k : k = kept
    OBVIOUS
  <1>2. KeptFits(k, table, top)
    BY <1>1 DEF HandleInv, KeptOK
  <1>3. CASE k = NoKept
    BY <1>1, <1>3 DEF KeptNamesNothing, Live, NoKept
  <1>4. CASE k # NoKept
    <2>1. /\ k.reused \in 0 .. GenMod /\ k.handle.generation \in 1 .. GenMod - 1
          /\ GenMod \in Nat /\ GenMod > 2
      BY <1>2, <1>4, KeptTypes DEF HandleAssumption
    <2>2. CASE k.reused = 0
      <3>1. table[k.handle.slot].made = "free"
        BY <1>2, <1>4, <2>2 DEF KeptFits
      <3> QED BY <1>1, <3>1 DEF KeptNamesNothing, Live
    <2>3. CASE k.reused # 0 /\ k.reused < GenMod - 1
      <3>1. PICK g : g = k.handle.generation
        OBVIOUS
      <3>2. PICK r : r = k.reused
        OBVIOUS
      <3>3. r < GenMod /\ g \in 1 .. GenMod - 1 /\ r \in 1 .. GenMod - 2
        BY <2>1, <2>3, <3>1, <3>2
      <3>4. (IF g + r < GenMod THEN g + r ELSE g + r - (GenMod - 1)) # g
        BY <2>1, <3>3
      <3>5. table[k.handle.slot].generation = IF g + r < GenMod THEN g + r ELSE g + r - (GenMod - 1)
        BY <1>2, <1>4, <3>1, <3>2, <3>3 DEF KeptFits, Came
      <3>6. table[k.handle.slot].generation # k.handle.generation
        BY <3>1, <3>4, <3>5
      <3> QED BY <1>1, <3>6 DEF KeptNamesNothing, Live
    <2>4. CASE ~ (k.reused < GenMod - 1)
      BY <1>1, <2>4 DEF KeptNamesNothing
    <2> QED BY <2>2, <2>3, <2>4
  <1> QED BY <1>3, <1>4

\* The list from the head on: the sequence, then 0.
LEMMA AlongGoes ==
  ASSUME HandleAssumption, HandleInv
  PROVE  /\ Along[0] = freeHead
         /\ \A k \in 1 .. Most : Along[k] = IF Along[k - 1] = 0 THEN 0 ELSE table[Along[k - 1]].next
  <1>1. Most \in Nat /\ table \in [SlotNos -> Slot] /\ freeHead \in 0 .. Most
    BY DEF HandleAssumption, HandleInv
  <1>2. PICK step : step = [k \in 1 .. Most |-> [x \in 0 .. Most |-> IF x = 0 THEN 0 ELSE table[x].next]]
    OBVIOUS
  <1>3. StepsOn(step, Most, 0 .. Most)
    <2>1. ASSUME NEW x \in 0 .. Most PROVE (IF x = 0 THEN 0 ELSE table[x].next) \in 0 .. Most
      <3>1. CASE x = 0
        BY <1>1, <3>1
      <3>2. CASE x # 0
        <4>1. x \in SlotNos
          BY <1>1, <3>2 DEF SlotNos
        <4>2. table[x] \in Slot
          BY <1>1, <4>1
        <4> QED BY <3>2, <4>2 DEF Slot
      <3> QED BY <3>1, <3>2
    <2> QED BY <1>2, <2>1 DEF StepsOn
  <1>4. PICK f : Follows(f, Most, 0 .. Most, freeHead, step)
    BY <1>1, <1>3, Recursion
  <1>5. f \in [0 .. Most -> 0 .. Most] /\ f[0] = freeHead /\ \A k \in 1 .. Most : f[k] = step[k][f[k - 1]]
    BY <1>4 DEF Follows
  <1>6. ASSUME NEW k \in 1 .. Most PROVE f[k] = IF f[k - 1] = 0 THEN 0 ELSE table[f[k - 1]].next
    <2>1. k - 1 \in 0 .. Most
      BY <1>1
    <2>2. f[k - 1] \in 0 .. Most
      BY <1>5, <2>1
    <2> QED BY <1>2, <1>5, <2>2
  <1>7. f = [k \in 0 .. Most |-> IF k = 0 THEN freeHead ELSE IF f[k - 1] = 0 THEN 0 ELSE table[f[k - 1]].next]
    BY <1>5, <1>6
  <1>8. PICK a : a = Along
    OBVIOUS
  <1>9. a = [k \in 0 .. Most |-> IF k = 0 THEN freeHead ELSE IF a[k - 1] = 0 THEN 0 ELSE table[a[k - 1]].next]
    BY <1>7, <1>8 DEF Along
  <1>10. \A k \in 0 .. Most : a[k] = IF k = 0 THEN freeHead ELSE IF a[k - 1] = 0 THEN 0 ELSE table[a[k - 1]].next
    BY <1>9
  <1>11. a[0] = freeHead
    BY <1>1, <1>10
  <1>12. ASSUME NEW k \in 1 .. Most PROVE a[k] = IF a[k - 1] = 0 THEN 0 ELSE table[a[k - 1]].next
    <2>1. k \in 0 .. Most /\ k # 0
      BY <1>1
    <2> QED BY <1>10, <2>1
  <1> QED BY <1>8, <1>11, <1>12

LEMMA FreeAreListed ==
  ASSUME HandleAssumption, HandleInv
  PROVE  FreeListExact
  <1>1. PICK l : Listed(table, freeHead, top, l) /\ cnt = top - Len(l)
    BY DEF HandleInv, WordsOK, Words
  <1>2. top \in 0 .. Most /\ Most \in Nat
    BY DEF HandleInv, HandleAssumption
  <1>3. /\ Cardinality(FreeIn(table, top)) = Len(l) /\ Len(l) \in 0 .. top
    BY <1>1, <1>2, ListedCount
  <1>4. Len(l) \in 0 .. Most /\ \A i \in 1 .. Len(l) : l[i] \in SlotNos /\ l[i] # 0
    BY <1>1, <1>2, <1>3 DEF Listed, SlotNos
  <1>5. PICK a : a = Along
    OBVIOUS
  <1>6. /\ a[0] = freeHead
        /\ \A k \in 1 .. Most : a[k] = IF a[k - 1] = 0 THEN 0 ELSE table[a[k - 1]].next
    BY <1>5, AlongGoes
  <1>7. 0 .. Most \subseteq {k \in 0 .. Most : a[k] = IF k < Len(l) THEN l[k + 1] ELSE 0}
    <2> DEFINE P == {k \in 0 .. Most : a[k] = IF k < Len(l) THEN l[k + 1] ELSE 0}
    <2>1. 0 \in P
      <3>1. freeHead = IF Len(l) = 0 THEN 0 ELSE l[1]
        BY <1>1 DEF Listed
      <3>2. l[0 + 1] = l[1] /\ (0 < Len(l) <=> Len(l) # 0) /\ 0 \in 0 .. Most
        BY <1>2, <1>3
      <3> QED BY <1>6, <3>1, <3>2
    <2>2. ASSUME NEW k \in 1 .. Most, k - 1 \in P PROVE k \in P
      <3>1. a[k - 1] = IF k - 1 < Len(l) THEN l[(k - 1) + 1] ELSE 0
        BY <2>2
      <3>2. l[(k - 1) + 1] = l[k] /\ k \in 0 .. Most
        OBVIOUS
      <3>3. CASE k - 1 < Len(l)
        <4>1. k \in 1 .. Len(l) /\ a[k - 1] = l[k]
          BY <1>3, <3>1, <3>2, <3>3
        <4>2. a[k] = table[l[k]].next
          BY <1>4, <1>6, <4>1
        <4>3. table[l[k]].next = IF k = Len(l) THEN 0 ELSE l[k + 1]
          BY <1>1, <4>1 DEF Listed
        <4>4. k < Len(l) <=> k # Len(l)
          BY <1>3, <4>1
        <4> QED BY <3>2, <4>2, <4>3, <4>4
      <3>4. CASE ~ (k - 1 < Len(l))
        <4>1. a[k - 1] = 0 /\ ~ (k < Len(l))
          BY <1>3, <3>1, <3>4
        <4> QED BY <1>6, <3>2, <4>1
      <3> QED BY <3>3, <3>4
    <2> HIDE DEF P
    <2>3. 0 .. Most \subseteq P
      BY <1>2, <2>1, <2>2, UpTo
    <2> QED BY <2>3 DEF P
  <1>8. \A k \in 0 .. Most : a[k] = IF k < Len(l) THEN l[k + 1] ELSE 0
    BY <1>7
  <1>9. FreeListed = FreeIn(table, top)
    <2>1. ASSUME NEW x \in FreeListed PROVE x \in FreeIn(table, top)
      <3>1. PICK k \in 0 .. Most : x = a[k] /\ x # 0
        BY <1>5 DEF FreeListed
      <3>2. k < Len(l) /\ x = l[k + 1]
        BY <1>8, <3>1
      <3>3. k + 1 \in 1 .. Len(l)
        BY <1>3, <3>2
      <3> QED BY <1>1, <3>2, <3>3 DEF Listed
    <2>2. ASSUME NEW x \in FreeIn(table, top) PROVE x \in FreeListed
      <3>1. PICK i \in 1 .. Len(l) : l[i] = x
        BY <1>1 DEF Listed
      <3>2. i - 1 \in 0 .. Most /\ i - 1 < Len(l) /\ (i - 1) + 1 = i
        BY <1>2, <1>4
      <3>3. a[i - 1] = l[i] /\ l[i] # 0
        BY <1>4, <1>8, <3>1, <3>2
      <3> QED BY <1>5, <3>1, <3>2, <3>3 DEF FreeListed
    <2> QED BY <2>1, <2>2
  <1>10. Along[Len(l)] = 0
    <2>1. ~ (Len(l) < Len(l))
      BY <1>3
    <2> QED BY <1>4, <1>5, <1>8, <2>1
  <1>11. Cardinality(FreeListed) = Len(l)
    BY <1>3, <1>9
  <1>12. FreeListed = {s \in 1 .. top : table[s].made = "free"}
    BY <1>9 DEF FreeIn
  <1>13. Along[Cardinality(FreeListed)] = 0
    BY <1>10, <1>11
  <1>14. cnt = top - Cardinality(FreeListed)
    BY <1>1, <1>11
  <1> QED BY <1>12, <1>13, <1>14 DEF FreeListExact
-----------------------------------------------------------------------------
(***************************************************************************)
(* The refinement: the handles of live slots are the names held, those of  *)
(* the transaction's slots its own.                                        *)
(***************************************************************************)
HandleIn(tab, s) == [slot |-> s, generation |-> tab[s].generation]
HandlesIn(tab)   == {HandleIn(tab, s) : s \in {t \in SlotNos : tab[t].made # "free"}}
OwnIn(tab)       == {h \in HandlesIn(tab) : tab[h.slot].made = "now"}
ValsIn(tab)      == [h \in HandlesIn(tab) |-> tab[h.slot].val]

LEMMA LiveAre ==
  /\ LiveHandles = HandlesIn(table)
  /\ LiveHandles' = HandlesIn(table')
  <1>1. \A s \in SlotNos : Live(HandleOf(s)) <=> table[s].made # "free"
    BY DEF Live, HandleOf, SlotNos
  <1>2. LiveHandles = HandlesIn(table)
    BY <1>1 DEF LiveHandles, HandlesIn, HandleOf, HandleIn
  <1>3. \A s \in SlotNos : Live(HandleOf(s))' <=> table'[s].made # "free"
    BY DEF Live, HandleOf, SlotNos
  <1>4. LiveHandles' = HandlesIn(table')
    BY <1>3 DEF LiveHandles, HandlesIn, HandleOf, HandleIn
  <1> QED BY <1>2, <1>4

\* A handle is of one slot.
LEMMA HandlesAre ==
  ASSUME NEW tab
  PROVE  /\ \A s \in SlotNos : HandleIn(tab, s) \in HandlesIn(tab) <=> tab[s].made # "free"
         /\ \A s \in SlotNos : HandleIn(tab, s).slot = s
         /\ \A h \in HandlesIn(tab) : h.slot \in SlotNos /\ h = HandleIn(tab, h.slot) /\ tab[h.slot].made # "free"
  <1>1. \A s : HandleIn(tab, s).slot = s
    BY DEF HandleIn
  <1>2. ASSUME NEW h \in HandlesIn(tab) PROVE h.slot \in SlotNos /\ h = HandleIn(tab, h.slot) /\ tab[h.slot].made # "free"
    <2>1. PICK s \in SlotNos : h = HandleIn(tab, s) /\ tab[s].made # "free"
      BY DEF HandlesIn
    <2> QED BY <1>1, <2>1
  <1>3. ASSUME NEW s \in SlotNos PROVE HandleIn(tab, s) \in HandlesIn(tab) <=> tab[s].made # "free"
    <2>1. tab[s].made # "free" => HandleIn(tab, s) \in HandlesIn(tab)
      BY DEF HandlesIn
    <2> QED BY <1>1, <1>2, <2>1
  <1> QED BY <1>1, <1>2, <1>3

\* A slot not live leaves room for a name.
LEMMA RoomForOne ==
  ASSUME HandleAssumption, NEW tab, NEW s \in SlotNos, tab[s].made = "free"
  PROVE  Cardinality(HandlesIn(tab)) < Most
  <1>1. Most \in Nat \ {0} /\ 1 \in Int
    BY DEF HandleAssumption
  <1>2. IsFiniteSet(SlotNos) /\ Cardinality(SlotNos) = Most
    BY <1>1, FS_Interval DEF SlotNos
  <1>3. IsFiniteSet(SlotNos \ {s}) /\ Cardinality(SlotNos \ {s}) = Most - 1
    BY <1>2, FS_RemoveElement
  <1>4. PICK H, T : H = HandlesIn(tab) /\ T = SlotNos \ {s}
    OBVIOUS
  <1>5. PICK f : f = [h \in H |-> h.slot]
    OBVIOUS
  <1>6. \A h \in H : h.slot \in T /\ h = HandleIn(tab, h.slot)
    BY <1>4, HandlesAre
  <1>7. f \in Injection(H, T)
    BY <1>5, <1>6 DEF Injection, IsInjective
  <1>8. IsFiniteSet(H) /\ Cardinality(H) <= Cardinality(T)
    BY <1>3, <1>4, <1>7, FS_Injection
  <1>9. Cardinality(H) \in Nat
    BY <1>8, FS_CardinalityType
  <1> QED BY <1>1, <1>3, <1>4, <1>8, <1>9

\* A slot taken adds its handle, and no other.
Takes(tab, tab2, s, id) ==
  /\ s \in SlotNos /\ tab[s].made = "free" /\ tab2[s].made = "now"
  /\ \A t \in SlotNos : t # s => tab2[t] = tab[t]
  /\ id = HandleIn(tab2, s)

Took(tab, tab2, s, id) ==
  /\ id \notin HandlesIn(tab)
  /\ HandlesIn(tab2) = HandlesIn(tab) \cup {id}
  /\ OwnIn(tab2) = OwnIn(tab) \cup {id}
  /\ ValsIn(tab2) = [n \in HandlesIn(tab) \cup {id} |-> IF n = id THEN tab2[s].val ELSE ValsIn(tab)[n]]

LEMMA OneTaken ==
  ASSUME NEW tab, NEW tab2, NEW s, NEW id, Takes(tab, tab2, s, id)
  PROVE  Took(tab, tab2, s, id)
  <1>0. /\ s \in SlotNos /\ tab[s].made = "free" /\ tab2[s].made = "now"
        /\ \A t \in SlotNos : t # s => tab2[t] = tab[t]
        /\ id = HandleIn(tab2, s)
    BY DEF Takes
  <1> USE <1>0
  <1>1. id.slot = s /\ id \in HandlesIn(tab2)
    BY HandlesAre
  <1>2. \A h \in HandlesIn(tab) : h.slot # s
    BY HandlesAre
  <1>3. ASSUME NEW h PROVE h \in HandlesIn(tab2) <=> h = id \/ h \in HandlesIn(tab)
    <2>1. ASSUME h \in HandlesIn(tab2), h # id PROVE h \in HandlesIn(tab)
      <3>1. h.slot \in SlotNos /\ h = HandleIn(tab2, h.slot) /\ tab2[h.slot].made # "free"
        BY <2>1, HandlesAre
      <3>2. h.slot # s
        BY <2>1, <3>1
      <3>3. tab2[h.slot] = tab[h.slot]
        BY <3>1, <3>2
      <3>4. HandleIn(tab, h.slot) = h
        BY <3>1, <3>3 DEF HandleIn
      <3> QED BY <3>1, <3>3, <3>4, HandlesAre
    <2>2. ASSUME h \in HandlesIn(tab) PROVE h \in HandlesIn(tab2)
      <3>1. h.slot \in SlotNos /\ h = HandleIn(tab, h.slot) /\ tab[h.slot].made # "free" /\ h.slot # s
        BY <1>2, <2>2, HandlesAre
      <3>2. tab2[h.slot] = tab[h.slot]
        BY <3>1
      <3>3. HandleIn(tab2, h.slot) = h
        BY <3>1, <3>2 DEF HandleIn
      <3>4. tab2[h.slot].made # "free"
        BY <3>1, <3>2
      <3>5. HandleIn(tab2, h.slot) \in HandlesIn(tab2)
        BY <3>1, <3>4, HandlesAre
      <3> QED BY <3>3, <3>5
    <2> QED BY <1>1, <2>1, <2>2
  <1>4. HandlesIn(tab2) = HandlesIn(tab) \cup {id}
    BY <1>3
  <1>5. \A h \in HandlesIn(tab) : tab2[h.slot] = tab[h.slot]
    BY <1>2, HandlesAre
  <1>6. OwnIn(tab2) = OwnIn(tab) \cup {id}
    BY <1>1, <1>4, <1>5 DEF OwnIn
  <1>7. ValsIn(tab2) = [n \in HandlesIn(tab) \cup {id} |-> IF n = id THEN tab2[s].val ELSE ValsIn(tab)[n]]
    <2>1. ASSUME NEW n \in HandlesIn(tab) \cup {id}
          PROVE  tab2[n.slot].val = IF n = id THEN tab2[s].val ELSE ValsIn(tab)[n]
      BY <1>1, <1>5 DEF ValsIn
    <2> QED BY <1>4, <2>1 DEF ValsIn
  <1>8. id \notin HandlesIn(tab)
    BY <1>1, <1>2
  <1> QED BY <1>4, <1>6, <1>7, <1>8 DEF Took

\* Slots given back take their handles with them, and no other.
Gives(tab, tab2, S) ==
  \A t \in SlotNos :
    /\ tab2[t].generation = tab[t].generation
    /\ IF t \in S THEN tab2[t].made = "free"
       ELSE /\ tab2[t].made = "free" <=> tab[t].made = "free"
            /\ tab[t].made # "free" => tab2[t].val = tab[t].val

Given(tab, tab2, S) ==
  /\ HandlesIn(tab2) = {h \in HandlesIn(tab) : h.slot \notin S}
  /\ ValsIn(tab2) = [h \in HandlesIn(tab2) |-> ValsIn(tab)[h]]

LEMMA SomeGiven ==
  ASSUME NEW tab, NEW tab2, NEW S, Gives(tab, tab2, S)
  PROVE  Given(tab, tab2, S)
  <1>1. \A t \in SlotNos : HandleIn(tab2, t) = HandleIn(tab, t)
    BY DEF HandleIn, Gives
  <1> USE DEF Gives
  <1>2. ASSUME NEW h PROVE h \in HandlesIn(tab2) <=> h \in HandlesIn(tab) /\ h.slot \notin S
    <2>1. ASSUME h \in HandlesIn(tab2) PROVE h \in HandlesIn(tab) /\ h.slot \notin S
      <3>1. h.slot \in SlotNos /\ h = HandleIn(tab2, h.slot) /\ tab2[h.slot].made # "free"
        BY <2>1, HandlesAre
      <3>2. h.slot \notin S /\ tab[h.slot].made # "free" /\ h = HandleIn(tab, h.slot)
        BY <1>1, <3>1
      <3> QED BY <3>1, <3>2, HandlesAre
    <2>2. ASSUME h \in HandlesIn(tab), h.slot \notin S PROVE h \in HandlesIn(tab2)
      <3>1. h.slot \in SlotNos /\ h = HandleIn(tab, h.slot) /\ tab[h.slot].made # "free"
        BY <2>2, HandlesAre
      <3>2. tab2[h.slot].made # "free" /\ h = HandleIn(tab2, h.slot)
        BY <1>1, <2>2, <3>1
      <3> QED BY <3>1, <3>2, HandlesAre
    <2> QED BY <2>1, <2>2
  <1>3. HandlesIn(tab2) = {h \in HandlesIn(tab) : h.slot \notin S}
    BY <1>2
  <1>4. ASSUME NEW h \in {h \in HandlesIn(tab) : h.slot \notin S} PROVE tab2[h.slot].val = ValsIn(tab)[h]
    <2>1. h.slot \in SlotNos /\ tab[h.slot].made # "free" /\ ValsIn(tab)[h] = tab[h.slot].val
      BY HandlesAre DEF ValsIn
    <2> QED BY <2>1
  <1>5. ValsIn(tab2) = [h \in HandlesIn(tab2) |-> ValsIn(tab)[h]]
    BY <1>3, <1>4 DEF ValsIn
  <1> QED BY <1>3, <1>5 DEF Given

LEMMA Mapped ==
  /\ [h \in LiveHandles |-> table[h.slot].val] = ValsIn(table)
  /\ [h \in LiveHandles |-> table[h.slot].val]' = ValsIn(table')
  /\ {h \in LiveHandles : table[h.slot].made = "now"} = OwnIn(table)
  /\ {h \in LiveHandles : table[h.slot].made = "now"}' = OwnIn(table')
  /\ DOMAIN ValsIn(table) = HandlesIn(table) /\ DOMAIN ValsIn(table') = HandlesIn(table')
  BY LiveAre DEF ValsIn, OwnIn

LEMMA InsertTakes ==
  ASSUME HandleAssumption, HandleInv, NEW v \in Vals, Insert(v)
  PROVE  \E id \in Handles : Promised!Take(id, v)
  <1>1. PICK s : s = SlotNext
    OBVIOUS
  <1>2. PICK rec : rec = Taken(s, v)
    OBVIOUS
  <1>3. s = NextOf(freeHead, top) /\ s # 0 /\ table' = [table EXCEPT ![s] = rec]
    BY <1>1, <1>2 DEF Insert, NextOf, SlotNext
  <1>4. /\ table \in [SlotNos -> Slot] /\ freeHead \in 0 .. Most /\ top \in 0 .. Most
        /\ WordsOK([tab |-> table, free |-> freeHead, n |-> cnt], top) /\ Fresh(table, top)
    BY DEF HandleInv, Words
  <1>5. s \in SlotNos /\ table[s].made = "free" /\ table[s] \in Slot
    BY <1>3, <1>4, NextIsFree
  <1>6. table[s].generation \in 0 .. GenMod - 1
    BY <1>5 DEF Slot
  <1>7. NextGeneration(table[s].generation) \in 1 .. GenMod - 1
    BY <1>6, GenerationAfter
  <1>8. rec.generation \in 1 .. GenMod - 1 /\ rec.made = "now" /\ rec.val = v
    BY <1>2, <1>7 DEF Taken
  <1>9. table'[s] = rec /\ \A t \in SlotNos : t # s => table'[t] = table[t]
    BY <1>3, <1>4, <1>5
  <1>10. PICK id : id = [slot |-> s, generation |-> rec.generation]
    OBVIOUS
  <1>11. id \in Handles
    BY <1>5, <1>8, <1>10 DEF Handles
  <1>12. PICK t1, t2 : t1 = table /\ t2 = table'
    OBVIOUS
  <1>13. id = HandleIn(t2, s)
    BY <1>9, <1>10, <1>12 DEF HandleIn
  <1>14. t1[s].made = "free" /\ t2[s].made = "now" /\ t2[s].val = v /\ \A t \in SlotNos : t # s => t2[t] = t1[t]
    BY <1>5, <1>8, <1>9, <1>12
  <1>15. /\ id \notin HandlesIn(t1)
         /\ HandlesIn(t2) = HandlesIn(t1) \cup {id}
         /\ OwnIn(t2) = OwnIn(t1) \cup {id}
         /\ ValsIn(t2) = [n \in HandlesIn(t1) \cup {id} |-> IF n = id THEN t2[s].val ELSE ValsIn(t1)[n]]
    <2>1. Takes(t1, t2, s, id)
      BY <1>5, <1>13, <1>14 DEF Takes
    <2>2. Took(t1, t2, s, id)
      BY <2>1, OneTaken
    <2> QED BY <2>2 DEF Took
  <1>16. Cardinality(HandlesIn(t1)) < Most
    BY <1>5, <1>14, RoomForOne
  <1>17. Promised!Take(id, v)
    <2>1. DOMAIN ValsIn(t1) = HandlesIn(t1)
      BY DEF ValsIn
    <2>2. ValsIn(t2) = [n \in DOMAIN ValsIn(t1) \cup {id} |-> IF n = id THEN v ELSE ValsIn(t1)[n]]
      BY <1>14, <1>15, <2>1
    <2>3. Cardinality(DOMAIN ValsIn(t1)) < Most /\ id \notin DOMAIN ValsIn(t1)
      BY <1>15, <1>16, <2>1
    <2>4. [h \in LiveHandles |-> table[h.slot].val] = ValsIn(t1)
      BY <1>12, Mapped
    <2>5. [h \in LiveHandles |-> table[h.slot].val]' = ValsIn(t2)
      BY <1>12, Mapped
    <2>6. {h \in LiveHandles : table[h.slot].made = "now"} = OwnIn(t1)
      BY <1>12, Mapped
    <2>7. {h \in LiveHandles : table[h.slot].made = "now"}' = OwnIn(t2)
      BY <1>12, Mapped
    <2> QED BY <1>15, <2>2, <2>3, <2>4, <2>5, <2>6, <2>7 DEF Promised!Take, Promised!Cardinality, Cardinality
  <1> QED BY <1>11, <1>17

LEMMA RemoveGives ==
  ASSUME HandleAssumption, HandleInv, NEW h \in LiveHandles, Remove(h)
  PROVE  h \in HandlesIn(table) /\ Promised!Give(h)
  <1>1. h \in HandlesIn(table)
    BY LiveAre
  <1>2. PICK t1, t2 : t1 = table /\ t2 = table'
    OBVIOUS
  <1>3. PICK s : s = h.slot
    OBVIOUS
  <1>4. s \in SlotNos /\ h = HandleIn(t1, s) /\ t1[s].made # "free"
    BY <1>1, <1>2, <1>3, HandlesAre
  <1>5. PICK u : u = Without(Words, s)
    OBVIOUS
  <1>6. t2 = u.tab
    BY <1>2, <1>3, <1>5 DEF Remove, Store
  <1>7. /\ Words \in WordRecs /\ WordsOK(Words, top) /\ Words.tab = t1 /\ top \in 0 .. Most
        /\ Fresh(t1, top)
    BY <1>2 DEF HandleInv, Words, WordRecs
  <1>8. s \in 1 .. top
    BY <1>4, <1>7 DEF Fresh, SlotNos
  <1>9. /\ t2[s].made = "free" /\ t2[s].generation = t1[s].generation
        /\ \A t \in SlotNos : t # s => t2[t] = t1[t]
    BY <1>4, <1>5, <1>6, <1>7, <1>8, GivenBack
  <1>10. Gives(t1, t2, {s})
    BY <1>9 DEF Gives
  <1>11. /\ HandlesIn(t2) = {g \in HandlesIn(t1) : g.slot \notin {s}}
         /\ ValsIn(t2) = [g \in HandlesIn(t2) |-> ValsIn(t1)[g]]
    BY <1>10, SomeGiven DEF Given
  <1>12. {g \in HandlesIn(t1) : g.slot \notin {s}} = HandlesIn(t1) \ {h}
    <2>1. \A g \in HandlesIn(t1) : g.slot = s <=> g = h
      BY <1>3, <1>4, HandlesAre
    <2> QED BY <2>1
  <1>13. OwnIn(t2) = OwnIn(t1) \ {h}
    <2>1. \A g \in HandlesIn(t2) : g.slot \in SlotNos /\ g.slot # s
      BY <1>11, HandlesAre
    <2>2. \A g \in HandlesIn(t2) : t2[g.slot] = t1[g.slot]
      BY <1>9, <2>1
    <2> QED BY <1>11, <1>12, <2>2 DEF OwnIn
  <1>14. Promised!Give(h)
    BY <1>2, <1>11, <1>12, <1>13, Mapped DEF Promised!Give, Promised!Only
  <1> QED BY <1>1, <1>14

LEMMA BeginBegins ==
  ASSUME HandleAssumption, HandleInv, Begin
  PROVE  Promised!BeginOwn
  <1>1. PICK t1, t2 : t1 = table /\ t2 = table'
    OBVIOUS
  <1>2. t1 \in [SlotNos -> Slot]
    BY <1>1 DEF HandleInv
  <1>3. t2 = [s \in SlotNos |-> [t1[s] EXCEPT !.made = IF @ = "now" THEN "earlier" ELSE @]]
    BY <1>1 DEF Begin
  <1>4. ASSUME NEW s \in SlotNos
        PROVE  /\ t2[s].generation = t1[s].generation /\ t2[s].val = t1[s].val
               /\ (t2[s].made = "free" <=> t1[s].made = "free") /\ t2[s].made # "now"
    <2>1. PICK r : r = t1[s]
      OBVIOUS
    <2>2. r \in Slot /\ t2[s] = [r EXCEPT !.made = IF r.made = "now" THEN "earlier" ELSE r.made]
      BY <1>2, <1>3, <2>1
    <2> QED BY <2>1, <2>2 DEF Slot
  <1>5. Gives(t1, t2, {})
    BY <1>4 DEF Gives
  <1>6. /\ HandlesIn(t2) = {g \in HandlesIn(t1) : g.slot \notin {}}
        /\ ValsIn(t2) = [g \in HandlesIn(t2) |-> ValsIn(t1)[g]]
    BY <1>5, SomeGiven DEF Given
  <1>7. {g \in HandlesIn(t1) : g.slot \notin {}} = HandlesIn(t1)
    OBVIOUS
  <1>8. ValsIn(t2) = ValsIn(t1)
    BY <1>6, <1>7 DEF ValsIn
  <1>9. OwnIn(t2) = {}
    <2>1. \A g \in HandlesIn(t2) : g.slot \in SlotNos
      BY HandlesAre
    <2> QED BY <1>4, <2>1 DEF OwnIn
  <1> QED BY <1>1, <1>8, <1>9, Mapped DEF Promised!BeginOwn

LEMMA RollbackGives ==
  ASSUME HandleAssumption, HandleInv, Rollback
  PROVE  Promised!GiveOwn
  <1>1. PICK t1, t2, u : t1 = table /\ t2 = table' /\ u = Walk[Most]
    OBVIOUS
  <1>2. t2 = u.tab /\ WalkOK(u, Most)
    BY <1>1, Walked DEF Rollback, Store
  <1>3. Fresh(t1, top)
    BY <1>1 DEF HandleInv
  <1>4. \A t \in SlotNos : t <= Most /\ (t1[t].made = "now" => t <= top)
    <2>1. top \in 0 .. Most
      BY DEF HandleInv
    <2> QED BY <1>3, <2>1 DEF Fresh, SlotNos, HandleAssumption
  <1>5. ASSUME NEW t \in SlotNos
        PROVE  /\ t2[t].generation = t1[t].generation
               /\ t1[t].made = "now" => t2[t].made = "free"
               /\ t1[t].made # "now" => t2[t].made = t1[t].made /\ t2[t].val = t1[t].val
    BY <1>1, <1>2, <1>4 DEF WalkOK
  <1>6. PICK S : S = {t \in SlotNos : t1[t].made = "now"}
    OBVIOUS
  <1>7. Gives(t1, t2, S)
    BY <1>5, <1>6 DEF Gives
  <1>8. /\ HandlesIn(t2) = {g \in HandlesIn(t1) : g.slot \notin S}
        /\ ValsIn(t2) = [g \in HandlesIn(t2) |-> ValsIn(t1)[g]]
    BY <1>7, SomeGiven DEF Given
  <1>9. {g \in HandlesIn(t1) : g.slot \notin S} = HandlesIn(t1) \ OwnIn(t1)
    <2>1. \A g \in HandlesIn(t1) : g.slot \in S <=> t1[g.slot].made = "now"
      BY <1>6, HandlesAre
    <2> QED BY <2>1 DEF OwnIn
  <1>10. OwnIn(t2) = {}
    <2>1. ASSUME NEW g \in HandlesIn(t2) PROVE t2[g.slot].made # "now"
      <3>1. g.slot \in SlotNos
        BY HandlesAre
      <3> QED BY <1>5, <3>1
    <2> QED BY <2>1 DEF OwnIn
  <1> QED BY <1>1, <1>8, <1>9, <1>10, Mapped DEF Promised!GiveOwn, Promised!Only

\* A handle table is a bounded set of names, of which the transaction gives back
\* its own; a handle kept past its release names nothing until its generation comes
\* round; the free list is the slots handed out and not taken, each once.
THEOREM KeepsNames ==
  ASSUME HandleAssumption
  PROVE  HandleSpec => NamesKept
  <1>1. HandleInit => Promised!Init
    <2>1. SUFFICES ASSUME HandleInit PROVE Promised!Init
      OBVIOUS
    <2>2. HandlesIn(table) = {}
      BY <2>1 DEF HandleInit, HandlesIn
    <2>3. OwnIn(table) = {} /\ ValsIn(table) = << >>
      BY <2>2 DEF OwnIn, ValsIn
    <2> QED BY <2>3, Mapped DEF Promised!Init
  <1>2. ASSUME HandleInv, [HandleNext]_handleVars
        PROVE  [Promised!Next]_<<[h \in LiveHandles |-> table[h.slot].val],
                                 {h \in LiveHandles : table[h.slot].made = "now"}>>
    <2>1. ASSUME NEW v \in Vals, Insert(v) PROVE Promised!Next
      <3>1. \E id \in Handles : Promised!Take(id, v)
        BY <1>2, <2>1, InsertTakes
      <3> QED BY <3>1 DEF Promised!Next
    <2>2. ASSUME NEW h \in LiveHandles, Remove(h) PROVE Promised!Next
      <3>1. h \in HandlesIn(table) /\ Promised!Give(h)
        BY <1>2, <2>2, RemoveGives
      <3> QED BY <3>1, Mapped DEF Promised!Next
    <2>3. CASE Begin
      BY <1>2, <2>3, BeginBegins DEF Promised!Next
    <2>4. CASE Rollback
      BY <1>2, <2>4, RollbackGives DEF Promised!Next
    <2>5. CASE UNCHANGED handleVars
      <3>1. table' = table
        BY <2>5 DEF handleVars
      <3> QED BY <3>1, Mapped
    <2> QED BY <1>2, <2>1, <2>2, <2>3, <2>4, <2>5 DEF HandleNext
  <1>3. HandleInv => HandleTypeOK /\ KeptNamesNothing /\ FreeListExact
    BY HandleTypes, KeptDead, FreeAreListed
  <1>4. HandleSpec => []HandleInv
    BY AlwaysHandle
  <1> QED BY <1>1, <1>2, <1>3, <1>4, PTL DEF HandleSpec, NamesKept, ImplementsNames, Promised!Spec
-----------------------------------------------------------------------------
(***************************************************************************)
(* The inductive invariant.  A frame that awaits no other is its task's    *)
(* last, and one of each task; there are no more of them than the edge has *)
(* room for, and so none that runs finds it full.                          *)
(***************************************************************************)
Alone(st) == \A f, g \in Frames : st[f] = "runs" /\ st[g] = "runs" => f = g

ParkedOnce(st, pk) ==
  /\ \A i, j \in 1 .. Len(pk) : pk[i] = pk[j] => i = j
  /\ \A i \in 1 .. Len(pk) : st[pk[i]] = "parked"
  /\ \A f \in Frames : st[f] = "parked" => \E i \in 1 .. Len(pk) : pk[i] = f

Chained(st, ct) ==
  /\ \A g \in Frames : ct[g] # NoAwaiter => st[g] # "none" /\ st[ct[g]] = "awaits"
  /\ \A g, h \in Frames : ct[g] # NoAwaiter /\ ct[g] = ct[h] => g = h
  /\ \A f \in Frames : st[f] = "awaits" => \E g \in Frames : ct[g] = f

LastOf(st) == {f \in Frames : st[f] \notin {"none", "awaits"}}
TasksFit(st) == Cardinality(LastOf(st)) <= ParkRoom

Noted(st, w) == w # NoAwaiter => st[w] = "waits"

States == state \in [Frames -> FrameStates]
Conts  == cont \in [Frames -> Frames \cup {NoAwaiter}]
Lists  == parked \in Seq(Frames) /\ Len(parked) <= ParkRoom
AskFlags == risen \in BOOLEAN /\ nextAsked \in BOOLEAN
AskWaits == wakeIn \in Waits /\ untilYield \in Waits /\ answer \in Waits /\ soonest \in Waits
Notices == waker \in Frames \cup {NoAwaiter} /\ notified \in BOOLEAN /\ owed \in BOOLEAN

SoonestKept == nextAsked = FALSE => wakeIn = soonest

\* What the tasks keep, and what is asked of the edge.
TasksInv ==
  /\ States /\ Conts /\ Lists /\ Notices
  /\ Alone(state)
  /\ ParkedOnce(state, parked)
  /\ Chained(state, cont)
  /\ TasksFit(state)
  /\ Noted(state, waker)
  /\ NoticeKept

AsksInv == AskFlags /\ AskWaits /\ SoonestKept

EdgeInv == TasksInv /\ AsksInv
-----------------------------------------------------------------------------
HeldStates == {"ready", "runs", "parked", "waits"}

\* What moves among those who may hold a frame leaves its chain as it was.
MovesHeld(st, st2) ==
  /\ st \in [Frames -> FrameStates] /\ st2 \in [Frames -> FrameStates]
  /\ \A f \in Frames : st2[f] = st[f] \/ {st[f], st2[f]} \subseteq HeldStates

LEMMA ChainsKept ==
  ASSUME NEW st, NEW st2, NEW ct, MovesHeld(st, st2), Chained(st, ct),
         ct \in [Frames -> Frames \cup {NoAwaiter}]
  PROVE  Chained(st2, ct) /\ LastOf(st2) = LastOf(st)
<1>1. \A f \in Frames : (st2[f] = "none" <=> st[f] = "none")
                     /\ (st2[f] = "awaits" <=> st[f] = "awaits")
  BY DEF MovesHeld, HeldStates
<1>2. LastOf(st2) = LastOf(st)
  BY <1>1 DEF LastOf
<1>3. \A g \in Frames : ct[g] # NoAwaiter => st2[g] # "none" /\ st2[ct[g]] = "awaits"
  <2> SUFFICES ASSUME NEW g \in Frames, ct[g] # NoAwaiter
               PROVE  st2[g] # "none" /\ st2[ct[g]] = "awaits"
    OBVIOUS
  <2>1. ct[g] \in Frames
    OBVIOUS
  <2>2. st[g] # "none" /\ st[ct[g]] = "awaits"
    BY DEF Chained
  <2> QED BY <2>1, <2>2, <1>1
<1>4. \A f \in Frames : st2[f] = "awaits" => \E g \in Frames : ct[g] = f
  BY <1>1 DEF Chained
<1> QED BY <1>2, <1>3, <1>4 DEF Chained

\* The tasks are counted by their last frames.
LEMMA TasksAreLast ==
  ASSUME Conts, Chained(state, cont), EdgeAssumption
  PROVE  /\ Tasks = Cardinality(LastOf(state))
         /\ IsFiniteSet(LastOf(state)) /\ Cardinality(LastOf(state)) \in Nat
<1>1. \A f \in Frames : (\A g \in Frames : cont[g] # f) <=> state[f] # "awaits"
  <2>1. \A f \in Frames : state[f] = "awaits" => \E g \in Frames : cont[g] = f
    BY DEF Chained
  <2>2. ASSUME NEW f \in Frames, NEW g \in Frames, cont[g] = f PROVE state[f] = "awaits"
    <3>1. cont[g] # NoAwaiter => state[cont[g]] = "awaits"
      BY DEF Chained
    <3>2. f # NoAwaiter
      BY DEF EdgeAssumption
    <3> QED BY <3>1, <3>2, <2>2
  <2> QED BY <2>1, <2>2
<1>2. {f \in Frames : state[f] # "none" /\ \A g \in Frames : cont[g] # f} = LastOf(state)
  BY <1>1 DEF LastOf
<1>3. LastOf(state) \subseteq Frames
  BY DEF LastOf
<1> QED BY <1>2, <1>3, FS_Subset, FS_CardinalityType DEF Tasks, EdgeAssumption
-----------------------------------------------------------------------------
\* A frame takes another state it may be held in, the lists as they were.
Turns(f, st) ==
  /\ f \in Frames
  /\ state[f] \in HeldStates /\ st \in HeldStates
  /\ state' = [state EXCEPT ![f] = st]
  /\ cont' = cont

LEMMA TurnsHeld ==
  ASSUME NEW f, NEW st, States, Conts, Chained(state, cont), TasksFit(state), Turns(f, st)
  PROVE  States' /\ Conts' /\ Chained(state, cont)' /\ TasksFit(state)'
<1>1. HeldStates \subseteq FrameStates
  BY DEF HeldStates, FrameStates
<1>2. States' /\ Conts'
  BY <1>1 DEF Turns, States, Conts
<1>3. MovesHeld(state, state')
  BY <1>2 DEF Turns, States, MovesHeld
<1>4. Chained(state', cont) /\ LastOf(state') = LastOf(state)
  BY <1>3, ChainsKept DEF Conts
<1> QED BY <1>2, <1>4 DEF Turns, TasksFit

\* What does not touch the parked or the waiting leaves their lists exact.
LEMMA ListsStand ==
  ASSUME NEW f \in Frames, NEW st, States, ParkedOnce(state, parked), Noted(state, waker),
         Lists, Notices, state[f] \notin {"parked"}, st # "parked",
         state' = [state EXCEPT ![f] = st], parked' = parked, waker' = waker,
         waker # f, EdgeAssumption
  PROVE  Lists' /\ ParkedOnce(state, parked)' /\ Noted(state, waker)'
<1>1. \A i \in 1 .. Len(parked) : parked[i] \in Frames /\ parked[i] # f
  BY DEF ParkedOnce, Lists
<1>2. ParkedOnce(state', parked)
  BY <1>1 DEF ParkedOnce, States
<1>3. Noted(state', waker)
  BY DEF Noted, States, Notices
<1> QED BY <1>2, <1>3 DEF Lists

LEMMA SpawnKeeps ==
  ASSUME NEW f \in Frames, EdgeAssumption, TasksInv, Spawn(f)
  PROVE  TasksInv'
<1>1. /\ state[f] = "none" /\ state' = [state EXCEPT ![f] = "ready"] /\ cont' = cont
      /\ parked' = parked /\ waker' = waker /\ notified' = notified /\ owed' = owed
  BY DEF Spawn
<1>2. States' /\ Conts' /\ Notices' /\ NoticeKept'
  BY <1>1 DEF TasksInv, States, Conts, Notices, NoticeKept, FrameStates
<1>3. Alone(state)'
  BY <1>1 DEF TasksInv, States, Alone
<1>4. waker # f
  <2>1. waker # NoAwaiter => state[waker] = "waits"
    BY DEF TasksInv, Noted
  <2>2. f # NoAwaiter
    BY DEF EdgeAssumption
  <2> QED BY <2>1, <2>2, <1>1
<1>5. Lists' /\ ParkedOnce(state, parked)' /\ Noted(state, waker)'
  BY <1>1, <1>4, ListsStand DEF TasksInv
<1>6. \A g \in Frames : cont[g] # NoAwaiter => cont[g] \in Frames /\ cont[g] # f /\ state[g] # "none"
  BY <1>1 DEF TasksInv, Chained, Conts
<1>7. Chained(state, cont)'
  BY <1>1, <1>6 DEF TasksInv, States, Chained
<1>8. TasksFit(state)'
  <2>1. /\ Tasks = Cardinality(LastOf(state)) /\ IsFiniteSet(LastOf(state))
        /\ Cardinality(LastOf(state)) \in Nat
    BY TasksAreLast DEF TasksInv
  <2>2. LastOf(state') = LastOf(state) \cup {f} /\ f \notin LastOf(state)
    BY <1>1 DEF LastOf, TasksInv, States
  <2>3. Cardinality(LastOf(state')) = Cardinality(LastOf(state)) + 1
    BY <2>1, <2>2, FS_AddElement
  <2>4. Cardinality(LastOf(state)) < ParkRoom /\ ParkRoom \in Nat
    BY <2>1 DEF Spawn, RootsFit, EdgeAssumption
  <2> QED BY <2>1, <2>3, <2>4 DEF TasksFit
<1> QED BY <1>2, <1>3, <1>5, <1>7, <1>8 DEF TasksInv

LEMMA RiseKeeps ==
  ASSUME NEW w \in 0 .. MaxWait, EdgeAssumption, TasksInv, Rise(w)
  PROVE  TasksInv'
<1>1. /\ state' = Wakened(state) /\ cont' = cont /\ parked' = <<>>
      /\ waker' = waker /\ notified' = notified /\ owed' = owed
  BY DEF Rise
<1>2. \A f \in Frames : /\ state[f] = "parked" => state'[f] = "ready"
                        /\ state[f] # "parked" => state'[f] = state[f]
  <2> SUFFICES ASSUME NEW f \in Frames
               PROVE  /\ state[f] = "parked" => state'[f] = "ready"
                      /\ state[f] # "parked" => state'[f] = state[f]
    OBVIOUS
  <2>1. DOMAIN parked = 1 .. Len(parked)
    BY DEF TasksInv, Lists
  <2>2. (\E i \in DOMAIN parked : parked[i] = f) <=> state[f] = "parked"
    BY <2>1 DEF TasksInv, ParkedOnce
  <2> QED BY <1>1, <2>2 DEF Wakened
<1>3. state' \in [Frames -> FrameStates] /\ state \in [Frames -> FrameStates]
  BY <1>1 DEF TasksInv, States, Wakened, FrameStates
<1>4. MovesHeld(state, state')
  BY <1>2, <1>3 DEF MovesHeld, HeldStates
<1>5. Chained(state', cont) /\ LastOf(state') = LastOf(state)
  BY <1>4, ChainsKept DEF TasksInv, Conts
<1>6. Alone(state)'
  BY <1>2, <1>3 DEF TasksInv, Alone
<1>7. Lists' /\ ParkedOnce(state, parked)'
  <2>1. \A f \in Frames : state'[f] # "parked"
    BY <1>2
  <2>2. \A i \in 1 .. Len(<<>>) : FALSE
    OBVIOUS
  <2>3. <<>> \in Seq(Frames) /\ Len(<<>>) <= ParkRoom
    BY DEF EdgeAssumption
  <2> QED BY <1>1, <2>1, <2>2, <2>3 DEF Lists, ParkedOnce
<1>8. Noted(state, waker)'
  BY <1>1, <1>2 DEF TasksInv, Noted, Notices
<1> QED BY <1>1, <1>3, <1>5, <1>6, <1>7, <1>8
        DEF TasksInv, States, Conts, Notices, NoticeKept, TasksFit

LEMMA ResumeKeeps ==
  ASSUME NEW f \in Frames, EdgeAssumption, TasksInv, Resume(f)
  PROVE  TasksInv'
<1>1. /\ Running = {} /\ state[f] = "ready" /\ state' = [state EXCEPT ![f] = "runs"]
      /\ cont' = cont /\ parked' = parked
      /\ waker' = waker /\ notified' = notified /\ owed' = owed
  BY DEF Resume, Program
<1>2. Turns(f, "runs")
  BY <1>1 DEF Turns, HeldStates
<1>3. States' /\ Conts' /\ Chained(state, cont)' /\ TasksFit(state)'
  BY <1>2, TurnsHeld DEF TasksInv
<1>4. waker # f
  <2>1. waker # NoAwaiter => state[waker] = "waits"
    BY DEF TasksInv, Noted
  <2>2. f # NoAwaiter
    BY DEF EdgeAssumption
  <2> QED BY <2>1, <2>2, <1>1
<1>5. Lists' /\ ParkedOnce(state, parked)' /\ Noted(state, waker)'
  BY <1>1, <1>4, ListsStand DEF TasksInv
<1>6. Alone(state)'
  <2>1. \A g \in Frames : state[g] # "runs"
    BY <1>1 DEF Running, In
  <2> QED BY <1>1, <2>1 DEF TasksInv, States, Alone
<1> QED BY <1>1, <1>3, <1>5, <1>6 DEF TasksInv, Notices, NoticeKept

LEMMA ResumeNoticedKeeps ==
  ASSUME NEW f \in Frames, EdgeAssumption, TasksInv, ResumeNoticed(f)
  PROVE  TasksInv'
<1>1. /\ Running = {} /\ state[f] = "waits" /\ state' = [state EXCEPT ![f] = "runs"]
      /\ cont' = cont /\ parked' = parked
      /\ waker' = waker /\ notified' = FALSE /\ owed' = FALSE /\ waker # f
  BY DEF ResumeNoticed, Program
<1>2. Turns(f, "runs")
  BY <1>1 DEF Turns, HeldStates
<1>3. States' /\ Conts' /\ Chained(state, cont)' /\ TasksFit(state)'
  BY <1>2, TurnsHeld DEF TasksInv
<1>4. Lists' /\ ParkedOnce(state, parked)' /\ Noted(state, waker)'
  BY <1>1, ListsStand DEF TasksInv
<1>5. Alone(state)'
  <2>1. \A g \in Frames : state[g] # "runs"
    BY <1>1 DEF Running, In
  <2> QED BY <1>1, <2>1 DEF TasksInv, States, Alone
<1>6. Notices' /\ NoticeKept'
  BY <1>1 DEF TasksInv, Notices, NoticeKept
<1> QED BY <1>3, <1>4, <1>5, <1>6 DEF TasksInv

LEMMA WaitKeeps ==
  ASSUME NEW f \in Frames, EdgeAssumption, TasksInv, WaitNotice(f)
  PROVE  TasksInv'
<1>1. state[f] = "runs" /\ cont' = cont /\ parked' = parked
  BY DEF WaitNotice
<1>2. CASE notified
  <2>1. notified' = FALSE /\ owed' = FALSE /\ state' = state /\ waker' = waker
    BY <1>2 DEF WaitNotice
  <2> QED BY <1>1, <2>1 DEF TasksInv, States, Conts, Lists, Notices, NoticeKept, TasksFit
<1>3. CASE ~ notified
  <2>1. /\ state' = [state EXCEPT ![f] = "waits"] /\ waker' = f
        /\ notified' = notified /\ owed' = owed
    BY <1>3 DEF WaitNotice
  <2>2. Turns(f, "waits")
    BY <1>1, <2>1 DEF Turns, HeldStates
  <2>3. States' /\ Conts' /\ Chained(state, cont)' /\ TasksFit(state)'
    BY <2>2, TurnsHeld DEF TasksInv
  <2>4. Alone(state)'
    BY <2>1 DEF TasksInv, States, Alone
  <2>5. \A i \in 1 .. Len(parked) : parked[i] \in Frames /\ parked[i] # f
    BY <1>1 DEF TasksInv, ParkedOnce, Lists
  <2>6. ParkedOnce(state, parked)'
    BY <1>1, <2>1, <2>5 DEF TasksInv, ParkedOnce, States
  <2>7. Noted(state, waker)'
    BY <2>1 DEF Noted, TasksInv, States
  <2>8. owed = FALSE
    BY <1>3 DEF TasksInv, NoticeKept, Notices
  <2>9. Notices' /\ NoticeKept'
    BY <2>1, <2>8 DEF TasksInv, Notices, NoticeKept
  <2> QED BY <1>1, <2>3, <2>4, <2>6, <2>7, <2>9 DEF TasksInv, Lists
<1> QED BY <1>2, <1>3

LEMMA ParkKeeps ==
  ASSUME NEW f \in Frames, EdgeAssumption, TasksInv, Park(f)
  PROVE  TasksInv'
<1>1. /\ state[f] = "runs" /\ Len(parked) < ParkRoom /\ parked' = Append(parked, f)
      /\ state' = [state EXCEPT ![f] = "parked"] /\ cont' = cont
      /\ waker' = waker /\ notified' = notified /\ owed' = owed
  BY DEF Park
<1>2. Turns(f, "parked")
  BY <1>1 DEF Turns, HeldStates
<1>3. States' /\ Conts' /\ Chained(state, cont)' /\ TasksFit(state)'
  BY <1>2, TurnsHeld DEF TasksInv
<1>4. Alone(state)'
  BY <1>1 DEF TasksInv, States, Alone
<1>5. /\ parked \in Seq(Frames) /\ Len(parked) \in Nat /\ ParkRoom \in Nat
      /\ parked' \in Seq(Frames) /\ Len(parked') = Len(parked) + 1
      /\ parked'[Len(parked) + 1] = f
      /\ \A i \in 1 .. Len(parked) : parked'[i] = parked[i] /\ parked[i] \in Frames
  BY <1>1 DEF TasksInv, Lists, EdgeAssumption
<1>6. Lists'
  BY <1>1, <1>5 DEF Lists
<1>7. \A i \in 1 .. Len(parked) : parked[i] # f
  BY <1>1 DEF TasksInv, ParkedOnce
<1>8. ParkedOnce(state, parked)'
  <2>1. \A i \in 1 .. Len(parked') : i \in 1 .. Len(parked) \/ i = Len(parked) + 1
    BY <1>5
  <2>2. \A i, j \in 1 .. Len(parked') : parked'[i] = parked'[j] => i = j
    <3> SUFFICES ASSUME NEW i \in 1 .. Len(parked'), NEW j \in 1 .. Len(parked'),
                        parked'[i] = parked'[j]
                 PROVE  i = j
      OBVIOUS
    <3>1. CASE i \in 1 .. Len(parked) /\ j \in 1 .. Len(parked)
      BY <3>1, <1>5 DEF TasksInv, ParkedOnce
    <3>2. CASE i = Len(parked) + 1 /\ j \in 1 .. Len(parked)
      BY <3>2, <1>5, <1>7
    <3>3. CASE j = Len(parked) + 1 /\ i \in 1 .. Len(parked)
      BY <3>3, <1>5, <1>7
    <3> QED BY <2>1, <3>1, <3>2, <3>3
  <2>3. \A i \in 1 .. Len(parked') : state'[parked'[i]] = "parked"
    <3> SUFFICES ASSUME NEW i \in 1 .. Len(parked') PROVE state'[parked'[i]] = "parked"
      OBVIOUS
    <3>1. CASE i \in 1 .. Len(parked)
      BY <3>1, <1>1, <1>5, <1>7 DEF TasksInv, ParkedOnce, States
    <3>2. CASE i = Len(parked) + 1
      BY <3>2, <1>1, <1>5 DEF TasksInv, States
    <3> QED BY <2>1, <3>1, <3>2
  <2>4. \A g \in Frames : state'[g] = "parked" => \E i \in 1 .. Len(parked') : parked'[i] = g
    <3> SUFFICES ASSUME NEW g \in Frames, state'[g] = "parked"
                 PROVE  \E i \in 1 .. Len(parked') : parked'[i] = g
      OBVIOUS
    <3>1. CASE g = f
      <4>1. Len(parked) + 1 \in 1 .. Len(parked')
        BY <1>5
      <4> QED BY <4>1, <3>1, <1>5
    <3>2. CASE g # f
      <4>1. state[g] = "parked"
        BY <3>2, <1>1 DEF TasksInv, States
      <4>2. PICK i \in 1 .. Len(parked) : parked[i] = g
        BY <4>1 DEF TasksInv, ParkedOnce
      <4>3. i \in 1 .. Len(parked') /\ parked'[i] = g
        BY <4>2, <1>5
      <4> QED BY <4>3
    <3> QED BY <3>1, <3>2
  <2> QED BY <2>2, <2>3, <2>4 DEF ParkedOnce
<1>9. Noted(state, waker)'
  BY <1>1 DEF TasksInv, States, Noted, Notices
<1> QED BY <1>1, <1>3, <1>4, <1>6, <1>8, <1>9 DEF TasksInv, Notices, NoticeKept

LEMMA GiveKeeps ==
  ASSUME TasksInv, GiveNotice
  PROVE  TasksInv'
BY DEF TasksInv, GiveNotice, States, Conts, Lists, Notices, TasksFit, Noted, NoticeKept

\* One last frame in the place of another: no more of them than there were.
LEMMA LastMoved ==
  ASSUME NEW S, NEW f \in S, NEW g, IsFiniteSet(S)
  PROVE  /\ Cardinality((S \ {f}) \cup {g}) <= Cardinality(S)
         /\ Cardinality(S \ {f}) <= Cardinality(S)
         /\ IsFiniteSet((S \ {f}) \cup {g})
         /\ Cardinality((S \ {f}) \cup {g}) \in Nat
<1>1. /\ IsFiniteSet(S \ {f}) /\ Cardinality(S \ {f}) = Cardinality(S) - 1
      /\ Cardinality(S) \in Nat
  BY FS_RemoveElement, FS_CardinalityType
<1>2. Cardinality(S \ {f}) \in Nat
  BY <1>1, FS_CardinalityType
<1>3. /\ IsFiniteSet((S \ {f}) \cup {g})
      /\ \/ Cardinality((S \ {f}) \cup {g}) = Cardinality(S \ {f})
         \/ Cardinality((S \ {f}) \cup {g}) = Cardinality(S \ {f}) + 1
  BY <1>1, FS_AddElement
<1> QED BY <1>1, <1>2, <1>3, FS_CardinalityType

LEMMA AwaitKeeps ==
  ASSUME NEW f \in Frames, NEW g \in Frames, EdgeAssumption, TasksInv, Await(f, g)
  PROVE  TasksInv'
<1>1. /\ state[f] = "runs" /\ state[g] = "none" /\ f # g
      /\ state' = [state EXCEPT ![f] = "awaits", ![g] = "runs"]
      /\ cont' = [cont EXCEPT ![g] = f]
      /\ parked' = parked /\ waker' = waker /\ notified' = notified /\ owed' = owed
  BY DEF Await
<1>2. /\ state'[f] = "awaits" /\ state'[g] = "runs" /\ cont'[g] = f
      /\ \A h \in Frames : h # f /\ h # g => state'[h] = state[h]
      /\ \A h \in Frames : h # g => cont'[h] = cont[h]
  BY <1>1 DEF TasksInv, States, Conts
<1>3. States' /\ Conts' /\ Notices' /\ NoticeKept'
  BY <1>1 DEF TasksInv, States, Conts, Notices, NoticeKept, FrameStates
<1>4. Alone(state)'
  BY <1>1, <1>2 DEF TasksInv, Alone
<1>5. /\ f # NoAwaiter
      /\ \A h \in Frames : cont[h] # NoAwaiter =>
           cont[h] \in Frames /\ cont[h] # f /\ cont[h] # g /\ state[h] # "none" /\ h # g
    BY <1>1 DEF TasksInv, Chained, Conts, EdgeAssumption
<1>6. Chained(state, cont)'
  <2>1. \A h \in Frames : cont'[h] # NoAwaiter => state'[h] # "none" /\ state'[cont'[h]] = "awaits"
    <3> SUFFICES ASSUME NEW h \in Frames, cont'[h] # NoAwaiter
                 PROVE  state'[h] # "none" /\ state'[cont'[h]] = "awaits"
      OBVIOUS
    <3>1. CASE h = g
      BY <3>1, <1>2
    <3>2. CASE h # g
      <4>1. cont'[h] = cont[h] /\ cont[h] # NoAwaiter
        BY <3>2, <1>2
      <4>2. state[h] # "none" /\ state[cont[h]] = "awaits"
        BY <4>1 DEF TasksInv, Chained
      <4>3. state'[cont[h]] = "awaits"
        BY <4>1, <4>2, <1>5, <1>2
      <4>4. state'[h] # "none"
        BY <4>2, <3>2, <1>2
      <4> QED BY <4>1, <4>3, <4>4
    <3> QED BY <3>1, <3>2
  <2>2. \A h, k \in Frames : cont'[h] # NoAwaiter /\ cont'[h] = cont'[k] => h = k
    <3> SUFFICES ASSUME NEW h \in Frames, NEW k \in Frames, cont'[h] # NoAwaiter, cont'[h] = cont'[k]
                 PROVE  h = k
      OBVIOUS
    <3>1. CASE h # g /\ k # g
      BY <3>1, <1>2 DEF TasksInv, Chained
    <3>2. CASE h = g /\ k # g
      BY <3>2, <1>2, <1>5
    <3>3. CASE h # g /\ k = g
      BY <3>3, <1>2, <1>5
    <3> QED BY <3>1, <3>2, <3>3
  <2>3. \A h \in Frames : state'[h] = "awaits" => \E k \in Frames : cont'[k] = h
    <3> SUFFICES ASSUME NEW h \in Frames, state'[h] = "awaits"
                 PROVE  \E k \in Frames : cont'[k] = h
      OBVIOUS
    <3>1. CASE h = f
      BY <3>1, <1>2
    <3>2. CASE h # f
      <4>1. state[h] = "awaits"
        BY <3>2, <1>2
      <4>2. PICK k \in Frames : cont[k] = h
        BY <4>1 DEF TasksInv, Chained
      <4>3. h # NoAwaiter
        BY DEF EdgeAssumption
      <4>4. k # g
        BY <4>2, <4>3, <1>5
      <4> QED BY <4>2, <4>4, <1>2
    <3> QED BY <3>1, <3>2
  <2> QED BY <2>1, <2>2, <2>3 DEF Chained
<1>7. ParkedOnce(state, parked)'
  <2>1. \A i \in 1 .. Len(parked) : parked[i] \in Frames /\ parked[i] # f /\ parked[i] # g
    BY <1>1 DEF TasksInv, ParkedOnce, Lists
  <2>2. \A i \in 1 .. Len(parked) : state'[parked[i]] = "parked"
    BY <2>1, <1>2 DEF TasksInv, ParkedOnce
  <2>3. \A h \in Frames : state'[h] = "parked" => state[h] = "parked"
    BY <1>2
  <2> QED BY <1>1, <2>2, <2>3 DEF TasksInv, ParkedOnce
<1>8. Noted(state, waker)'
  BY <1>1, <1>2 DEF TasksInv, Noted, Notices
<1>9. TasksFit(state)'
  <2>1. IsFiniteSet(LastOf(state)) /\ Cardinality(LastOf(state)) \in Nat
    BY TasksAreLast DEF TasksInv
  <2>2. f \in LastOf(state)
    BY <1>1 DEF LastOf
  <2>3. LastOf(state') = (LastOf(state) \ {f}) \cup {g}
    BY <1>1, <1>2 DEF LastOf
  <2>4. Cardinality(LastOf(state')) <= Cardinality(LastOf(state)) /\ Cardinality(LastOf(state')) \in Nat
    BY <2>1, <2>2, <2>3, LastMoved
  <2> QED BY <2>1, <2>4 DEF TasksInv, TasksFit, EdgeAssumption
<1> QED BY <1>1, <1>3, <1>4, <1>6, <1>7, <1>8, <1>9 DEF TasksInv, Lists

LEMMA FinishKeeps ==
  ASSUME NEW f \in Frames, EdgeAssumption, TasksInv, Finish(f)
  PROVE  TasksInv'
<1> DEFINE c == cont[f]
<1>0. c \in Frames \cup {NoAwaiter} /\ NoAwaiter \notin Frames
  BY DEF TasksInv, Conts, EdgeAssumption
<1>1. /\ state[f] = "runs" /\ cont' = [cont EXCEPT ![f] = NoAwaiter]
      /\ parked' = parked /\ waker' = waker /\ notified' = notified /\ owed' = owed
      /\ state' = [g \in Frames |->
           CASE g = f -> "none"
             [] g = c -> "runs"
             [] OTHER -> state[g]]
  BY DEF Finish
<1>2. c \in Frames => state[c] = "awaits" /\ c # f
  BY <1>0, <1>1 DEF TasksInv, Chained
<1>3. /\ state'[f] = "none" /\ (c \in Frames => state'[c] = "runs")
      /\ \A h \in Frames : h # f /\ h # c => state'[h] = state[h]
      /\ cont'[f] = NoAwaiter
      /\ \A h \in Frames : h # f => cont'[h] = cont[h]
  BY <1>1, <1>2 DEF TasksInv, Conts
<1> HIDE DEF c
<1>4. States' /\ Conts' /\ Notices' /\ NoticeKept'
  BY <1>1 DEF TasksInv, States, Conts, Notices, NoticeKept, FrameStates
<1>5. \A h \in Frames : h # f => state[h] # "runs"
  BY <1>1 DEF TasksInv, Alone
<1>6. Alone(state)'
  BY <1>3, <1>5 DEF Alone
<1>7. \A h \in Frames : h # f /\ cont[h] # NoAwaiter =>
        cont[h] \in Frames /\ cont[h] # c /\ cont[h] # f /\ state[h] # "none"
  <2> SUFFICES ASSUME NEW h \in Frames, h # f, cont[h] # NoAwaiter
               PROVE  cont[h] \in Frames /\ cont[h] # c /\ cont[h] # f /\ state[h] # "none"
    OBVIOUS
  <2>1. cont[h] \in Frames /\ state[h] # "none" /\ state[cont[h]] = "awaits"
    BY DEF TasksInv, Chained, Conts
  <2>2. cont[h] # c
    BY DEF TasksInv, Chained, c
  <2> QED BY <2>1, <2>2, <1>1
<1>8. Chained(state, cont)'
  <2>1. \A h \in Frames : cont'[h] # NoAwaiter => state'[h] # "none" /\ state'[cont'[h]] = "awaits"
    <3> SUFFICES ASSUME NEW h \in Frames, cont'[h] # NoAwaiter
                 PROVE  state'[h] # "none" /\ state'[cont'[h]] = "awaits"
      OBVIOUS
    <3>1. h # f /\ cont'[h] = cont[h]
      BY <1>3
    <3>2. cont[h] \in Frames /\ cont[h] # c /\ cont[h] # f /\ state[h] # "none"
      BY <3>1, <1>7
    <3>3. state[cont[h]] = "awaits"
      BY <3>1 DEF TasksInv, Chained
    <3>4. state'[cont[h]] = "awaits"
      BY <3>2, <3>3, <1>3
    <3>5. state'[h] # "none"
      BY <3>1, <3>2, <1>3
    <3> QED BY <3>1, <3>4, <3>5
  <2>2. \A h, k \in Frames : cont'[h] # NoAwaiter /\ cont'[h] = cont'[k] => h = k
    BY <1>3 DEF TasksInv, Chained
  <2>3. \A h \in Frames : state'[h] = "awaits" => \E k \in Frames : cont'[k] = h
    <3> SUFFICES ASSUME NEW h \in Frames, state'[h] = "awaits"
                 PROVE  \E k \in Frames : cont'[k] = h
      OBVIOUS
    <3>1. h # f /\ h # c /\ state[h] = "awaits"
      BY <1>3
    <3>2. PICK k \in Frames : cont[k] = h
      BY <3>1 DEF TasksInv, Chained
    <3>3. k # f
      BY <3>1, <3>2 DEF c
    <3> QED BY <3>2, <3>3, <1>3
  <2> QED BY <2>1, <2>2, <2>3 DEF Chained
<1>9. ParkedOnce(state, parked)'
  <2>1. \A i \in 1 .. Len(parked) : parked[i] \in Frames /\ parked[i] # f /\ parked[i] # c
    BY <1>1, <1>2 DEF TasksInv, ParkedOnce, Lists
  <2>2. \A i \in 1 .. Len(parked) : state'[parked[i]] = "parked"
    BY <2>1, <1>3 DEF TasksInv, ParkedOnce
  <2>3. \A h \in Frames : state'[h] = "parked" => state[h] = "parked"
    BY <1>3
  <2> QED BY <1>1, <2>2, <2>3 DEF TasksInv, ParkedOnce
<1>10. Noted(state, waker)'
  <2>1. ASSUME waker # NoAwaiter PROVE state'[waker] = "waits"
    <3>1. waker \in Frames /\ state[waker] = "waits"
      BY <2>1 DEF TasksInv, Noted, Notices
    <3> QED BY <3>1, <1>1, <1>2, <1>3
  <2> QED BY <2>1, <1>1 DEF Noted
<1>11. TasksFit(state)'
  <2>1. IsFiniteSet(LastOf(state)) /\ Cardinality(LastOf(state)) \in Nat
    BY TasksAreLast DEF TasksInv
  <2>2. f \in LastOf(state)
    BY <1>1 DEF LastOf
  <2>3. LastOf(state') \subseteq (LastOf(state) \ {f}) \cup {c}
    BY <1>3 DEF LastOf
  <2>4. /\ Cardinality((LastOf(state) \ {f}) \cup {c}) <= Cardinality(LastOf(state))
        /\ IsFiniteSet((LastOf(state) \ {f}) \cup {c})
        /\ Cardinality((LastOf(state) \ {f}) \cup {c}) \in Nat
    BY <2>1, <2>2, LastMoved
  <2>5. /\ Cardinality(LastOf(state')) <= Cardinality((LastOf(state) \ {f}) \cup {c})
        /\ IsFiniteSet(LastOf(state'))
    BY <2>3, <2>4, FS_Subset
  <2>6. Cardinality(LastOf(state')) \in Nat
    BY <2>5, FS_CardinalityType
  <2>7. Cardinality(LastOf(state)) <= ParkRoom /\ ParkRoom \in Nat
    BY DEF TasksInv, TasksFit, EdgeAssumption
  <2> QED BY <2>1, <2>4, <2>5, <2>6, <2>7 DEF TasksFit
<1> QED BY <1>1, <1>4, <1>6, <1>8, <1>9, <1>10, <1>11 DEF TasksInv, Lists
-----------------------------------------------------------------------------
LEMMA AskKeeps ==
  ASSUME EdgeAssumption, AsksInv, UNCHANGED taskVars, TasksInv,
         \/ AskNext
         \/ \E w \in 0 .. MaxWait : WakeAt(w) \/ ExtendTo(w)
         \/ Fall
         \/ Pass
  PROVE  AsksInv' /\ TasksInv'
<1>1. TasksInv'
  BY DEF taskVars, TasksInv, States, Conts, Lists, Notices, TasksFit, Noted, NoticeKept
<1>2. MaxWait \in Nat /\ Waits = 0 .. MaxWait + 1 /\ Never = MaxWait + 1
  BY DEF EdgeAssumption, Waits, Never
<1>3. \A a \in Waits : Less(a) \in Waits
  BY <1>2 DEF Less
<1>4. \A a \in Waits, w \in 0 .. MaxWait : Sooner(a, w) \in Waits /\ Later(a, w) \in Waits
  BY <1>2 DEF Sooner, Later
<1>5. 0 \in Waits /\ Never \in Waits
  BY <1>2
<1>6. CASE AskNext
  <2>1. AskWaits'
    BY <1>5, <1>6 DEF AskNext, AsksInv, AskWaits
  <2>2. nextAsked' = TRUE /\ risen' = risen
    BY <1>6 DEF AskNext
  <2>3. SoonestKept' /\ AskFlags'
    BY <2>2, Zenon DEF AsksInv, SoonestKept, AskFlags
  <2> QED BY <1>1, <2>1, <2>3 DEF AsksInv
<1>7. ASSUME NEW w \in 0 .. MaxWait, WakeAt(w) PROVE AsksInv'
  BY <1>4, <1>7 DEF WakeAt, AsksInv, AskFlags, AskWaits, SoonestKept
<1>8. ASSUME NEW w \in 0 .. MaxWait, ExtendTo(w) PROVE AsksInv'
  BY <1>4, <1>8 DEF ExtendTo, AsksInv, AskFlags, AskWaits, SoonestKept
<1>9. CASE Fall
  <2>1. answer' \in Waits
    BY <1>5, <1>9 DEF Fall, Answered, AsksInv, AskWaits
  <2>2. AskWaits'
    BY <2>1, <1>5, <1>9 DEF Fall, AsksInv, AskWaits
  <2>3. nextAsked' = FALSE /\ risen' = FALSE /\ wakeIn' = soonest'
    BY <1>9 DEF Fall
  <2>4. SoonestKept' /\ AskFlags'
    BY <2>3, Zenon DEF SoonestKept, AskFlags
  <2> QED BY <1>1, <2>2, <2>4 DEF AsksInv
<1>10. CASE Pass
  <2>1. AskWaits'
    BY <1>3, <1>10 DEF Pass, AsksInv, AskWaits
  <2>2. AskFlags'
    BY <1>10 DEF Pass, AsksInv, AskFlags
  <2>3. SoonestKept'
    BY <1>10, Zenon DEF Pass, AsksInv, SoonestKept
  <2> QED BY <1>1, <2>1, <2>2, <2>3 DEF AsksInv
<1> QED BY <1>1, <1>6, <1>7, <1>8, <1>9, <1>10

LEMMA EdgeStarts == EdgeAssumption /\ EdgeInit => EdgeInv
<1> SUFFICES ASSUME EdgeAssumption, EdgeInit PROVE EdgeInv
  OBVIOUS
<1>1. MaxWait \in Nat /\ Waits = 0 .. MaxWait + 1 /\ Never = MaxWait + 1
  BY DEF EdgeAssumption, Waits, Never
<1>2. AsksInv
  <2>1. AskWaits
    BY <1>1 DEF EdgeInit, AskWaits
  <2>2. AskFlags /\ SoonestKept
    BY Zenon DEF EdgeInit, AskFlags, SoonestKept
  <2> QED BY <2>1, <2>2 DEF AsksInv
<1>3. States /\ Conts /\ Notices /\ NoticeKept /\ Noted(state, waker) /\ Alone(state)
  BY DEF EdgeInit, States, Conts, Notices, NoticeKept, Noted, Alone, FrameStates
<1>4. Lists /\ ParkedOnce(state, parked)
  <2>1. \A i \in 1 .. Len(<<>>) : FALSE
    OBVIOUS
  <2>2. <<>> \in Seq(Frames) /\ Len(<<>>) <= ParkRoom
    BY DEF EdgeAssumption
  <2>3. \A f \in Frames : state[f] # "parked"
    BY DEF EdgeInit
  <2> QED BY <2>1, <2>2, <2>3 DEF EdgeInit, Lists, ParkedOnce
<1>5. Chained(state, cont)
  BY DEF EdgeInit, Chained
<1>6. TasksFit(state)
  <2>1. LastOf(state) = {}
    BY DEF EdgeInit, LastOf
  <2> QED BY <2>1, FS_EmptySet DEF TasksFit, EdgeAssumption
<1> QED BY <1>2, <1>3, <1>4, <1>5, <1>6 DEF EdgeInv, TasksInv

LEMMA EdgeKeeps == EdgeAssumption /\ EdgeInv /\ [EdgeNext]_edgeVars => EdgeInv'
<1> SUFFICES ASSUME EdgeAssumption, EdgeInv, [EdgeNext]_edgeVars PROVE EdgeInv'
  OBVIOUS
<1>0. TasksInv /\ AsksInv
  BY DEF EdgeInv
<1>1. ASSUME UNCHANGED askVars PROVE AsksInv'
  BY <1>0, <1>1 DEF askVars, AsksInv, AskFlags, AskWaits, SoonestKept
<1>2. ASSUME NEW f \in Frames,
             \/ Spawn(f) \/ Resume(f) \/ ResumeNoticed(f) \/ Finish(f)
             \/ Park(f) \/ YieldIfSpent(f) \/ WaitNotice(f)
             \/ \E g \in Frames : Await(f, g)
      PROVE  EdgeInv'
  <2>1. UNCHANGED askVars
    BY <1>2 DEF Spawn, Resume, ResumeNoticed, Finish, Park, YieldIfSpent, WaitNotice, Await
  <2>2. CASE Spawn(f)
    BY <2>2, <1>0, SpawnKeeps, <2>1, <1>1 DEF EdgeInv
  <2>3. CASE Resume(f)
    BY <2>3, <1>0, ResumeKeeps, <2>1, <1>1 DEF EdgeInv
  <2>4. CASE ResumeNoticed(f)
    BY <2>4, <1>0, ResumeNoticedKeeps, <2>1, <1>1 DEF EdgeInv
  <2>5. CASE Finish(f)
    BY <2>5, <1>0, FinishKeeps, <2>1, <1>1 DEF EdgeInv
  <2>6. CASE Park(f) \/ YieldIfSpent(f)
    BY <2>6, <1>0, ParkKeeps, <2>1, <1>1 DEF EdgeInv, YieldIfSpent
  <2>7. CASE WaitNotice(f)
    BY <2>7, <1>0, WaitKeeps, <2>1, <1>1 DEF EdgeInv
  <2>8. CASE \E g \in Frames : Await(f, g)
    BY <2>8, <1>0, AwaitKeeps, <2>1, <1>1 DEF EdgeInv
  <2> QED BY <1>2, <2>2, <2>3, <2>4, <2>5, <2>6, <2>7, <2>8
<1>3. ASSUME NEW w \in 0 .. MaxWait, Rise(w) PROVE EdgeInv'
  <2>1. TasksInv'
    BY <1>0, <1>3, RiseKeeps
  <2>2. w \in Waits /\ Never \in Waits
    BY DEF EdgeAssumption, Waits, Never
  <2>3. AsksInv'
    BY <1>0, <1>3, <2>2 DEF Rise, AsksInv, AskFlags, AskWaits, SoonestKept
  <2> QED BY <2>1, <2>3 DEF EdgeInv
<1>4. CASE \/ AskNext
           \/ \E w \in 0 .. MaxWait : WakeAt(w) \/ ExtendTo(w)
           \/ Fall
           \/ Pass
  <2>1. UNCHANGED taskVars
    BY <1>4 DEF AskNext, WakeAt, ExtendTo, Fall, Pass
  <2> QED BY <1>0, <1>4, <2>1, AskKeeps DEF EdgeInv
<1>5. CASE GiveNotice
  <2>1. UNCHANGED askVars
    BY <1>5 DEF GiveNotice
  <2> QED BY <1>0, <1>5, <2>1, <1>1, GiveKeeps DEF EdgeInv
<1>6. CASE UNCHANGED edgeVars
  <2>1. UNCHANGED askVars /\ UNCHANGED taskVars
    BY <1>6 DEF edgeVars, askVars, taskVars
  <2>2. TasksInv'
    BY <1>0, <2>1 DEF taskVars, TasksInv, States, Conts, Lists, Notices, TasksFit, Noted, NoticeKept
  <2> QED BY <2>1, <2>2, <1>1 DEF EdgeInv
<1> QED BY <1>2, <1>3, <1>4, <1>5, <1>6 DEF EdgeNext
-----------------------------------------------------------------------------
LEMMA OneHolds == EdgeAssumption /\ EdgeInv => HeldOnce
<1> SUFFICES ASSUME EdgeAssumption, EdgeInv PROVE HeldOnce
  OBVIOUS
<1>0. TasksInv
  BY DEF EdgeInv
<1>1. Cardinality(Running) <= 1
  <2>1. CASE Running = {}
    BY <2>1, FS_EmptySet
  <2>2. CASE Running # {}
    <3>1. PICK f \in Frames : state[f] = "runs"
      BY <2>2 DEF Running, In
    <3>2. Running = {f}
      BY <3>1, <1>0 DEF Running, In, TasksInv, Alone
    <3> QED BY <3>2, FS_Singleton
  <2> QED BY <2>1, <2>2
<1>2. ASSUME NEW f \in Frames
      PROVE  Cardinality({i \in DOMAIN parked : parked[i] = f}) = IF state[f] = "parked" THEN 1 ELSE 0
  <2>0. DOMAIN parked = 1 .. Len(parked)
    BY <1>0 DEF TasksInv, Lists
  <2>1. CASE state[f] = "parked"
    <3>1. PICK i \in 1 .. Len(parked) : parked[i] = f
      BY <2>1, <1>0 DEF TasksInv, ParkedOnce
    <3>2. {j \in DOMAIN parked : parked[j] = f} = {i}
      BY <2>0, <3>1, <1>0 DEF TasksInv, ParkedOnce
    <3> QED BY <3>2, <2>1, FS_Singleton
  <2>2. CASE state[f] # "parked"
    <3>1. {j \in DOMAIN parked : parked[j] = f} = {}
      BY <2>0, <2>2, <1>0 DEF TasksInv, ParkedOnce
    <3> QED BY <3>1, <2>2, FS_EmptySet
  <2> QED BY <2>1, <2>2
<1>3. ASSUME NEW f \in Frames
      PROVE  Cardinality(Awaiters(f)) = IF state[f] = "awaits" THEN 1 ELSE 0
  <2>0. f # NoAwaiter
    BY DEF EdgeAssumption
  <2>1. CASE state[f] = "awaits"
    <3>1. PICK g \in Frames : cont[g] = f
      BY <2>1, <1>0 DEF TasksInv, Chained
    <3>2. state[g] # "none"
      BY <2>0, <3>1, <1>0 DEF TasksInv, Chained
    <3>3. \A h \in Frames : cont[h] = f => h = g
      BY <2>0, <3>1, <1>0 DEF TasksInv, Chained
    <3>4. Awaiters(f) = {g}
      BY <3>1, <3>2, <3>3 DEF Awaiters
    <3> QED BY <3>4, <2>1, FS_Singleton
  <2>2. CASE state[f] # "awaits"
    <3>1. Awaiters(f) = {}
      BY <2>0, <2>2, <1>0 DEF Awaiters, TasksInv, Chained
    <3> QED BY <3>1, <2>2, FS_EmptySet
  <2> QED BY <2>1, <2>2
<1>4. ASSUME NEW f \in Frames PROVE waker = f => state[f] = "waits"
  BY <1>0 DEF TasksInv, Noted, EdgeAssumption
<1> QED BY <1>1, <1>2, <1>3, <1>4 DEF HeldOnce

LEMMA RoomStands == EdgeAssumption /\ EdgeInv => ParkFits
<1> SUFFICES ASSUME EdgeAssumption, EdgeInv, Running # {} PROVE Len(parked) < ParkRoom
  BY DEF ParkFits
<1>0. TasksInv /\ Len(parked) \in Nat /\ ParkRoom \in Nat
  BY DEF EdgeInv, TasksInv, Lists, EdgeAssumption
<1>1. PICK f \in Frames : state[f] = "runs"
  BY DEF Running, In
<1>2. IsFiniteSet(LastOf(state)) /\ Cardinality(LastOf(state)) \in Nat
  BY <1>0, TasksAreLast DEF TasksInv
<1>3. f \in LastOf(state)
  BY <1>1 DEF LastOf
<1>4. /\ IsFiniteSet(LastOf(state) \ {f})
      /\ Cardinality(LastOf(state) \ {f}) = Cardinality(LastOf(state)) - 1
  BY <1>2, <1>3, FS_RemoveElement
<1>5. \A i \in 1 .. Len(parked) : parked[i] \in LastOf(state) \ {f}
  BY <1>0, <1>1 DEF TasksInv, ParkedOnce, Lists, LastOf
<1>6. Len(parked) <= Cardinality(LastOf(state) \ {f})
  <2> DEFINE put == [i \in 1 .. Len(parked) |-> parked[i]]
  <2>1. put \in Injection(1 .. Len(parked), LastOf(state) \ {f})
    <3>1. put \in [1 .. Len(parked) -> LastOf(state) \ {f}]
      BY <1>5
    <3>2. \A i, j \in 1 .. Len(parked) : put[i] = put[j] => i = j
      BY <1>0 DEF TasksInv, ParkedOnce
    <3> QED BY <3>1, <3>2 DEF Injection, IsInjective
  <2>2. Cardinality(1 .. Len(parked)) = Len(parked) /\ IsFiniteSet(1 .. Len(parked))
    <3>1. PICK n \in Nat : n = Len(parked)
      BY <1>0
    <3>2. Cardinality(1 .. n) = n /\ IsFiniteSet(1 .. n)
      BY FS_Interval
    <3> QED BY <3>1, <3>2
  <2> QED BY <2>1, <2>2, <1>4, FS_Injection
<1> QED BY <1>0, <1>2, <1>4, <1>6 DEF TasksInv, TasksFit

LEMMA FallAsks ==
  ASSUME EdgeAssumption, EdgeInv, [EdgeNext]_edgeVars, risen, ~ risen'
  PROVE  /\ answer' <= soonest
         /\ parked # <<>> => answer' = 0
         /\ parked = <<>> /\ ~ nextAsked => answer' = wakeIn
<1>1. Fall
  BY DEF EdgeNext, edgeVars, askVars, Spawn, Rise, Resume, ResumeNoticed, Finish, Park,
         YieldIfSpent, WaitNotice, Await, WakeAt, ExtendTo, GiveNotice, AskNext, Pass
<1>2. answer' = IF nextAsked \/ parked # <<>> THEN 0 ELSE wakeIn
  BY <1>1 DEF Fall, Answered
<1>3. soonest \in Nat /\ (nextAsked = FALSE => wakeIn = soonest) /\ nextAsked \in BOOLEAN
  BY DEF EdgeInv, AsksInv, AskFlags, AskWaits, SoonestKept, Waits, Never, EdgeAssumption
<1> QED BY <1>2, <1>3

(***************************************************************************)
(* A suspended frame is resumed by exactly one, the edge, the notice or    *)
(* what awaits it; parking never finds the edge's list full, where the     *)
(* program keeps no more tasks than it has room for; a notice given before *)
(* its wait is kept; and a falling edge asks for the soonest turn anything *)
(* asked for (guest sched/edge.hpp, sched/task.hpp).                       *)
(***************************************************************************)
THEOREM WakesTaskOnce == EdgeAssumption => (EdgeSpec => WakesOnce)
<1> SUFFICES ASSUME EdgeAssumption PROVE EdgeSpec => WakesOnce
  OBVIOUS
<1>1. EdgeInv => EdgeTypeOK /\ HeldOnce /\ ParkFits /\ NoticeKept
  <2>1. EdgeInv => EdgeTypeOK
    BY DEF EdgeInv, TasksInv, AsksInv, AskFlags, AskWaits, States, Conts, Lists, Notices, EdgeTypeOK
  <2>2. EdgeInv => NoticeKept
    BY DEF EdgeInv, TasksInv
  <2> QED BY <2>1, <2>2, OneHolds, RoomStands
<1>2. EdgeInv /\ [EdgeNext]_edgeVars =>
        [risen /\ ~ risen' =>
           /\ answer' <= soonest
           /\ parked # <<>> => answer' = 0
           /\ parked = <<>> /\ ~ nextAsked => answer' = wakeIn]_edgeVars
  BY FallAsks
<1>3. (EdgeInit => EdgeInv) /\ (EdgeInv /\ [EdgeNext]_edgeVars => EdgeInv')
  BY EdgeStarts, EdgeKeeps
<1> QED BY <1>1, <1>2, <1>3, PTL DEF EdgeSpec, WakesOnce, FallAsksSoonest
-----------------------------------------------------------------------------
(***************************************************************************)
(* The tick's inductive invariant.  The steps the walk has passed and      *)
(* those it has not come to are sets here, since removals move the index   *)
(* but take nothing across it.                                             *)
(***************************************************************************)
Passed(reg, n)  == {reg[i] : i \in 1 .. n}
ToCome(reg, n)  == {reg[i] : i \in n + 1 .. Len(reg)}
Distinct(reg)   == \A i, j \in 1 .. Len(reg) : reg[i].id = reg[j].id => i = j
InStep          == pc \in {"step", "pass", "after"}

IdsKept ==
  /\ Distinct(registry)
  /\ \A i \in 1 .. Len(registry) : registry[i].id < nextId /\ registry[i].id \notin takenOff
  /\ \A id \in takenOff : id < nextId
  /\ \A k \in 1 .. Len(offs) : offs[k] < nextId
  /\ pc \in {"idle", "walk"} => offs = <<>>

WalkKept ==
  /\ pc = "idle" => at = 0 /\ phaseAt = 0 /\ \A id \in Ids : runsOf[id] = 0
  /\ \A id \in Ids : runsOf[id] <= 1 /\ (id >= nextId => runsOf[id] = 0)
  /\ \A r \in Passed(registry, at) :
       /\ r.phase = phaseAt => runsOf[r.id] = 1
       /\ r.phase > phaseAt => runsOf[r.id] = 0
  /\ \A r \in ToCome(registry, at) : r.phase >= phaseAt => runsOf[r.id] = 0
  /\ InStep => at >= 1 /\ registry[at].phase = phaseAt

\* How far the first phase's steps may have run.
Cost  == Slack + MaxCost
Share == Latest(began[0], Quota - HeldBack[0])
Reach == Share + Overrun

FirstPhase ==
  /\ pc = "walk" => spent <= Reach
  /\ pc = "step" => Share + Cost <= Reach /\ spent + Cost <= Reach
  /\ pc = "pass" => pass.deadline + Cost <= Reach
                    /\ spent <= IF pass.visited = 0 THEN pass.deadline ELSE pass.deadline + Cost
  /\ pc = "after" => spent <= Reach

ShareKept ==
  takenOff = {} /\ pc # "idle" =>
    /\ phaseAt = 0 => FirstPhase
    /\ phaseAt = 1 => began[1] <= Reach

TickInv == TickTypeOK /\ IdsKept /\ WalkKept /\ ShareKept /\ RowsApart

LEMMA Ticks ==
  ASSUME TickAssumption
  PROVE  /\ Steps \in Nat /\ MaxIds \in Nat /\ LastPhase \in Nat /\ Quota \in Nat /\ Slack \in Nat
         /\ MaxCost \in Nat /\ Cost \in Nat /\ LongMs \in Nat /\ Ids = 1 .. MaxIds
         /\ Phases = 0 .. LastPhase /\ 0 \in Phases /\ HeldBack \in [Phases -> Nat]
         /\ IsFiniteSet(Ids)
<1>1. /\ Steps \in Nat /\ MaxIds \in Nat /\ LastPhase \in Nat /\ Quota \in Nat /\ Slack \in Nat
      /\ MaxCost \in Nat /\ HeldBack \in [0 .. LastPhase -> Nat]
  BY DEF TickAssumption
<1>2. Cost \in Nat /\ LongMs \in Nat
  <2>1. PICK c \in Nat : c = Slack + MaxCost
    BY <1>1
  <2>2. c * MaxIds \in Nat
    BY <1>1, <2>1
  <2> QED BY <1>1, <2>1, <2>2 DEF Cost, LongMs
<1>3. IsFiniteSet(1 .. MaxIds)
  BY <1>1, FS_Interval
<1> QED BY <1>1, <1>2, <1>3 DEF Ids, Phases

LEMMA Reaches ==
  ASSUME TickAssumption, TickTypeOK
  PROVE  Cost \in Nat /\ Share \in Nat /\ Overrun \in Nat /\ Reach \in Nat /\ Reach >= Share
         /\ began[0] <= Share /\ Quota - HeldBack[0] <= Share
         /\ IsFiniteSet(StepsRun(0)) /\ Overrun = Cardinality(StepsRun(0)) * Cost
<1>1. IsFiniteSet(StepsRun(0))
  <2>1. StepsRun(0) \subseteq Ids
    BY DEF StepsRun
  <2> QED BY <2>1, Ticks, FS_Subset
<1>2. PICK n \in Nat : n = Cardinality(StepsRun(0))
  BY <1>1, FS_CardinalityType
<1>3. Cost \in Nat
  BY Ticks
<1>4. n * Cost \in Nat
  BY <1>2, <1>3
<1>5. Overrun = n * Cost
  BY <1>2 DEF Overrun, Cost
<1>6. began[0] \in Nat /\ Quota \in Nat /\ HeldBack[0] \in Nat
  <2>1. began \in [Phases -> 0 .. LongMs]
    BY DEF TickTypeOK
  <2>2. /\ LongMs \in Nat /\ 0 \in Phases /\ Quota \in Nat
        /\ HeldBack \in [Phases -> Nat]
    BY Ticks
  <2>3. began[0] \in 0 .. LongMs
    BY <2>1, <2>2
  <2> QED BY <2>2, <2>3
<1>7. Share \in Nat /\ began[0] <= Share /\ Quota - HeldBack[0] <= Share
  BY <1>6 DEF Share, Latest
<1>8. PICK o \in Nat : o = Overrun
  BY <1>4, <1>5
<1>9. Reach \in Nat /\ Reach >= Share
  BY <1>7, <1>8 DEF Reach
<1> QED BY <1>1, <1>2, <1>3, <1>4, <1>5, <1>7, <1>9

LEMMA ReachSame ==
  ASSUME UNCHANGED <<registry, runsOf, began>>
  PROVE  Share' = Share /\ Reach' = Reach
BY DEF Share, Reach, Overrun, StepsRun

-----------------------------------------------------------------------------
(* Removals. *)

Walking(w) == w.reg \in Seq(Registered) /\ w.at \in 0 .. Len(w.reg) /\ Distinct(w.reg)

\* v is w with some steps taken off.
Fewer(v, w) ==
  /\ Walking(v)
  /\ Len(v.reg) <= Len(w.reg)
  /\ Passed(v.reg, v.at) \subseteq Passed(w.reg, w.at)
  /\ ToCome(v.reg, v.at) \subseteq ToCome(w.reg, w.at)

Lacks(w, id) == \A i \in 1 .. Len(w.reg) : w.reg[i].id # id

LEMMA IndexFinds ==
  ASSUME NEW reg \in Seq(Registered), Distinct(reg), NEW id
  PROVE  /\ IndexOf(reg, id) \in 0 .. Len(reg)
         /\ IndexOf(reg, id) # 0 => reg[IndexOf(reg, id)].id = id
         /\ IndexOf(reg, id) = 0 => \A i \in 1 .. Len(reg) : reg[i].id # id
<1>1. Len(reg) \in Nat
  OBVIOUS
<1>2. CASE \A i \in 1 .. Len(reg) : reg[i].id # id
  <2>1. {i \in 1 .. Len(reg) : reg[i].id = id} = {}
    BY <1>2
  <2> QED BY <1>1, <1>2, <2>1 DEF IndexOf
<1>3. CASE \E i \in 1 .. Len(reg) : reg[i].id = id
  <2>1. PICK k \in 1 .. Len(reg) : reg[k].id = id
    BY <1>3
  <2>2. {i \in 1 .. Len(reg) : reg[i].id = id} = {k}
    BY <2>1 DEF Distinct
  <2>3. k <= k /\ k \in Nat /\ k # 0
    BY <1>1, <2>1
  <2>4. (CHOOSE i \in {k} : \A j \in {k} : i <= j) = k
    BY <2>3
  <2>5. IndexOf(reg, id) = k
    BY <2>2, <2>4 DEF IndexOf
  <2> QED BY <1>1, <2>1, <2>3, <2>5
<1> QED BY <1>2, <1>3

LEMMA TakingOffKeeps ==
  ASSUME NEW w, Walking(w), NEW id
  PROVE  Fewer(TakingOff(w, id), w) /\ Lacks(TakingOff(w, id), id)
<1>1. PICK reg, at0 : reg = w.reg /\ at0 = w.at
  OBVIOUS
<1>2. reg \in Seq(Registered) /\ Len(reg) \in Nat /\ at0 \in 0 .. Len(reg) /\ Distinct(reg)
      /\ \A i \in 1 .. Len(reg) : reg[i] \in Registered
  BY <1>1 DEF Walking
<1>3. PICK k : k = IndexOf(reg, id)
  OBVIOUS
<1>4. k \in 0 .. Len(reg) /\ (k # 0 => reg[k].id = id)
      /\ (k = 0 => \A i \in 1 .. Len(reg) : reg[i].id # id)
  BY <1>2, <1>3, IndexFinds
<1>5. PICK v : v = TakingOff(w, id)
  OBVIOUS
<1>6. /\ v.reg = IF k = 0 THEN reg ELSE [i \in 1 .. Len(reg) - 1 |-> IF i < k THEN reg[i] ELSE reg[i + 1]]
      /\ v.at = IF k \in 1 .. at0 THEN at0 - 1 ELSE at0
  BY <1>1, <1>3, <1>5 DEF TakingOff, Unregistering
<1>7. CASE k = 0
  <2>1. v.reg = reg /\ v.at = at0
    BY <1>6, <1>7
  <2>2. Len(reg) <= Len(reg)
    BY <1>2
  <2>3. Fewer(v, w)
    BY <1>1, <1>2, <2>1, <2>2 DEF Fewer, Walking
  <2>4. Lacks(v, id)
    BY <1>4, <1>7, <2>1 DEF Lacks
  <2> QED BY <1>5, <2>3, <2>4
<1>8. CASE k # 0
  <2>1. PICK less, n : less = v.reg /\ n = v.at
    OBVIOUS
  <2>2. k \in 1 .. Len(reg) /\ Len(reg) - 1 \in Nat
    BY <1>2, <1>4, <1>8
  <2>3. less = [i \in 1 .. Len(reg) - 1 |-> IF i < k THEN reg[i] ELSE reg[i + 1]]
    BY <1>6, <1>8, <2>1
  <2>4. \A i \in 1 .. Len(reg) - 1 : /\ i < k => less[i] = reg[i]
                                     /\ ~ i < k => less[i] = reg[i + 1]
                                     /\ less[i] \in Registered
    <3>1. \A i \in 1 .. Len(reg) - 1 : i \in 1 .. Len(reg) /\ i + 1 \in 1 .. Len(reg)
      BY <1>2
    <3> QED BY <1>2, <2>2, <2>3, <3>1
  <2>5. less \in Seq(Registered) /\ Len(less) = Len(reg) - 1
    <3>1. less \in [1 .. Len(reg) - 1 -> Registered]
      BY <2>3, <2>4
    <3> QED BY <2>2, <3>1
  <2>6. /\ n = IF k <= at0 THEN at0 - 1 ELSE at0
        /\ n \in 0 .. Len(less)
    BY <1>2, <1>6, <2>1, <2>2, <2>5
  <2>7. Distinct(less) /\ \A i \in 1 .. Len(less) : less[i].id # id
    <3>1. ASSUME NEW i \in 1 .. Len(less), NEW j \in 1 .. Len(less), less[i].id = less[j].id PROVE i = j
      <4>1. i \in 1 .. Len(reg) - 1 /\ j \in 1 .. Len(reg) - 1 /\ i \in 1 .. Len(reg) /\ j \in 1 .. Len(reg)
            /\ i + 1 \in 1 .. Len(reg) /\ j + 1 \in 1 .. Len(reg)
        BY <2>2, <2>5
      <4>2. CASE i < k /\ j < k
        BY <1>2, <2>4, <3>1, <4>1, <4>2 DEF Distinct
      <4>3. CASE i < k /\ ~ j < k
        <5>1. less[i] = reg[i] /\ less[j] = reg[j + 1]
          BY <2>2, <2>4, <4>1, <4>3
        <5>2. i = j + 1
          BY <1>2, <3>1, <4>1, <5>1 DEF Distinct
        <5> QED BY <2>2, <4>1, <4>3, <5>2
      <4>4. CASE ~ i < k /\ j < k
        <5>1. less[j] = reg[j] /\ less[i] = reg[i + 1]
          BY <2>2, <2>4, <4>1, <4>4
        <5>2. i + 1 = j
          BY <1>2, <3>1, <4>1, <5>1 DEF Distinct
        <5> QED BY <2>2, <4>1, <4>4, <5>2
      <4>5. CASE ~ i < k /\ ~ j < k
        <5>1. less[j] = reg[j + 1] /\ less[i] = reg[i + 1]
          BY <2>2, <2>4, <4>1, <4>5
        <5>2. i + 1 = j + 1
          BY <1>2, <3>1, <4>1, <5>1 DEF Distinct
        <5> QED BY <4>1, <5>2
      <4> QED BY <4>2, <4>3, <4>4, <4>5
    <3>2. ASSUME NEW i \in 1 .. Len(less), less[i].id = id PROVE FALSE
      <4>1. i \in 1 .. Len(reg) - 1 /\ i \in 1 .. Len(reg) /\ i + 1 \in 1 .. Len(reg) /\ reg[k].id = id
        BY <1>4, <1>8, <2>2, <2>5
      <4>2. CASE i < k
        <5>1. i = k
          BY <1>2, <2>2, <2>4, <3>2, <4>1, <4>2 DEF Distinct
        <5> QED BY <2>2, <4>1, <4>2, <5>1
      <4>3. CASE ~ i < k
        <5>1. less[i] = reg[i + 1]
          BY <2>4, <4>1, <4>3
        <5>2. i + 1 = k
          BY <1>2, <2>2, <3>2, <4>1, <5>1 DEF Distinct
        <5> QED BY <2>2, <4>1, <4>3, <5>2
      <4> QED BY <4>2, <4>3
    <3> QED BY <3>1, <3>2 DEF Distinct
  <2>8. ASSUME NEW i \in 1 .. n PROVE less[i] \in Passed(reg, at0)
    <3>1. i \in 1 .. Len(reg) - 1
      BY <2>5, <2>6
    <3>2. CASE i < k
      <4>1. i \in 1 .. at0
        BY <1>2, <2>6, <3>1
      <4> QED BY <2>4, <3>1, <3>2, <4>1 DEF Passed
    <3>3. CASE ~ i < k
      <4>1. i + 1 \in 1 .. at0 /\ less[i] = reg[i + 1]
        BY <1>2, <2>2, <2>4, <2>6, <3>1, <3>3
      <4> QED BY <4>1 DEF Passed
    <3> QED BY <3>2, <3>3
  <2>9. ASSUME NEW i \in n + 1 .. Len(less) PROVE less[i] \in ToCome(reg, at0)
    <3>1. i \in 1 .. Len(reg) - 1
      BY <1>2, <2>5, <2>6
    <3>2. CASE i < k
      <4>1. i \in at0 + 1 .. Len(reg)
        BY <1>2, <2>2, <2>5, <2>6, <3>2
      <4> QED BY <2>4, <3>1, <3>2, <4>1 DEF ToCome
    <3>3. CASE ~ i < k
      <4>1. i + 1 \in at0 + 1 .. Len(reg) /\ less[i] = reg[i + 1]
        BY <1>2, <2>2, <2>4, <2>5, <2>6, <3>1, <3>3
      <4> QED BY <4>1 DEF ToCome
    <3> QED BY <3>2, <3>3
  <2>10. Passed(less, n) \subseteq Passed(reg, at0) /\ ToCome(less, n) \subseteq ToCome(reg, at0)
    <3>1. Passed(less, n) \subseteq Passed(reg, at0)
      BY <2>8 DEF Passed
    <3>2. ToCome(less, n) \subseteq ToCome(reg, at0)
      BY <2>9 DEF ToCome
    <3> QED BY <3>1, <3>2
  <2>11. Len(less) <= Len(reg)
    BY <1>2, <2>5
  <2>12. Fewer(v, w)
    BY <1>1, <2>1, <2>5, <2>6, <2>7, <2>10, <2>11 DEF Fewer, Walking
  <2>13. Lacks(v, id)
    BY <2>1, <2>7 DEF Lacks
  <2> QED BY <1>5, <2>12, <2>13
<1> QED BY <1>7, <1>8

\* The removals a step asked for, all of them.
Takings(w, ids, f) ==
  f = [k \in 0 .. Len(ids) |-> IF k = 0 THEN w ELSE TakingOff(f[k - 1], ids[k])]

LEMMA RemovedTakes ==
  ASSUME NEW f, Takings([reg |-> registry, at |-> at], offs, f)
  PROVE  \E g : Takings([reg |-> registry, at |-> at], offs, g) /\ Removed = g[Len(offs)]
BY DEF Takings, Removed

FewerFrom(v, w, ids, n) == Fewer(v, w) /\ \A k \in 1 .. n : Lacks(v, ids[k])

LEMMA WithoutStill ==
  ASSUME NEW v, NEW w, Walking(w), Fewer(v, w), NEW id, Lacks(w, id)
  PROVE  Lacks(v, id)
<1>1. ASSUME NEW i \in 1 .. Len(v.reg) PROVE v.reg[i].id # id
  <2>1. v.at \in 0 .. Len(v.reg) /\ Len(v.reg) \in Nat /\ w.at \in 0 .. Len(w.reg) /\ Len(w.reg) \in Nat
    BY DEF Fewer, Walking
  <2>2. v.reg[i] \in Passed(v.reg, v.at) \cup ToCome(v.reg, v.at)
    <3>1. i \in 1 .. v.at \/ i \in v.at + 1 .. Len(v.reg)
      BY <2>1
    <3> QED BY <3>1 DEF Passed, ToCome
  <2>3. v.reg[i] \in Passed(w.reg, w.at) \cup ToCome(w.reg, w.at)
    BY <2>2 DEF Fewer
  <2>4. PICK j \in 1 .. Len(w.reg) : v.reg[i] = w.reg[j]
    <3>1. 1 .. w.at \subseteq 1 .. Len(w.reg) /\ w.at + 1 .. Len(w.reg) \subseteq 1 .. Len(w.reg)
      BY <2>1
    <3> QED BY <2>3, <3>1 DEF Passed, ToCome
  <2> QED BY <2>4 DEF Lacks
<1> QED BY <1>1 DEF Lacks

LEMMA FewerAgain ==
  ASSUME NEW u, NEW v, NEW w, Fewer(u, v), Fewer(v, w), Walking(w)
  PROVE  Fewer(u, w)
<1>1. Len(u.reg) \in Nat /\ Len(v.reg) \in Nat /\ Len(w.reg) \in Nat
  BY DEF Fewer, Walking
<1> QED BY <1>1 DEF Fewer

LEMMA RemovedKeeps ==
  ASSUME NEW w, w = [reg |-> registry, at |-> at], Walking(w), offs \in Seq(Ids)
  PROVE  FewerFrom(Removed, w, offs, Len(offs)) /\ (offs = <<>> => Removed = w)
<1>0. Len(offs) \in Nat
  OBVIOUS
<1> DEFINE W == {v \in [reg : Seq(Registered), at : Nat] : Walking(v)}
           step == [k \in 1 .. Len(offs) |-> [v \in W |-> TakingOff(v, offs[k])]]
<1>1. w \in W
  BY DEF Walking
<1>2. ASSUME NEW v \in W, NEW id PROVE TakingOff(v, id) \in W
  <2>1. Walking(TakingOff(v, id))
    BY TakingOffKeeps DEF Fewer
  <2>2. PICK u : u = TakingOff(v, id)
    OBVIOUS
  <2>3. u = [reg |-> u.reg, at |-> u.at]
    BY <2>2 DEF TakingOff
  <2>4. u.reg \in Seq(Registered) /\ u.at \in Nat
    BY <2>1, <2>2 DEF Walking
  <2>5. u \in [reg : Seq(Registered), at : Nat]
    BY <2>3, <2>4
  <2> QED BY <2>1, <2>2, <2>5
<1>3. StepsOn(step, Len(offs), W)
  BY <1>2 DEF StepsOn
<1> HIDE DEF W
<1>4. PICK f : Follows(f, Len(offs), W, w, step)
  <2> HIDE DEF step
  <2> QED BY <1>0, <1>1, <1>3, Recursion
<1>5. Takings(w, offs, f)
  <2>1. /\ f \in [0 .. Len(offs) -> W] /\ f[0] = w
        /\ \A k \in 1 .. Len(offs) : f[k] = step[k][f[k - 1]]
    BY <1>4 DEF Follows
  <2>2. \A k \in 1 .. Len(offs) : f[k] = TakingOff(f[k - 1], offs[k])
    <3>1. \A k \in 1 .. Len(offs) : f[k - 1] \in W
      BY <1>0, <2>1
    <3> QED BY <2>1, <3>1
  <2>3. \A k \in 0 .. Len(offs) : f[k] = IF k = 0 THEN w ELSE TakingOff(f[k - 1], offs[k])
    <3>1. \A k \in 0 .. Len(offs) : k = 0 \/ k \in 1 .. Len(offs)
      BY <1>0
    <3> QED BY <2>1, <2>2, <3>1
  <2>4. f = [k \in 0 .. Len(offs) |-> f[k]]
    BY <2>1
  <2> QED BY <2>3, <2>4 DEF Takings
<1>6. PICK g : Takings(w, offs, g) /\ Removed = g[Len(offs)]
  BY <1>5, RemovedTakes
<1>7. \A k \in 0 .. Len(offs) : g[k] = IF k = 0 THEN w ELSE TakingOff(g[k - 1], offs[k])
  BY <1>6 DEF Takings
<1>8. g[0] = w
  BY <1>0, <1>7
<1> DEFINE P == {k \in 0 .. Len(offs) : FewerFrom(g[k], w, offs, k)}
<1>9. 0 \in P
  <2>1. Len(w.reg) \in Nat
    BY DEF Walking
  <2>2. Fewer(w, w)
    BY <2>1 DEF Fewer
  <2> QED BY <1>0, <1>8, <2>2 DEF FewerFrom
<1>10. \A k \in 1 .. Len(offs) : k - 1 \in P => k \in P
  <2> SUFFICES ASSUME NEW k \in 1 .. Len(offs), k - 1 \in P PROVE k \in P
    OBVIOUS
  <2>1. PICK u, v : u = g[k - 1] /\ v = g[k]
    OBVIOUS
  <2>2. v = TakingOff(u, offs[k])
    BY <1>0, <1>7, <2>1
  <2>3. Fewer(u, w) /\ \A j \in 1 .. k - 1 : Lacks(u, offs[j])
    BY <2>1 DEF FewerFrom
  <2>4. Walking(u)
    BY <2>3 DEF Fewer
  <2>5. Fewer(v, u) /\ Lacks(v, offs[k])
    BY <2>2, <2>4, TakingOffKeeps
  <2>6. Fewer(v, w)
    BY <2>3, <2>5, FewerAgain
  <2>7. ASSUME NEW j \in 1 .. k PROVE Lacks(v, offs[j])
    <3>1. CASE j = k
      BY <2>5, <3>1
    <3>2. CASE j # k
      <4>1. j \in 1 .. k - 1
        BY <3>2
      <4> QED BY <2>3, <2>4, <2>5, <4>1, WithoutStill
    <3> QED BY <3>1, <3>2
  <2> QED BY <1>0, <2>1, <2>6, <2>7 DEF FewerFrom
<1> HIDE DEF P
<1>11. Len(offs) \in P
  <2>1. 0 .. Len(offs) \subseteq P
    BY <1>0, <1>9, <1>10, UpTo
  <2> QED BY <1>0, <2>1
<1>12. FewerFrom(Removed, w, offs, Len(offs))
  BY <1>6, <1>11 DEF P
<1>13. offs = <<>> => Removed = w
  BY <1>6, <1>8
<1> QED BY <1>12, <1>13

-----------------------------------------------------------------------------
(* One lemma for each action. *)

LEMMA TickStarts == TickAssumption /\ TickInit => TickInv
<1> SUFFICES ASSUME TickAssumption, TickInit PROVE TickInv
  OBVIOUS
<1>1. /\ registry = <<>> /\ nextId = 1 /\ offs = <<>> /\ phaseAt = 0 /\ at = 0 /\ spent = 0
      /\ pass = NoPass /\ pc = "idle" /\ rows = <<>> /\ runsOf = [id \in Ids |-> 0]
      /\ began = [p \in Phases |-> 0] /\ takenOff = {}
  BY DEF TickInit
<1>2. MaxIds \in Nat /\ Steps \in Nat /\ LongMs \in Nat /\ 0 \in Phases
  BY Ticks
<1>3. Len(registry) = 0 /\ Len(offs) = 0 /\ Len(rows) = 0
  BY <1>1
<1>4. Offs \in Nat
  BY DEF TickAssumption
<1>5. pass \in [deadline : Nat, visited : {0, 1}, ran : Nat]
  BY <1>1 DEF NoPass
<1>6. TickTypeOK
  BY <1>1, <1>2, <1>3, <1>4, <1>5 DEF TickTypeOK
<1>7. IdsKept
  BY <1>1, <1>3 DEF IdsKept, Distinct
<1>8. WalkKept
  <2>1. Passed(registry, at) = {} /\ ToCome(registry, at) = {}
    BY <1>1, <1>3 DEF Passed, ToCome
  <2> QED BY <1>1, <2>1 DEF WalkKept, InStep
<1>9. ShareKept /\ RowsApart
  BY <1>1, <1>3 DEF ShareKept, RowsApart
<1> QED BY <1>6, <1>7, <1>8, <1>9 DEF TickInv

\* A step of the walk's that registers, runs and takes off nothing.
LEMMA OnlyTime ==
  ASSUME TickAssumption, TickInv, InStep, pc' \in {"step", "pass", "after"},
         UNCHANGED <<registry, nextId, offs, phaseAt, at, rows, runsOf, began, takenOff>>,
         spent' \in 0 .. LongMs, pass' \in [deadline : Nat, visited : {0, 1}, ran : Nat],
         takenOff = {} /\ phaseAt = 0 => FirstPhase'
  PROVE  TickInv'
<1>1. TickTypeOK'
  BY DEF TickInv, TickTypeOK
<1>2. IdsKept'
  BY DEF TickInv, IdsKept, Distinct, InStep
<1>3. WalkKept'
  BY DEF TickInv, WalkKept, Passed, ToCome, InStep
<1>4. ShareKept'
  <2>1. Reach' = Reach
    BY ReachSame
  <2>2. pc # "idle"
    BY DEF InStep
  <2> QED BY <2>1, <2>2 DEF TickInv, ShareKept
<1>5. RowsApart'
  BY DEF TickInv, RowsApart
<1> QED BY <1>1, <1>2, <1>3, <1>4, <1>5 DEF TickInv

LEMMA BeginPassKeeps == TickAssumption /\ TickInv /\ BeginPass => TickInv'
<1> SUFFICES ASSUME TickAssumption, TickInv, BeginPass PROVE TickInv'
  OBVIOUS
<1>1. /\ pc = "step" /\ pc' = "pass"
      /\ pass' = [deadline |-> spent + Remaining, visited |-> 0, ran |-> 0]
      /\ UNCHANGED <<registry, nextId, offs, phaseAt, at, spent, rows, runsOf, began, takenOff>>
  BY DEF BeginPass
<1>2. TickTypeOK /\ spent \in 0 .. LongMs /\ phaseAt \in Phases
  BY DEF TickInv, TickTypeOK
<1>3. LongMs \in Nat /\ Quota \in Nat /\ HeldBack[phaseAt] \in Nat /\ spent \in Nat
  BY <1>2, Ticks
<1>4. Remaining \in Nat /\ spent + Remaining = IF spent + HeldBack[phaseAt] < Quota THEN Quota - HeldBack[phaseAt] ELSE spent
  BY <1>3 DEF Remaining
<1>5. pass' \in [deadline : Nat, visited : {0, 1}, ran : Nat]
  BY <1>1, <1>3, <1>4
<1>6. takenOff = {} /\ phaseAt = 0 => FirstPhase'
  <2> SUFFICES ASSUME takenOff = {}, phaseAt = 0 PROVE FirstPhase'
    OBVIOUS
  <2>1. Share + Cost <= Reach /\ spent + Cost <= Reach
    BY <1>1 DEF TickInv, ShareKept, FirstPhase
  <2>2. Reach' = Reach
    BY <1>1, ReachSame
  <2>3. Share \in Nat /\ Cost \in Nat /\ Reach \in Nat /\ Quota - HeldBack[0] <= Share
    BY <1>2, Reaches
  <2>4. pass'.deadline = spent + Remaining /\ pass'.visited = 0
    BY <1>1
  <2>5. pass'.deadline + Cost <= Reach
    BY <1>3, <1>4, <2>1, <2>3, <2>4
  <2>6. spent' <= pass'.deadline
    BY <1>1, <1>3, <1>4, <2>4
  <2> QED BY <1>1, <2>2, <2>4, <2>5, <2>6 DEF FirstPhase, Cost
<1> QED BY <1>1, <1>2, <1>5, <1>6, OnlyTime DEF InStep

LEMMA VisitKeeps ==
  ASSUME TickAssumption, TickInv, NEW cost \in 0 .. MaxCost, NEW did \in BOOLEAN, Visit(cost, did)
  PROVE  TickInv'
<1>1. /\ pc = "pass" /\ pc' = "pass" /\ ~ PassStopped /\ spent' = Capped(spent + cost)
      /\ pass' = [pass EXCEPT !.visited = 1, !.ran = IF did THEN @ + 1 ELSE @]
      /\ UNCHANGED <<registry, nextId, offs, phaseAt, at, rows, runsOf, began, takenOff>>
  BY DEF Visit
<1>2. TickTypeOK /\ spent \in 0 .. LongMs /\ pass \in [deadline : Nat, visited : {0, 1}, ran : Nat]
  BY DEF TickInv, TickTypeOK
<1>3. LongMs \in Nat /\ MaxCost \in Nat /\ Slack \in Nat /\ Cost = Slack + MaxCost
  BY Ticks DEF Cost
<1>4. spent' \in 0 .. LongMs /\ spent' <= spent + cost
  BY <1>1, <1>2, <1>3 DEF Capped
<1>5. /\ pass' \in [deadline : Nat, visited : {0, 1}, ran : Nat]
      /\ pass'.deadline = pass.deadline /\ pass'.visited = 1
  <2>1. PICK n \in Nat : n = IF did THEN pass.ran + 1 ELSE pass.ran
    BY <1>2
  <2>2. pass' = [pass EXCEPT !.visited = 1, !.ran = n]
    BY <1>1, <2>1
  <2> QED BY <1>2, <2>1, <2>2
<1>6. takenOff = {} /\ phaseAt = 0 => FirstPhase'
  <2> SUFFICES ASSUME takenOff = {}, phaseAt = 0 PROVE FirstPhase'
    OBVIOUS
  <2>1. /\ pass.deadline + Cost <= Reach
        /\ spent <= IF pass.visited = 0 THEN pass.deadline ELSE pass.deadline + Cost
    BY <1>1 DEF TickInv, ShareKept, FirstPhase
  <2>2. Reach' = Reach
    BY <1>1, ReachSame
  <2>3. pass.visited = 0 \/ spent < pass.deadline + Slack
    BY <1>1, <1>2, <1>3 DEF PassStopped
  <2>4. spent' <= pass.deadline + Cost
    BY <1>2, <1>3, <1>4, <2>1, <2>3
  <2> QED BY <1>1, <1>5, <2>1, <2>2, <2>4 DEF FirstPhase, Cost
<1> QED BY <1>1, <1>4, <1>5, <1>6, OnlyTime DEF InStep

LEMMA EndPassKeeps == TickAssumption /\ TickInv /\ EndPass => TickInv'
<1> SUFFICES ASSUME TickAssumption, TickInv, EndPass PROVE TickInv'
  OBVIOUS
<1>1. /\ pc = "pass" /\ pc' = "after" /\ pass' = NoPass
      /\ UNCHANGED <<registry, nextId, offs, phaseAt, at, spent, rows, runsOf, began, takenOff>>
  BY DEF EndPass
<1>2. TickTypeOK /\ spent \in 0 .. LongMs /\ pass \in [deadline : Nat, visited : {0, 1}, ran : Nat]
  BY DEF TickInv, TickTypeOK
<1>3. pass' \in [deadline : Nat, visited : {0, 1}, ran : Nat]
  BY <1>1 DEF NoPass
<1>4. takenOff = {} /\ phaseAt = 0 => FirstPhase'
  <2> SUFFICES ASSUME takenOff = {}, phaseAt = 0 PROVE FirstPhase'
    OBVIOUS
  <2>1. /\ pass.deadline + Cost <= Reach
        /\ spent <= IF pass.visited = 0 THEN pass.deadline ELSE pass.deadline + Cost
    BY <1>1 DEF TickInv, ShareKept, FirstPhase
  <2>2. Reach' = Reach
    BY <1>1, ReachSame
  <2>3. Cost \in Nat /\ Reach \in Nat /\ spent \in Nat /\ pass.deadline \in Nat
    BY <1>2, Reaches, Ticks
  <2>4. spent <= Reach
    BY <2>1, <2>3
  <2> QED BY <1>1, <2>2, <2>4 DEF FirstPhase
<1> QED BY <1>1, <1>2, <1>3, <1>4, OnlyTime DEF InStep

LEMMA OnTickKeeps ==
  ASSUME TickAssumption, TickInv, NEW p \in Phases, NEW name \in Names, OnTick(p, name)
  PROVE  TickInv'
<1>1. /\ pc \in {"idle", "step"} /\ Len(registry) < Steps /\ nextId <= MaxIds
      /\ registry' = Append(registry, [id |-> nextId, phase |-> p, name |-> name])
      /\ nextId' = nextId + 1
      /\ UNCHANGED <<offs, phaseAt, at, spent, pass, pc, rows, runsOf, began, takenOff>>
  BY DEF OnTick
<1>2. /\ TickTypeOK /\ IdsKept /\ WalkKept /\ ShareKept /\ RowsApart
      /\ registry \in Seq(Registered) /\ Len(registry) \in Nat /\ nextId \in 1 .. MaxIds + 1
      /\ at \in 0 .. Len(registry) /\ MaxIds \in Nat /\ Steps \in Nat
  <2>1. MaxIds \in Nat /\ Steps \in Nat
    BY Ticks
  <2>2. TickTypeOK /\ IdsKept /\ WalkKept /\ ShareKept /\ RowsApart
    BY DEF TickInv
  <2>3. registry \in Seq(Registered) /\ nextId \in 1 .. MaxIds + 1 /\ at \in 0 .. Len(registry)
    BY <2>2 DEF TickTypeOK
  <2> QED BY <2>1, <2>2, <2>3
<1>3. PICK r : r = [id |-> nextId, phase |-> p, name |-> name]
  OBVIOUS
<1>4. nextId \in Ids /\ r \in Registered /\ r.id = nextId /\ runsOf[nextId] = 0
  <2>1. nextId \in Ids
    BY <1>1, <1>2 DEF Ids
  <2>2. nextId >= nextId
    BY <1>2
  <2>3. runsOf[nextId] = 0
    BY <1>2, <2>1, <2>2 DEF WalkKept
  <2> QED BY <1>3, <2>1, <2>3 DEF Registered
<1>5. PICK more : more = Append(registry, r)
  OBVIOUS
<1>6. /\ registry' = more /\ more \in Seq(Registered) /\ Len(more) = Len(registry) + 1
      /\ more[Len(registry) + 1] = r /\ \A i \in 1 .. Len(registry) : more[i] = registry[i]
      /\ \A i \in 1 .. Len(more) : i \in 1 .. Len(registry) \/ i = Len(registry) + 1
  BY <1>1, <1>2, <1>3, <1>4, <1>5
<1>7. TickTypeOK'
  <2>1. Len(more) <= Steps /\ nextId' \in 1 .. MaxIds + 1 /\ at' \in 0 .. Len(more)
    BY <1>1, <1>2, <1>6
  <2> QED BY <1>1, <1>2, <1>6, <2>1 DEF TickTypeOK
<1>8. IdsKept'
  <2>1. \A i \in 1 .. Len(registry) : registry[i].id < nextId /\ registry[i].id \in Nat
    <3>1. \A i \in 1 .. Len(registry) : registry[i] \in Registered
      BY <1>2
    <3>2. \A i \in 1 .. Len(registry) : registry[i].id \in Ids
      BY <3>1 DEF Registered
    <3> QED BY <1>2, <3>2 DEF IdsKept, Ids
  <2>2. Distinct(more)
    <3>1. ASSUME NEW i \in 1 .. Len(more), NEW j \in 1 .. Len(more), more[i].id = more[j].id PROVE i = j
      <4>1. CASE i \in 1 .. Len(registry) /\ j \in 1 .. Len(registry)
        BY <1>2, <1>6, <3>1, <4>1 DEF IdsKept, Distinct
      <4>2. CASE i \in 1 .. Len(registry) /\ j = Len(registry) + 1
        BY <1>2, <1>4, <1>6, <2>1, <3>1, <4>2
      <4>3. CASE i = Len(registry) + 1 /\ j \in 1 .. Len(registry)
        BY <1>2, <1>4, <1>6, <2>1, <3>1, <4>3
      <4> QED BY <1>6, <4>1, <4>2, <4>3
    <3> QED BY <3>1 DEF Distinct
  <2>3. ASSUME NEW i \in 1 .. Len(more) PROVE more[i].id < nextId + 1 /\ more[i].id \notin takenOff
    <3>1. CASE i \in 1 .. Len(registry)
      BY <1>2, <1>6, <2>1, <3>1 DEF IdsKept
    <3>2. CASE i = Len(registry) + 1
      <4>1. nextId \notin takenOff
        BY <1>2 DEF IdsKept
      <4> QED BY <1>2, <1>4, <1>6, <3>2, <4>1
    <3> QED BY <1>6, <3>1, <3>2
  <2>4. \A id \in takenOff : id < nextId + 1
    <3>1. \A id \in takenOff : id \in Nat /\ id < nextId
      BY <1>2 DEF IdsKept, TickTypeOK, Ids
    <3> QED BY <1>2, <3>1
  <2>5. \A k \in 1 .. Len(offs) : offs[k] < nextId + 1
    <3>1. \A k \in 1 .. Len(offs) : offs[k] \in Nat /\ offs[k] < nextId
      <4>1. offs \in Seq(Ids)
        BY <1>2 DEF TickTypeOK
      <4>2. \A k \in 1 .. Len(offs) : offs[k] \in Ids
        BY <4>1
      <4> QED BY <1>2, <4>2 DEF IdsKept, Ids
    <3> QED BY <1>2, <3>1
  <2>6. pc \in {"idle", "walk"} => offs = <<>>
    BY <1>2 DEF IdsKept
  <2> QED BY <1>1, <1>6, <2>2, <2>3, <2>4, <2>5, <2>6 DEF IdsKept
<1>9. Passed(more, at) = Passed(registry, at) /\ ToCome(more, at) \subseteq ToCome(registry, at) \cup {r}
  <2>1. Passed(more, at) = Passed(registry, at)
    <3>1. \A i \in 1 .. at : more[i] = registry[i]
      BY <1>2, <1>6
    <3> QED BY <3>1 DEF Passed
  <2>2. ASSUME NEW i \in at + 1 .. Len(more) PROVE more[i] \in ToCome(registry, at) \cup {r}
    <3>1. CASE i = Len(registry) + 1
      BY <1>6, <3>1
    <3>2. CASE i # Len(registry) + 1
      <4>1. i \in at + 1 .. Len(registry) /\ i \in 1 .. Len(registry)
        BY <1>2, <1>6, <3>2
      <4> QED BY <1>6, <4>1 DEF ToCome
    <3> QED BY <3>1, <3>2
  <2> QED BY <2>1, <2>2 DEF ToCome
<1>10. WalkKept'
  <2>1. pc = "idle" => at = 0 /\ phaseAt = 0 /\ \A id \in Ids : runsOf[id] = 0
    BY <1>2 DEF WalkKept
  <2>2. \A id \in Ids : runsOf[id] <= 1 /\ (id >= nextId + 1 => runsOf[id] = 0)
    <3>1. \A id \in Ids : id >= nextId + 1 => id >= nextId
      BY <1>2 DEF Ids
    <3> QED BY <1>2, <3>1 DEF WalkKept
  <2>3. \A q \in Passed(more, at) : /\ q.phase = phaseAt => runsOf[q.id] = 1
                                    /\ q.phase > phaseAt => runsOf[q.id] = 0
    BY <1>2, <1>9 DEF WalkKept
  <2>4. \A q \in ToCome(more, at) : q.phase >= phaseAt => runsOf[q.id] = 0
    BY <1>2, <1>4, <1>9 DEF WalkKept
  <2>5. InStep => at >= 1 /\ more[at].phase = phaseAt
    <3> SUFFICES ASSUME InStep PROVE at >= 1 /\ more[at].phase = phaseAt
      OBVIOUS
    <3>1. at >= 1 /\ registry[at].phase = phaseAt
      BY <1>2 DEF WalkKept
    <3>2. at \in 1 .. Len(registry)
      BY <1>2, <3>1
    <3> QED BY <1>6, <3>1, <3>2
  <2>6. InStep' = InStep
    BY <1>1 DEF InStep
  <2> QED BY <1>1, <1>6, <2>1, <2>2, <2>3, <2>4, <2>5, <2>6 DEF WalkKept
<1>11. StepsRun(0)' = StepsRun(0)
  <2>1. ASSUME NEW id \in Ids, runsOf[id] > 0
        PROVE  (\E i \in 1 .. Len(more) : more[i].id = id /\ more[i].phase = 0)
                 <=> (\E i \in 1 .. Len(registry) : registry[i].id = id /\ registry[i].phase = 0)
    <3>1. id # nextId
      BY <1>4, <2>1
    <3>2. \A i \in 1 .. Len(registry) : i \in 1 .. Len(more)
      BY <1>2, <1>6
    <3> QED BY <1>4, <1>6, <3>1, <3>2
  <2> QED BY <1>1, <1>6, <2>1 DEF StepsRun
<1>12. Reach' = Reach /\ Share' = Share
  BY <1>1, <1>11 DEF Reach, Share, Overrun
<1>13. ShareKept'
  BY <1>1, <1>2, <1>12 DEF ShareKept, FirstPhase, Cost
<1>14. RowsApart'
  BY <1>1, <1>2 DEF RowsApart
<1> QED BY <1>7, <1>8, <1>10, <1>13, <1>14 DEF TickInv

LEMMA AskOffKeeps ==
  ASSUME TickAssumption, TickInv, NEW id \in Ids, AskOff(id)
  PROVE  TickInv'
<1>1. /\ pc = "step" /\ id < nextId /\ Len(offs) < Offs /\ offs' = Append(offs, id)
      /\ UNCHANGED <<registry, nextId, phaseAt, at, spent, pass, pc, rows, runsOf, began, takenOff>>
  BY DEF AskOff
<1>2. /\ TickTypeOK /\ IdsKept /\ WalkKept /\ ShareKept /\ RowsApart
      /\ offs \in Seq(Ids) /\ Len(offs) \in Nat /\ Offs \in Nat
  BY DEF TickInv, TickTypeOK, TickAssumption
<1>3. /\ offs' \in Seq(Ids) /\ Len(offs') = Len(offs) + 1 /\ offs'[Len(offs) + 1] = id
      /\ \A k \in 1 .. Len(offs) : offs'[k] = offs[k]
      /\ \A k \in 1 .. Len(offs') : k \in 1 .. Len(offs) \/ k = Len(offs) + 1
  BY <1>1, <1>2
<1>4. TickTypeOK'
  <2>1. Len(offs') <= Offs
    BY <1>1, <1>2, <1>3
  <2> QED BY <1>1, <1>2, <1>3, <2>1 DEF TickTypeOK
<1>5. IdsKept'
  BY <1>1, <1>2, <1>3 DEF IdsKept, Distinct
<1>6. WalkKept'
  BY <1>1, <1>2 DEF WalkKept, Passed, ToCome, InStep
<1>7. Reach' = Reach /\ Share' = Share
  BY <1>1, ReachSame
<1>8. ShareKept'
  BY <1>1, <1>2, <1>7 DEF ShareKept, FirstPhase, Cost
<1>9. RowsApart'
  BY <1>1, <1>2 DEF RowsApart
<1> QED BY <1>4, <1>5, <1>6, <1>8, <1>9 DEF TickInv

LEMMA OffTickKeeps ==
  ASSUME TickAssumption, TickInv, NEW id \in Ids, OffTick(id)
  PROVE  TickInv'
<1>1. /\ pc = "idle" /\ IndexOf(registry, id) # 0 /\ registry' = Unregistering(registry, id)
      /\ takenOff' = takenOff \cup {id}
      /\ UNCHANGED <<nextId, offs, phaseAt, at, spent, pass, pc, rows, runsOf, began>>
  BY DEF OffTick
<1>2. /\ TickTypeOK /\ IdsKept /\ WalkKept /\ ShareKept /\ RowsApart /\ at = 0
      /\ registry \in Seq(Registered) /\ Len(registry) \in Nat /\ Distinct(registry)
      /\ Steps \in Nat /\ Len(registry) <= Steps
  <2>1. Steps \in Nat
    BY Ticks
  <2>2. TickTypeOK /\ IdsKept /\ WalkKept /\ ShareKept /\ RowsApart
    BY DEF TickInv
  <2>3. registry \in Seq(Registered) /\ Len(registry) <= Steps
    BY <2>2 DEF TickTypeOK
  <2>4. at = 0 /\ Distinct(registry)
    BY <1>1, <2>2 DEF WalkKept, IdsKept
  <2> QED BY <2>1, <2>2, <2>3, <2>4
<1>3. PICK w, v : w = [reg |-> registry, at |-> 0] /\ v = TakingOff(w, id)
  OBVIOUS
<1>4. Walking(w)
  BY <1>2, <1>3 DEF Walking
<1>5. Fewer(v, w) /\ Lacks(v, id)
  BY <1>3, <1>4, TakingOffKeeps
<1>6. v.reg = registry' /\ v.at = 0
  <2>1. IndexOf(registry, id) \notin 1 .. 0
    BY <1>2, IndexFinds
  <2> QED BY <1>1, <1>3, <2>1 DEF TakingOff
<1>7. /\ registry' \in Seq(Registered) /\ Len(registry') \in Nat /\ Distinct(registry')
      /\ Len(registry') <= Len(registry) /\ ToCome(registry', 0) \subseteq ToCome(registry, 0)
      /\ \A i \in 1 .. Len(registry') : registry'[i].id # id
  BY <1>3, <1>5, <1>6 DEF Fewer, Walking, Lacks
<1>8. \A i \in 1 .. Len(registry') : registry'[i] \in ToCome(registry, 0)
  <2>1. \A i \in 1 .. Len(registry') : i \in 0 + 1 .. Len(registry')
    BY <1>7
  <2> QED BY <1>7, <2>1 DEF ToCome
<1>9. \A i \in 1 .. Len(registry') : \E j \in 1 .. Len(registry) : registry'[i] = registry[j]
  <2>1. \A j \in 0 + 1 .. Len(registry) : j \in 1 .. Len(registry)
    BY <1>2
  <2> QED BY <1>8, <2>1 DEF ToCome
<1>10. TickTypeOK'
  <2>1. Len(registry') <= Steps /\ at' \in 0 .. Len(registry')
    BY <1>1, <1>2, <1>7
  <2> QED BY <1>1, <1>2, <1>7, <2>1 DEF TickTypeOK
<1>11. IdsKept'
  <2>1. id < nextId
    <3>1. PICK k \in 1 .. Len(registry) : registry[k].id = id
      <4>1. IndexOf(registry, id) \in 1 .. Len(registry) /\ registry[IndexOf(registry, id)].id = id
        BY <1>1, <1>2, IndexFinds
      <4> QED BY <4>1
    <3> QED BY <1>2, <3>1 DEF IdsKept
  <2>2. \A i \in 1 .. Len(registry') : registry'[i].id < nextId /\ registry'[i].id \notin takenOff
    BY <1>2, <1>9 DEF IdsKept
  <2> QED BY <1>1, <1>2, <1>7, <2>1, <2>2 DEF IdsKept
<1>12. WalkKept'
  <2>1. Passed(registry', 0) = {}
    BY DEF Passed
  <2>2. ~ InStep'
    BY <1>1 DEF InStep
  <2>3. \A r \in ToCome(registry', 0) : r.phase >= phaseAt => runsOf[r.id] = 0
    BY <1>2, <1>7 DEF WalkKept
  <2>4. at' = 0 /\ phaseAt' = phaseAt /\ runsOf' = runsOf /\ nextId' = nextId /\ pc' = pc
    BY <1>1, <1>2
  <2> QED BY <1>2, <2>1, <2>2, <2>3, <2>4 DEF WalkKept
<1>13. ShareKept' /\ RowsApart'
  BY <1>1, <1>2 DEF ShareKept, RowsApart
<1> QED BY <1>10, <1>11, <1>12, <1>13 DEF TickInv

\* What is left of the registry was in it.
LEMMA FewerIn ==
  ASSUME NEW v, NEW w, Walking(w), Fewer(v, w)
  PROVE  \A i \in 1 .. Len(v.reg) : \E j \in 1 .. Len(w.reg) : v.reg[i] = w.reg[j]
<1>1. v.at \in 0 .. Len(v.reg) /\ Len(v.reg) \in Nat /\ w.at \in 0 .. Len(w.reg) /\ Len(w.reg) \in Nat
  BY DEF Fewer, Walking
<1>2. ASSUME NEW i \in 1 .. Len(v.reg) PROVE \E j \in 1 .. Len(w.reg) : v.reg[i] = w.reg[j]
  <2>1. v.reg[i] \in Passed(v.reg, v.at) \cup ToCome(v.reg, v.at)
    <3>1. i \in 1 .. v.at \/ i \in v.at + 1 .. Len(v.reg)
      BY <1>1
    <3> QED BY <3>1 DEF Passed, ToCome
  <2>2. v.reg[i] \in Passed(w.reg, w.at) \cup ToCome(w.reg, w.at)
    BY <2>1 DEF Fewer
  <2>3. 1 .. w.at \subseteq 1 .. Len(w.reg) /\ w.at + 1 .. Len(w.reg) \subseteq 1 .. Len(w.reg)
    BY <1>1
  <2> QED BY <2>2, <2>3 DEF Passed, ToCome
<1> QED BY <1>2

LEMMA RunKeeps == TickAssumption /\ TickInv /\ Run => TickInv'
<1> SUFFICES ASSUME TickAssumption, TickInv, Run PROVE TickInv'
  OBVIOUS
<1>1. /\ pc = "idle" /\ pc' = "walk" /\ began' = [began EXCEPT ![0] = spent']
      /\ UNCHANGED <<registry, nextId, offs, phaseAt, at, pass, rows, runsOf, takenOff>>
  BY DEF Run
<1>2. PICK ms \in 0 .. 1 : spent' = Capped(ms)
  BY DEF Run
<1>3. /\ TickTypeOK /\ IdsKept /\ WalkKept /\ RowsApart
      /\ began \in [Phases -> 0 .. LongMs] /\ phaseAt = 0
  <2>1. TickTypeOK /\ IdsKept /\ WalkKept /\ RowsApart
    BY DEF TickInv
  <2> QED BY <1>1, <2>1 DEF TickTypeOK, WalkKept
<1>4. spent' \in 0 .. LongMs
  <2>1. LongMs \in Nat
    BY Ticks
  <2> QED BY <1>2, <2>1 DEF Capped
<1>5. began' \in [Phases -> 0 .. LongMs] /\ began'[0] = spent'
  <2>1. 0 \in Phases
    BY Ticks
  <2> QED BY <1>1, <1>3, <1>4, <2>1
<1>6. TickTypeOK'
  BY <1>1, <1>3, <1>4, <1>5 DEF TickTypeOK
<1>7. IdsKept'
  BY <1>1, <1>3 DEF IdsKept, Distinct
<1>8. WalkKept'
  BY <1>1, <1>3 DEF WalkKept, Passed, ToCome, InStep
<1>9. spent' <= Reach'
  <2>1. Overrun \in Nat
    BY <1>3, Reaches
  <2>2. Overrun' = Overrun
    BY <1>1 DEF Overrun, StepsRun
  <2>3. LongMs \in Nat /\ Quota \in Nat /\ HeldBack[0] \in Nat
    BY Ticks
  <2>4. Share' = IF spent' >= Quota - HeldBack[0] THEN spent' ELSE Quota - HeldBack[0]
    BY <1>5 DEF Share, Latest
  <2>5. Share' >= spent' /\ Share' \in Int /\ spent' \in Int
    BY <1>4, <2>3, <2>4
  <2>6. PICK share, over : share = Share' /\ over = Overrun
    OBVIOUS
  <2>7. Reach' = share + over
    BY <2>2, <2>6 DEF Reach
  <2>8. over \in Nat /\ share \in Int /\ share >= spent' /\ spent' \in Int
    BY <2>1, <2>5, <2>6
  <2> QED BY <2>7, <2>8
<1>10. ShareKept'
  BY <1>1, <1>3, <1>9 DEF ShareKept, FirstPhase
<1>11. RowsApart'
  BY <1>1, <1>3 DEF RowsApart
<1> QED BY <1>6, <1>7, <1>8, <1>10, <1>11 DEF TickInv

\* The walk's next step is passed.
LEMMA Onward ==
  ASSUME NEW reg \in Seq(Registered), NEW n \in Nat, n < Len(reg)
  PROVE  /\ n + 1 \in 1 .. Len(reg) /\ n + 1 \in 0 .. Len(reg) /\ reg[n + 1] \in Registered
         /\ Passed(reg, n + 1) = Passed(reg, n) \cup {reg[n + 1]}
         /\ reg[n + 1] \in ToCome(reg, n)
         /\ ToCome(reg, n + 1) \subseteq ToCome(reg, n)
<1>1. n + 1 \in 1 .. Len(reg) /\ n + 1 \in 0 .. Len(reg) /\ n + 1 \in n + 1 .. Len(reg)
      /\ Len(reg) \in Nat
  OBVIOUS
<1>2. 1 .. n + 1 = 1 .. n \cup {n + 1}
  OBVIOUS
<1>3. Passed(reg, n + 1) = Passed(reg, n) \cup {reg[n + 1]}
  BY <1>2 DEF Passed
<1>4. n + 1 + 1 .. Len(reg) \subseteq n + 1 .. Len(reg)
  BY <1>1
<1>5. ToCome(reg, n + 1) \subseteq ToCome(reg, n)
  BY <1>4 DEF ToCome
<1>6. reg[n + 1] \in ToCome(reg, n)
  BY <1>1 DEF ToCome
<1>7. reg[n + 1] \in Registered
  BY <1>1
<1> QED BY <1>1, <1>3, <1>5, <1>6, <1>7

LEMMA SkipKeeps == TickAssumption /\ TickInv /\ Skip => TickInv'
<1> SUFFICES ASSUME TickAssumption, TickInv, Skip PROVE TickInv'
  OBVIOUS
<1>1. /\ pc = "walk" /\ at < Len(registry) /\ registry[at + 1].phase # phaseAt /\ at' = at + 1
      /\ UNCHANGED <<registry, nextId, offs, phaseAt, spent, pass, pc, rows, runsOf, began, takenOff>>
  BY DEF Skip
<1>2. /\ TickTypeOK /\ IdsKept /\ WalkKept /\ ShareKept /\ RowsApart
      /\ registry \in Seq(Registered) /\ at \in Nat /\ phaseAt \in Phases
  <2>1. TickTypeOK /\ IdsKept /\ WalkKept /\ ShareKept /\ RowsApart
    BY DEF TickInv
  <2> QED BY <2>1 DEF TickTypeOK
<1>3. PICK r : r = registry[at + 1]
  OBVIOUS
<1>4. /\ at + 1 \in 0 .. Len(registry) /\ r \in Registered
      /\ Passed(registry, at + 1) = Passed(registry, at) \cup {r}
      /\ r \in ToCome(registry, at) /\ ToCome(registry, at + 1) \subseteq ToCome(registry, at)
  BY <1>1, <1>2, <1>3, Onward
<1>5. TickTypeOK'
  BY <1>1, <1>2, <1>4 DEF TickTypeOK
<1>6. IdsKept'
  BY <1>1, <1>2 DEF IdsKept, Distinct
<1>7. WalkKept'
  <2>1. r.phase # phaseAt /\ (r.phase > phaseAt => runsOf[r.id] = 0)
    <3>1. r.phase \in Nat /\ phaseAt \in Nat
      BY <1>2, <1>4 DEF Registered, Phases
    <3>2. r.phase >= phaseAt => runsOf[r.id] = 0
      BY <1>2, <1>4 DEF WalkKept
    <3> QED BY <1>1, <1>3, <3>1, <3>2
  <2>2. \A q \in Passed(registry, at + 1) : /\ q.phase = phaseAt => runsOf[q.id] = 1
                                            /\ q.phase > phaseAt => runsOf[q.id] = 0
    BY <1>2, <1>4, <2>1 DEF WalkKept
  <2>3. \A q \in ToCome(registry, at + 1) : q.phase >= phaseAt => runsOf[q.id] = 0
    BY <1>2, <1>4 DEF WalkKept
  <2>4. \A id \in Ids : runsOf[id] <= 1 /\ (id >= nextId => runsOf[id] = 0)
    BY <1>2 DEF WalkKept
  <2> QED BY <1>1, <2>2, <2>3, <2>4 DEF WalkKept, InStep
<1>8. Reach' = Reach
  BY <1>1, ReachSame
<1>9. ShareKept'
  BY <1>1, <1>2, <1>8 DEF ShareKept, FirstPhase
<1>10. RowsApart'
  BY <1>1, <1>2 DEF RowsApart
<1> QED BY <1>5, <1>6, <1>7, <1>9, <1>10 DEF TickInv

LEMMA StepKeeps == TickAssumption /\ TickInv /\ Step => TickInv'
<1> SUFFICES ASSUME TickAssumption, TickInv, Step PROVE TickInv'
  OBVIOUS
<1>1. PICK r : r = registry[at + 1]
  OBVIOUS
<1>2. /\ pc = "walk" /\ at < Len(registry) /\ r.phase = phaseAt /\ at' = at + 1
      /\ runsOf' = [runsOf EXCEPT ![r.id] = @ + 1] /\ pc' = "step"
      /\ UNCHANGED <<registry, nextId, offs, phaseAt, spent, pass, rows, began, takenOff>>
  BY <1>1 DEF Step
<1>3. /\ TickTypeOK /\ IdsKept /\ WalkKept /\ ShareKept /\ RowsApart
      /\ registry \in Seq(Registered) /\ at \in Nat /\ phaseAt \in Phases /\ Distinct(registry)
      /\ runsOf \in [Ids -> Nat] /\ spent \in 0 .. LongMs
  <2>1. TickTypeOK /\ IdsKept /\ WalkKept /\ ShareKept /\ RowsApart
    BY DEF TickInv
  <2> QED BY <2>1 DEF TickTypeOK, IdsKept
<1>4. /\ at + 1 \in 1 .. Len(registry) /\ at + 1 \in 0 .. Len(registry) /\ r \in Registered
      /\ Passed(registry, at + 1) = Passed(registry, at) \cup {r}
      /\ r \in ToCome(registry, at) /\ ToCome(registry, at + 1) \subseteq ToCome(registry, at)
  BY <1>1, <1>2, <1>3, Onward
<1>5. r.id \in Ids /\ phaseAt \in Nat
  BY <1>3, <1>4 DEF Registered, Phases
<1>6. runsOf[r.id] = 0
  <2>1. r.phase >= phaseAt
    BY <1>2, <1>5
  <2> QED BY <1>3, <1>4, <2>1 DEF WalkKept
<1>7. /\ runsOf' \in [Ids -> Nat] /\ runsOf'[r.id] = 1
      /\ \A id \in Ids : id # r.id => runsOf'[id] = runsOf[id]
  BY <1>2, <1>3, <1>5, <1>6
<1>8. \A i \in 1 .. Len(registry) : i # at + 1 => registry[i].id # r.id /\ registry[i].id \in Ids
  <2>1. \A i \in 1 .. Len(registry) : registry[i].id = r.id => i = at + 1
    BY <1>1, <1>3, <1>4 DEF Distinct
  <2>2. \A i \in 1 .. Len(registry) : registry[i] \in Registered
    BY <1>3
  <2> QED BY <2>1, <2>2 DEF Registered
<1>9. TickTypeOK'
  BY <1>2, <1>3, <1>4, <1>7 DEF TickTypeOK
<1>10. IdsKept'
  <2>1. offs = <<>>
    BY <1>2, <1>3 DEF IdsKept
  <2> QED BY <1>2, <1>3, <2>1 DEF IdsKept
<1>11. WalkKept'
  <2>1. \A q \in Passed(registry, at) : q.id # r.id /\ q.id \in Ids
    <3>1. \A i \in 1 .. at : i \in 1 .. Len(registry) /\ i # at + 1
      BY <1>3, <1>4
    <3> QED BY <1>8, <3>1 DEF Passed
  <2>2. \A q \in ToCome(registry, at + 1) : q.id # r.id /\ q.id \in Ids
    <3>1. \A i \in at + 1 + 1 .. Len(registry) : i \in 1 .. Len(registry) /\ i # at + 1
      BY <1>3, <1>4
    <3> QED BY <1>8, <3>1 DEF ToCome
  <2>3. \A q \in Passed(registry, at + 1) : /\ q.phase = phaseAt => runsOf'[q.id] = 1
                                            /\ q.phase > phaseAt => runsOf'[q.id] = 0
    <3>1. ASSUME NEW q \in Passed(registry, at)
          PROVE  /\ q.phase = phaseAt => runsOf'[q.id] = 1
                 /\ q.phase > phaseAt => runsOf'[q.id] = 0
      BY <1>3, <1>7, <2>1 DEF WalkKept
    <3>2. (r.phase = phaseAt => runsOf'[r.id] = 1) /\ ~ r.phase > phaseAt
      BY <1>2, <1>5, <1>7
    <3> QED BY <1>4, <3>1, <3>2
  <2>4. \A q \in ToCome(registry, at + 1) : q.phase >= phaseAt => runsOf'[q.id] = 0
    BY <1>3, <1>4, <1>7, <2>2 DEF WalkKept
  <2>5. ASSUME NEW id \in Ids PROVE runsOf'[id] <= 1 /\ (id >= nextId => runsOf'[id] = 0)
    <3>1. CASE id = r.id
      <4>1. r.id < nextId
        BY <1>1, <1>3, <1>4 DEF IdsKept
      <4>2. nextId \in Nat /\ r.id \in Nat
        BY <1>3, <1>5 DEF TickTypeOK, Ids
      <4> QED BY <1>7, <3>1, <4>1, <4>2
    <3>2. CASE id # r.id
      BY <1>3, <1>7, <3>2 DEF WalkKept
    <3> QED BY <3>1, <3>2
  <2>6. at + 1 >= 1 /\ registry[at + 1].phase = phaseAt
    BY <1>1, <1>2, <1>3
  <2> QED BY <1>2, <2>3, <2>4, <2>5, <2>6 DEF WalkKept, InStep
<1>12. Share' = Share /\ Cost \in Nat /\ Share \in Nat /\ Overrun \in Nat /\ Reach \in Nat
       /\ Reach >= Share /\ Reach = Share + Overrun /\ Reach' = Share + Overrun'
       /\ spent \in Nat
  <2>1. Share' = Share
    BY <1>2 DEF Share
  <2>2. Cost \in Nat /\ Share \in Nat /\ Overrun \in Nat /\ Reach \in Nat /\ Reach >= Share
    BY <1>3, Reaches
  <2>3. Reach' = Share' + Overrun'
    BY DEF Reach
  <2>4. spent \in Nat
    BY <1>3, Ticks
  <2> QED BY <2>1, <2>2, <2>3, <2>4 DEF Reach
<1>13. CASE phaseAt = 0
  <2>1. StepsRun(0)' = StepsRun(0) \cup {r.id}
    <3>1. r.id \in StepsRun(0)'
      BY <1>1, <1>2, <1>4, <1>5, <1>7, <1>13 DEF StepsRun
    <3>2. \A id \in Ids : id # r.id => (id \in StepsRun(0)' <=> id \in StepsRun(0))
      BY <1>2, <1>7 DEF StepsRun
    <3>3. StepsRun(0) \subseteq Ids /\ StepsRun(0)' \subseteq Ids
      BY DEF StepsRun
    <3> QED BY <1>5, <3>1, <3>2, <3>3
  <2>2. r.id \notin StepsRun(0)
    BY <1>6 DEF StepsRun
  <2>3. IsFiniteSet(StepsRun(0)) /\ Overrun = Cardinality(StepsRun(0)) * Cost
    BY <1>3, Reaches
  <2>4. PICK n \in Nat : n = Cardinality(StepsRun(0))
    BY <2>3, FS_CardinalityType
  <2>5. Cardinality(StepsRun(0) \cup {r.id}) = n + 1
    BY <2>2, <2>3, <2>4, FS_AddElement
  <2>6. Overrun' = (n + 1) * Cost
    BY <2>1, <2>5 DEF Overrun, Cost
  <2>7. Overrun' = Overrun + Cost
    BY <1>12, <2>3, <2>4, <2>6
  <2>8. takenOff = {} => spent <= Reach
    BY <1>2, <1>3, <1>13 DEF ShareKept, FirstPhase
  <2>9. takenOff = {} => Share + Cost <= Reach' /\ spent + Cost <= Reach'
    BY <1>12, <2>7, <2>8
  <2>10. ShareKept'
    BY <1>2, <1>12, <1>13, <2>9 DEF ShareKept, FirstPhase, Cost
  <2>11. RowsApart'
    BY <1>2, <1>3 DEF RowsApart
  <2> QED BY <1>9, <1>10, <1>11, <2>10, <2>11 DEF TickInv
<1>14. CASE phaseAt # 0
  <2>1. r.id \notin StepsRun(0)' /\ r.id \notin StepsRun(0)
    <3>1. \A i \in 1 .. Len(registry) : registry[i].id = r.id => registry[i].phase # 0
      BY <1>1, <1>2, <1>8, <1>14
    <3> QED BY <1>2, <3>1 DEF StepsRun
  <2>2. \A id \in Ids : id # r.id => (id \in StepsRun(0)' <=> id \in StepsRun(0))
    BY <1>2, <1>7 DEF StepsRun
  <2>3. StepsRun(0) \subseteq Ids /\ StepsRun(0)' \subseteq Ids
    BY DEF StepsRun
  <2>4. StepsRun(0)' = StepsRun(0)
    BY <2>1, <2>2, <2>3
  <2>5. Reach' = Reach
    BY <1>12, <2>4 DEF Overrun
  <2>6. ShareKept'
    BY <1>2, <1>3, <1>14, <2>5 DEF ShareKept
  <2>7. RowsApart'
    BY <1>2, <1>3 DEF RowsApart
  <2> QED BY <1>9, <1>10, <1>11, <2>6, <2>7 DEF TickInv
<1> QED BY <1>13, <1>14

LEMMA EndStepKeeps == TickAssumption /\ TickInv /\ EndStep => TickInv'
<1> SUFFICES ASSUME TickAssumption, TickInv, EndStep PROVE TickInv'
  OBVIOUS
<1>1. /\ pc = "after" /\ rows' = Recorded(registry[at]) /\ registry' = Removed.reg /\ at' = Removed.at
      /\ takenOff' = takenOff \cup {offs[k] : k \in 1 .. Len(offs)} /\ offs' = <<>> /\ pc' = "walk"
      /\ UNCHANGED <<nextId, phaseAt, spent, pass, runsOf, began>>
  BY DEF EndStep
<1>2. /\ TickTypeOK /\ IdsKept /\ WalkKept /\ ShareKept /\ RowsApart
      /\ registry \in Seq(Registered) /\ Len(registry) \in Nat /\ Len(registry) <= Steps
      /\ at \in 1 .. Len(registry) /\ Distinct(registry) /\ offs \in Seq(Ids) /\ Len(offs) \in Nat
      /\ rows \in Seq(Rows) /\ Len(rows) \in Nat /\ Len(rows) <= Steps /\ Steps \in Nat
      /\ takenOff \subseteq Ids
  <2>1. TickTypeOK /\ IdsKept /\ WalkKept /\ ShareKept /\ RowsApart
    BY DEF TickInv
  <2>2. /\ registry \in Seq(Registered) /\ at \in 0 .. Len(registry) /\ offs \in Seq(Ids)
        /\ rows \in Seq(Rows) /\ Len(rows) <= Steps /\ takenOff \subseteq Ids /\ Len(registry) <= Steps
    BY <2>1 DEF TickTypeOK
  <2>3. at >= 1
    BY <1>1, <2>1 DEF WalkKept, InStep
  <2>4. Distinct(registry)
    BY <2>1 DEF IdsKept
  <2>5. Steps \in Nat
    BY Ticks
  <2> QED BY <2>1, <2>2, <2>3, <2>4, <2>5
<1>3. PICK w, v : w = [reg |-> registry, at |-> at] /\ v = Removed
  OBVIOUS
<1>4. Walking(w)
  BY <1>2, <1>3 DEF Walking
<1>5. Fewer(v, w) /\ (\A k \in 1 .. Len(offs) : Lacks(v, offs[k])) /\ (offs = <<>> => v = w)
  <2>1. FewerFrom(v, w, offs, Len(offs)) /\ (offs = <<>> => v = w)
    BY <1>2, <1>3, <1>4, RemovedKeeps
  <2> QED BY <2>1 DEF FewerFrom
<1>6. registry' = v.reg /\ at' = v.at
  BY <1>1, <1>3
<1>7. /\ registry' \in Seq(Registered) /\ Len(registry') <= Len(registry) /\ Len(registry') \in Nat
      /\ at' \in 0 .. Len(registry') /\ Distinct(registry')
      /\ Passed(registry', at') \subseteq Passed(registry, at)
      /\ ToCome(registry', at') \subseteq ToCome(registry, at)
  BY <1>3, <1>5, <1>6 DEF Fewer, Walking
<1>8. \A i \in 1 .. Len(registry') : \E j \in 1 .. Len(registry) : registry'[i] = registry[j]
  BY <1>3, <1>4, <1>5, <1>6, FewerIn
<1>9. \A i \in 1 .. Len(registry') : \A k \in 1 .. Len(offs) : registry'[i].id # offs[k]
  BY <1>5, <1>6 DEF Lacks
<1>10. rows' \in Seq(Rows) /\ Len(rows') <= Steps /\ RowsApart'
  <2>1. PICK row : row = RowOf(registry[at])
    OBVIOUS
  <2>2. row \in Rows
    <3>1. registry[at] \in Registered
      BY <1>2
    <3> QED BY <2>1, <3>1 DEF RowOf, Registered, Rows
  <2>3. CASE rows' = rows
    BY <1>2, <2>3 DEF RowsApart
  <2>4. CASE rows' # rows
    <3>1. /\ rows' = Append(rows, row) /\ Len(rows) # Steps
          /\ \A i \in 1 .. Len(rows) : rows[i] # row
      BY <1>1, <2>1, <2>4 DEF Recorded
    <3>2. /\ rows' \in Seq(Rows) /\ Len(rows') = Len(rows) + 1 /\ rows'[Len(rows) + 1] = row
          /\ \A i \in 1 .. Len(rows) : rows'[i] = rows[i]
          /\ \A i \in 1 .. Len(rows') : i \in 1 .. Len(rows) \/ i = Len(rows) + 1
      BY <1>2, <2>2, <3>1
    <3>3. Len(rows') <= Steps
      BY <1>2, <3>1, <3>2
    <3>4. ASSUME NEW i \in 1 .. Len(rows'), NEW j \in 1 .. Len(rows'), rows'[i] = rows'[j] PROVE i = j
      <4>1. CASE i \in 1 .. Len(rows) /\ j \in 1 .. Len(rows)
        BY <1>2, <3>2, <3>4, <4>1 DEF RowsApart
      <4>2. CASE i = Len(rows) + 1 \/ j = Len(rows) + 1
        BY <3>1, <3>2, <3>4, <4>2
      <4> QED BY <3>2, <4>1, <4>2
    <3> QED BY <3>2, <3>3, <3>4 DEF RowsApart
  <2> QED BY <2>3, <2>4
<1>11. {offs[k] : k \in 1 .. Len(offs)} \subseteq Ids
  <2>1. \A k \in 1 .. Len(offs) : offs[k] \in Ids
    BY <1>2
  <2> QED BY <2>1
<1>12. TickTypeOK'
  <2>1. Len(registry') <= Steps /\ takenOff' \subseteq Ids
    BY <1>1, <1>2, <1>7, <1>11
  <2>2. offs' \in Seq(Ids) /\ Len(offs') <= Offs
    <3>1. Offs \in Nat
      BY DEF TickAssumption
    <3>2. Len(<<>>) = 0
      OBVIOUS
    <3> QED BY <1>1, <3>1, <3>2
  <2> QED BY <1>1, <1>2, <1>7, <1>10, <2>1, <2>2 DEF TickTypeOK
<1>13. IdsKept'
  <2>1. \A i \in 1 .. Len(registry') : registry'[i].id < nextId /\ registry'[i].id \notin takenOff
    BY <1>2, <1>8 DEF IdsKept
  <2>2. \A i \in 1 .. Len(registry') : registry'[i].id \notin takenOff'
    BY <1>1, <1>9, <2>1
  <2>3. \A id \in takenOff' : id < nextId
    BY <1>1, <1>2 DEF IdsKept
  <2>4. \A k \in 1 .. Len(<<>>) : FALSE
    OBVIOUS
  <2> QED BY <1>1, <1>7, <2>1, <2>2, <2>3, <2>4 DEF IdsKept
<1>14. WalkKept'
  <2>1. \A q \in Passed(registry', at') : /\ q.phase = phaseAt => runsOf[q.id] = 1
                                          /\ q.phase > phaseAt => runsOf[q.id] = 0
    BY <1>2, <1>7 DEF WalkKept
  <2>2. \A q \in ToCome(registry', at') : q.phase >= phaseAt => runsOf[q.id] = 0
    BY <1>2, <1>7 DEF WalkKept
  <2>3. \A id \in Ids : runsOf[id] <= 1 /\ (id >= nextId => runsOf[id] = 0)
    BY <1>2 DEF WalkKept
  <2> QED BY <1>1, <2>1, <2>2, <2>3 DEF WalkKept, InStep
<1>15. ShareKept'
  <2> SUFFICES ASSUME takenOff' = {} PROVE ShareKept'
    BY DEF ShareKept
  <2>1. offs = <<>> /\ takenOff = {}
    <3>1. \A k \in 1 .. Len(offs) : FALSE
      BY <1>1
    <3>2. Len(offs) = 0
      BY <1>2, <3>1
    <3> QED BY <1>1, <1>2, <3>2
  <2>2. registry' = registry
    BY <1>3, <1>5, <1>6, <2>1
  <2>3. Reach' = Reach
    BY <1>1, <2>2, ReachSame
  <2> QED BY <1>1, <1>2, <2>1, <2>3 DEF ShareKept, FirstPhase
<1> QED BY <1>10, <1>12, <1>13, <1>14, <1>15 DEF TickInv

LEMMA EndPhaseKeeps == TickAssumption /\ TickInv /\ EndPhase => TickInv'
<1> SUFFICES ASSUME TickAssumption, TickInv, EndPhase PROVE TickInv'
  OBVIOUS
<1>1. /\ pc = "walk" /\ at = Len(registry) /\ phaseAt < LastPhase /\ phaseAt' = phaseAt + 1 /\ at' = 0
      /\ began' = [began EXCEPT ![phaseAt + 1] = spent]
      /\ UNCHANGED <<registry, nextId, offs, spent, pass, pc, rows, runsOf, takenOff>>
  BY DEF EndPhase
<1>2. /\ TickTypeOK /\ IdsKept /\ WalkKept /\ ShareKept /\ RowsApart
      /\ registry \in Seq(Registered) /\ Len(registry) \in Nat /\ phaseAt \in Phases
      /\ began \in [Phases -> 0 .. LongMs] /\ spent \in 0 .. LongMs
  <2>1. TickTypeOK /\ IdsKept /\ WalkKept /\ ShareKept /\ RowsApart
    BY DEF TickInv
  <2> QED BY <2>1 DEF TickTypeOK
<1>3. phaseAt + 1 \in Phases /\ phaseAt \in Nat
  <2>1. LastPhase \in Nat /\ Phases = 0 .. LastPhase
    BY Ticks
  <2> QED BY <1>1, <1>2, <2>1
<1>4. began' \in [Phases -> 0 .. LongMs] /\ began'[0] = began[0] /\ began'[phaseAt + 1] = spent
  <2>1. 0 \in Phases /\ phaseAt + 1 # 0
    BY <1>3, Ticks
  <2> QED BY <1>1, <1>2, <1>3, <2>1
<1>5. TickTypeOK'
  <2>1. at' \in 0 .. Len(registry)
    BY <1>1, <1>2
  <2> QED BY <1>1, <1>2, <1>3, <1>4, <2>1 DEF TickTypeOK
<1>6. IdsKept'
  BY <1>1, <1>2 DEF IdsKept, Distinct
<1>7. WalkKept'
  <2>1. Passed(registry, 0) = {}
    BY DEF Passed
  <2>2. ToCome(registry, 0) \subseteq Passed(registry, at)
    <3>1. 0 + 1 .. Len(registry) = 1 .. at
      BY <1>1
    <3> QED BY <3>1 DEF ToCome, Passed
  <2>3. ASSUME NEW q \in ToCome(registry, 0), q.phase >= phaseAt + 1 PROVE runsOf[q.id] = 0
    <3>1. q.phase \in Nat
      <4>1. \A i \in 0 + 1 .. Len(registry) : registry[i] \in Registered
        BY <1>2
      <4> QED BY <2>3, <4>1 DEF ToCome, Registered, Phases
    <3>2. q.phase > phaseAt
      BY <1>3, <2>3, <3>1
    <3> QED BY <1>2, <2>2, <3>2 DEF WalkKept
  <2>4. \A id \in Ids : runsOf[id] <= 1 /\ (id >= nextId => runsOf[id] = 0)
    BY <1>2 DEF WalkKept
  <2> QED BY <1>1, <2>1, <2>3, <2>4 DEF WalkKept, InStep
<1>8. Reach' = Reach
  BY <1>1, <1>4 DEF Reach, Share, Overrun, StepsRun
<1>9. ShareKept'
  <2> SUFFICES ASSUME takenOff = {} PROVE ShareKept'
    BY <1>1 DEF ShareKept
  <2>1. phaseAt' # 0
    BY <1>1, <1>3
  <2>2. phaseAt' = 1 => phaseAt = 0
    BY <1>1, <1>3
  <2>3. phaseAt = 0 => spent <= Reach
    BY <1>1, <1>2 DEF ShareKept, FirstPhase
  <2>4. phaseAt' = 1 => began'[1] <= Reach'
    BY <1>3, <1>4, <1>8, <2>2, <2>3
  <2> QED BY <2>1, <2>4 DEF ShareKept
<1>10. RowsApart'
  BY <1>1, <1>2 DEF RowsApart
<1> QED BY <1>5, <1>6, <1>7, <1>9, <1>10 DEF TickInv

LEMMA EndTickKeeps == TickAssumption /\ TickInv /\ EndTick => TickInv'
<1> SUFFICES ASSUME TickAssumption, TickInv, EndTick PROVE TickInv'
  OBVIOUS
<1>1. /\ pc = "walk" /\ pc' = "idle" /\ phaseAt' = 0 /\ at' = 0 /\ spent' = 0
      /\ runsOf' = [id \in Ids |-> 0] /\ began' = [p \in Phases |-> 0]
      /\ UNCHANGED <<registry, nextId, offs, pass, rows, takenOff>>
  BY DEF EndTick
<1>2. /\ TickTypeOK /\ IdsKept /\ RowsApart /\ registry \in Seq(Registered) /\ Len(registry) \in Nat
      /\ LongMs \in Nat /\ 0 \in Phases
  <2>1. TickTypeOK /\ IdsKept /\ RowsApart
    BY DEF TickInv
  <2>2. registry \in Seq(Registered)
    BY <2>1 DEF TickTypeOK
  <2>3. LongMs \in Nat /\ 0 \in Phases
    BY Ticks
  <2> QED BY <2>1, <2>2, <2>3
<1>3. TickTypeOK'
  <2>1. at' \in 0 .. Len(registry) /\ spent' \in 0 .. LongMs /\ runsOf' \in [Ids -> Nat]
        /\ began' \in [Phases -> 0 .. LongMs]
    BY <1>1, <1>2
  <2> QED BY <1>1, <1>2, <2>1 DEF TickTypeOK
<1>4. IdsKept'
  <2>1. offs = <<>>
    BY <1>1, <1>2 DEF IdsKept
  <2> QED BY <1>1, <1>2, <2>1 DEF IdsKept
<1>5. WalkKept'
  <2>1. Passed(registry, 0) = {}
    BY DEF Passed
  <2>2. ASSUME NEW q \in ToCome(registry, 0) PROVE runsOf'[q.id] = 0
    <3>1. \A i \in 0 + 1 .. Len(registry) : registry[i] \in Registered
      BY <1>2
    <3>2. q.id \in Ids
      BY <3>1 DEF ToCome, Registered
    <3> QED BY <1>1, <3>2
  <2>3. \A id \in Ids : runsOf'[id] = 0 /\ runsOf'[id] <= 1
    BY <1>1
  <2> QED BY <1>1, <2>1, <2>2, <2>3 DEF WalkKept, InStep
<1>6. ShareKept' /\ RowsApart'
  BY <1>1, <1>2 DEF ShareKept, RowsApart
<1> QED BY <1>3, <1>4, <1>5, <1>6 DEF TickInv

LEMMA TickStutters ==
  ASSUME TickInv, UNCHANGED tickVars
  PROVE  TickInv'
<1>1. UNCHANGED <<registry, nextId, offs, phaseAt, at, spent, pass, pc, rows, runsOf, began, takenOff>>
  BY DEF tickVars
<1>2. TickTypeOK' /\ IdsKept'
  BY <1>1 DEF TickInv, TickTypeOK, IdsKept, Distinct
<1>3. WalkKept'
  BY <1>1 DEF TickInv, WalkKept, Passed, ToCome, InStep
<1>4. Reach' = Reach /\ Share' = Share
  BY <1>1, ReachSame
<1>5. ShareKept'
  BY <1>1, <1>4 DEF TickInv, ShareKept, FirstPhase, Cost
<1>6. RowsApart'
  BY <1>1 DEF TickInv, RowsApart
<1> QED BY <1>2, <1>3, <1>5, <1>6 DEF TickInv

LEMMA TickNextKeeps ==
  ASSUME TickAssumption, TickInv, TickNext
  PROVE  TickInv'
<1>1. CASE \E p \in Phases, name \in Names : OnTick(p, name)
  BY <1>1, OnTickKeeps
<1>2. CASE \E id \in Ids : OffTick(id) \/ AskOff(id)
  BY <1>2, OffTickKeeps, AskOffKeeps
<1>3. CASE Run
  BY <1>3, RunKeeps
<1>4. CASE Skip
  BY <1>4, SkipKeeps
<1>5. CASE Step
  BY <1>5, StepKeeps
<1>6. CASE BeginPass
  BY <1>6, BeginPassKeeps
<1>7. CASE \E cost \in 0 .. MaxCost, did \in BOOLEAN : Visit(cost, did)
  BY <1>7, VisitKeeps
<1>8. CASE EndPass
  BY <1>8, EndPassKeeps
<1>9. CASE EndStep
  BY <1>9, EndStepKeeps
<1>10. CASE EndPhase
  BY <1>10, EndPhaseKeeps
<1>11. CASE EndTick
  BY <1>11, EndTickKeeps
<1> QED BY <1>1, <1>2, <1>3, <1>4, <1>5, <1>6, <1>7, <1>8, <1>9, <1>10, <1>11 DEF TickNext

LEMMA WalkedOnce ==
  ASSUME TickAssumption, TickInv
  PROVE  TickTypeOK /\ EachStepOnce /\ ShareHeldBack /\ RowsApart
<1>1. TickTypeOK /\ WalkKept /\ ShareKept /\ RowsApart
  BY DEF TickInv
<1>2. EachStepOnce
  <2>1. \A i \in 1 .. at : registry[i] \in Passed(registry, at)
    BY DEF Passed
  <2>2. \A i \in at + 1 .. Len(registry) : registry[i] \in ToCome(registry, at)
    BY DEF ToCome
  <2>3. \A id \in Ids : runsOf[id] <= 1
    BY <1>1 DEF WalkKept
  <2>4. \A i \in 1 .. at : registry[i].phase = phaseAt => runsOf[registry[i].id] = 1
    BY <1>1, <2>1 DEF WalkKept
  <2>5. \A i \in at + 1 .. Len(registry) : registry[i].phase >= phaseAt => runsOf[registry[i].id] = 0
    BY <1>1, <2>2 DEF WalkKept
  <2> QED BY <2>3, <2>4, <2>5 DEF EachStepOnce
<1>3. ShareHeldBack
  <2>1. phaseAt = 1 /\ pc # "idle" /\ takenOff = {} => began[1] <= Reach
    BY <1>1 DEF ShareKept
  <2> QED BY <2>1 DEF ShareHeldBack, Reach, Share
<1> QED BY <1>1, <1>2, <1>3

\* Only the walk runs a step, and only one registered.
LEMMA GoneRest ==
  ASSUME TickAssumption, TickInv, [TickNext]_tickVars
  PROVE  \A id \in takenOff : runsOf'[id] <= runsOf[id]
<1> SUFFICES ASSUME NEW id \in takenOff PROVE runsOf'[id] <= runsOf[id]
  OBVIOUS
<1>1. /\ IdsKept /\ id \in Ids /\ runsOf \in [Ids -> Nat] /\ registry \in Seq(Registered)
      /\ at \in 0 .. Len(registry)
  BY DEF TickInv, TickTypeOK
<1>2. runsOf[id] \in Nat
  BY <1>1
<1>3. CASE runsOf' = runsOf
  BY <1>2, <1>3
<1>4. CASE Step
  <2>1. at < Len(registry) /\ runsOf' = [runsOf EXCEPT ![registry[at + 1].id] = @ + 1]
    BY <1>4 DEF Step
  <2>2. at + 1 \in 1 .. Len(registry)
    BY <1>1, <2>1
  <2>3. registry[at + 1].id # id
    BY <1>1, <2>2 DEF IdsKept
  <2>4. runsOf'[id] = runsOf[id]
    BY <1>1, <2>1, <2>3
  <2> QED BY <1>2, <2>4
<1>5. CASE EndTick
  <2>1. runsOf'[id] = 0
    BY <1>1, <1>5 DEF EndTick
  <2> QED BY <1>2, <2>1
<1>6. runsOf' = runsOf \/ Step \/ EndTick
  BY DEF TickNext, tickVars, OnTick, OffTick, AskOff, Run, Skip, BeginPass, Visit, EndPass, EndStep, EndPhase
<1> QED BY <1>3, <1>4, <1>5, <1>6

(***************************************************************************)
(* Whatever steps register and take off as the tick walks them, each runs  *)
(* once in its phase, none that is gone runs again, and the first phase    *)
(* leaves the share held back for the next, but for a pass's slack and one *)
(* item for each of its steps (Tick::operator(), Pass).                    *)
(***************************************************************************)
THEOREM StepsRunOnceHolds == TickAssumption => (TickSpec => StepsRunOnce)
<1> SUFFICES ASSUME TickAssumption PROVE TickSpec => StepsRunOnce
  OBVIOUS
<1>1. TickInit => TickInv
  BY TickStarts
<1>2. TickInv /\ [TickNext]_tickVars => TickInv'
  BY TickNextKeeps, TickStutters
<1>3. TickInv => TickTypeOK /\ EachStepOnce /\ ShareHeldBack /\ RowsApart
  BY WalkedOnce
<1>4. TickInv /\ [TickNext]_tickVars => \A id \in takenOff : runsOf'[id] <= runsOf[id]
  BY GoneRest
<1>5. TickInv /\ [TickNext]_tickVars => [\A id \in takenOff : runsOf'[id] <= runsOf[id]]_tickVars
  BY <1>4
<1> QED BY <1>1, <1>2, <1>3, <1>5, PTL DEF TickSpec, StepsRunOnce, GoneNeverRuns
=============================================================================
