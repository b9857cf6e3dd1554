----------------------------- MODULE Collections -----------------------------
(***************************************************************************)
(* The kit's collections (kit collection/arena.hpp, deque.hpp, heap.hpp,   *)
(* list.hpp), each beside what it stands for: `abs`, the values it holds,  *)
(* in order where it keeps one.  A behaviour is one collection's, `which`. *)
(***************************************************************************)
EXTENDS Integers, Sequences, FiniteSets, Bags

LOCAL INSTANCE SequencesExt

CONSTANTS
  Room,    \* slots of a deque, a list, the most a heap holds here
  Keys,    \* values, and a heap's keys
  Caps,    \* the most an arena may hold, as it is told
  Wide     \* the largest number a length holds, 2^32 - 1

VARIABLES
  which,  \* "arena", "deque", "heap" or "list"
  buf,    \* the slots, from 0
  head,   \* a deque's first slot
  len,
  cap,    \* an arena's capacity, and the most it may have
  maxCap,
  marks,  \* an arena's open scopes, innermost last
  out,    \* what the last operation took out
  abs     \* what the collection stands for

collectionVars == <<which, buf, head, len, cap, maxCap, marks, out, abs>>
arenaVars == <<cap, maxCap, marks>>

Empty == -1   \* what a slot nothing is built in holds: no key
Places == 0 .. Room - 1
Lesser(a, b)  == IF a <= b THEN a ELSE b
Greater(a, b) == IF a >= b THEN a ELSE b

CollectionsInit ==
  /\ which \in {"arena", "deque", "heap", "list"}
  /\ buf = [s \in Places |-> Empty]
  /\ head = 0
  /\ len = 0
  /\ maxCap \in IF which = "arena" THEN Caps ELSE {0}
  /\ cap = Lesser(1, maxCap)
  /\ marks = <<>>
  /\ out = Empty
  /\ abs = <<>>
-----------------------------------------------------------------------------
\* arena.hpp.  The values an arena's slots hold are its user's: `abs` is not kept.

\* Doubling stops at the most, and gives what is asked at least.
Doubled(req) ==
  Greater(req, Lesser(IF cap > maxCap \div 2 THEN maxCap ELSE cap * 2, maxCap))

\* Mutant of Fits: the limit is one that may be reached past.
FitsOneMore(req) == req <= Greater(cap, maxCap) + 1

Fits(req) == req <= Greater(cap, maxCap)

Grow(req) == cap' = IF req <= cap \/ req > maxCap THEN cap ELSE Doubled(req)

ArenaAlloc ==
  /\ which = "arena"
  /\ IF len < cap THEN UNCHANGED cap ELSE Grow(len + 1)
  /\ len' = IF len < cap \/ Fits(len + 1) THEN len + 1 ELSE len
  /\ UNCHANGED <<which, buf, head, maxCap, marks, out, abs>>

Saturated(n) == Lesser(n, Wide)

ArenaReserve(cnt) ==
  /\ which = "arena"
  /\ Grow(Saturated(len + cnt))
  /\ UNCHANGED <<which, buf, head, len, maxCap, marks, out, abs>>

\* Down to no less than the innermost scope's mark, which is its own to pass.
ArenaTruncate(n) ==
  /\ which = "arena"
  /\ n <= len
  /\ marks # <<>> => n >= marks[Len(marks)]
  /\ len' = n
  /\ UNCHANGED <<which, buf, head, cap, maxCap, marks, out, abs>>

SetMaxCap(n) ==
  /\ which = "arena"
  /\ maxCap' = n
  /\ UNCHANGED <<which, buf, head, len, cap, marks, out, abs>>

OpenScope ==
  /\ which = "arena"
  /\ Len(marks) < 2
  /\ marks' = Append(marks, len)
  /\ UNCHANGED <<which, buf, head, len, cap, maxCap, out, abs>>

CloseScope ==
  /\ which = "arena"
  /\ marks # <<>>
  /\ len' = marks[Len(marks)]
  /\ marks' = Front(marks)
  /\ UNCHANGED <<which, buf, head, cap, maxCap, out, abs>>

Arena ==
  \/ ArenaAlloc
  \/ \E n \in 0 .. Wide : ArenaReserve(n) \/ ArenaTruncate(n)
  \/ \E n \in Caps : SetMaxCap(n)
  \/ OpenScope
  \/ CloseScope
-----------------------------------------------------------------------------
\* deque.hpp, of a capacity that is no power of two.

At(i) == (head + i) % Room

PushBack(v) ==
  /\ which = "deque"
  /\ len < Room
  /\ buf' = [buf EXCEPT ![At(len)] = v]
  /\ len' = len + 1
  /\ abs' = Append(abs, v)
  /\ UNCHANGED <<which, head, out>>
  /\ UNCHANGED arenaVars

\* Mutants of Before: the head stops at slot 0; it steps past the slots' end.
BeforeUnwrapped == IF head = 0 THEN 0 ELSE head - 1
BeforeUnreduced == head + Room - 1

Before == (head + Room - 1) % Room

PushFront(v) ==
  /\ which = "deque"
  /\ len < Room
  /\ head' = Before
  /\ buf' = [buf EXCEPT ![Before] = v]
  /\ len' = len + 1
  /\ abs' = <<v>> \o abs
  /\ UNCHANGED <<which, out>>
  /\ UNCHANGED arenaVars

PopFront ==
  /\ which = "deque"
  /\ len > 0
  /\ out' = buf[head]
  /\ buf' = [buf EXCEPT ![head] = Empty]
  /\ head' = At(1)
  /\ len' = len - 1
  /\ abs' = Tail(abs)
  /\ UNCHANGED which
  /\ UNCHANGED arenaVars

PopBack ==
  /\ which = "deque"
  /\ len > 0
  /\ out' = buf[At(len - 1)]
  /\ buf' = [buf EXCEPT ![At(len - 1)] = Empty]
  /\ len' = len - 1
  /\ abs' = Front(abs)
  /\ UNCHANGED <<which, head>>
  /\ UNCHANGED arenaVars

ClearDeque ==
  /\ which = "deque"
  /\ buf' = [s \in Places |-> IF \E i \in 0 .. len - 1 : s = At(i) THEN Empty ELSE buf[s]]
  /\ head' = 0
  /\ len' = 0
  /\ abs' = <<>>
  /\ UNCHANGED <<which, out>>
  /\ UNCHANGED arenaVars

Deque ==
  \/ \E v \in Keys : PushBack(v) \/ PushFront(v)
  \/ PopFront
  \/ PopBack
  \/ ClearDeque
-----------------------------------------------------------------------------
\* heap.hpp, the smallest key first; a heap is a function from 0 here.

\* Mutant of Heapify: the left child is always the one moved up.
RECURSIVE HeapifyLeft(_, _, _, _)
HeapifyLeft(a, i, sz, e) ==
  LET l == 2 * i + 1
  IN  IF l >= sz \/ ~ a[l] < e THEN [a EXCEPT ![i] = e]
      ELSE HeapifyLeft([a EXCEPT ![i] = a[l]], l, sz, e)

\* Mutant of Heapify: the hole goes down one level only.
HeapifyOnce(a, i, sz, e) ==
  LET l == 2 * i + 1
      c == IF l + 1 < sz /\ a[l + 1] < a[l] THEN l + 1 ELSE l
  IN  IF l >= sz \/ ~ a[c] < e THEN [a EXCEPT ![i] = e] ELSE [a EXCEPT ![i] = a[c], ![c] = e]

\* The element `e`, down from a hole at `i`: the child ahead of it moves up.
RECURSIVE Heapify(_, _, _, _)
Heapify(a, i, sz, e) ==
  LET l == 2 * i + 1
      c == IF l + 1 < sz /\ a[l + 1] < a[l] THEN l + 1 ELSE l
  IN  IF l >= sz \/ ~ a[c] < e THEN [a EXCEPT ![i] = e]
      ELSE Heapify([a EXCEPT ![i] = a[c]], c, sz, e)

\* The element up from a hole at `i`: parents behind it move down.
RECURSIVE Lifted(_, _, _)
Lifted(a, i, e) ==
  LET p == (i - 1) \div 2
  IN  IF i = 0 \/ ~ e < a[p] THEN [a EXCEPT ![i] = e]
      ELSE Lifted([a EXCEPT ![i] = a[p]], p, e)

Built(a, sz) ==
  LET From[i \in 0 .. sz \div 2] ==
        IF i = sz \div 2 THEN a
        ELSE Heapify(From[i + 1], i, sz, From[i + 1][i])
  IN  From[0]

PushHeap(k) ==
  /\ which = "heap"
  /\ len < Room
  /\ buf' = Lifted(buf, len, k)
  /\ len' = len + 1
  /\ abs' = Append(abs, k)
  /\ UNCHANGED <<which, head, out>>
  /\ UNCHANGED arenaVars

\* The last element goes down from the root.
PopHeap ==
  /\ which = "heap"
  /\ len > 0
  /\ out' = buf[0]
  /\ len' = len - 1
  /\ buf' = LET shrunk == [buf EXCEPT ![len - 1] = Empty]
            IN  IF len = 1 THEN shrunk ELSE Heapify(shrunk, 0, len - 1, buf[len - 1])
  /\ abs' = RemoveFirst(abs, buf[0])
  /\ UNCHANGED <<which, head>>
  /\ UNCHANGED arenaVars

ReplaceRoot(k) ==
  /\ which = "heap"
  /\ len > 0
  /\ out' = buf[0]
  /\ buf' = Heapify(buf, 0, len, k)
  /\ abs' = Append(RemoveFirst(abs, buf[0]), k)
  /\ UNCHANGED <<which, head, len>>
  /\ UNCHANGED arenaVars

\* Any array, made a heap.
Build(a) ==
  /\ which = "heap"
  /\ len = 0
  /\ buf' = Built(a, Room)
  /\ len' = Room
  /\ abs' = [i \in 1 .. Room |-> a[i - 1]]
  /\ UNCHANGED <<which, head, out>>
  /\ UNCHANGED arenaVars

HeapStep ==
  \/ \E k \in Keys : PushHeap(k) \/ ReplaceRoot(k)
  \/ PopHeap
  \/ \E a \in [Places -> Keys] : Build(a)

\* heapsort, by a heap of the other order: keys negated, then restored.
Sorted(a) ==
  LET neg   == [s \in Places |-> - a[s]]
      Down[end \in 1 .. Room] ==
        IF end = Room THEN Built(neg, Room)
        ELSE LET b == Down[end + 1]
                 w == [b EXCEPT ![0] = b[end], ![end] = b[0]]
             IN  Heapify(w, 0, end, w[0])
  IN  [s \in Places |-> - Down[1][s]]
-----------------------------------------------------------------------------
\* list.hpp: slots built by what puts a value in, ended by what takes it out.

PushList(v) ==
  /\ which = "list"
  /\ len < Room
  /\ buf' = [buf EXCEPT ![len] = v]
  /\ len' = len + 1
  /\ abs' = Append(abs, v)
  /\ UNCHANGED <<which, head, out>>
  /\ UNCHANGED arenaVars

RemoveList(at) ==
  /\ which = "list"
  /\ at < len
  /\ out' = buf[at]
  /\ buf' = [s \in Places |->
       CASE s \in at .. len - 2 -> buf[s + 1]
         [] s = len - 1 -> Empty
         [] OTHER -> buf[s]]
  /\ len' = len - 1
  /\ abs' = RemoveAt(abs, at + 1)
  /\ UNCHANGED <<which, head>>
  /\ UNCHANGED arenaVars

Moved(a, from, to) == IF from = to THEN a ELSE [a EXCEPT ![to] = a[from], ![from] = Empty]

\* One pass: what is kept moves down to the next kept place.
Retain(keep) ==
  /\ which = "list"
  /\ LET Pass[at \in 0 .. len] ==
           IF at = 0 THEN [buf |-> buf, kept |-> 0]
           ELSE LET w == Pass[at - 1]
                IN  IF buf[at - 1] \in keep
                      THEN [buf |-> Moved(w.buf, at - 1, w.kept), kept |-> w.kept + 1]
                      ELSE [w EXCEPT !.buf[at - 1] = Empty]
     IN  /\ buf' = Pass[len].buf
         /\ len' = Pass[len].kept
  /\ abs' = SelectSeq(abs, LAMBDA v : v \in keep)
  /\ UNCHANGED <<which, head, out>>
  /\ UNCHANGED arenaVars

ClearList ==
  /\ which = "list"
  /\ buf' = [s \in Places |-> IF s < len THEN Empty ELSE buf[s]]
  /\ len' = 0
  /\ abs' = <<>>
  /\ UNCHANGED <<which, head, out>>
  /\ UNCHANGED arenaVars

List ==
  \/ \E v \in Keys : PushList(v)
  \/ ClearList
  \/ \E at \in Places : RemoveList(at)
  \/ \E keep \in SUBSET Keys : Retain(keep)

CollectionsNext == Arena \/ Deque \/ HeapStep \/ List

CollectionsSpec == CollectionsInit /\ [][CollectionsNext]_collectionVars
-----------------------------------------------------------------------------
CollectionsTypeOK ==
  /\ which \in {"arena", "deque", "heap", "list"}
  /\ buf \in [Places -> Keys \cup {Empty}]
  /\ head \in Places
  /\ which # "arena" => len \in 0 .. Room
  /\ cap \in 0 .. Wide

(***************************************************************************)
(* A deque and a list hold what was put in them and not taken out, in      *)
(* order; and a slot that holds none of it is empty, whatever the deque    *)
(* has wrapped to or the list has moved down.                              *)
(***************************************************************************)
KeepsOrder ==
  which \in {"deque", "list"} =>
    /\ Len(abs) = len
    /\ \A i \in 0 .. len - 1 : buf[At(i)] = abs[i + 1]
    /\ \A i \in len .. Room - 1 : buf[At(i)] = Empty

BagOf(s) == [v \in Range(s) |-> Cardinality({i \in DOMAIN s : s[i] = v})]

(***************************************************************************)
(* A heap holds what was put in and not taken out, and its root is ahead   *)
(* of all: what a pop gives is the least there was.                        *)
(***************************************************************************)
HeapHolds ==
  which = "heap" =>
    /\ BagOf([i \in 1 .. len |-> buf[i - 1]]) = BagOf(abs)
    /\ \A i \in 1 .. len - 1 : ~ buf[i] < buf[(i - 1) \div 2]
    /\ len > 0 => \A i \in DOMAIN abs : buf[0] <= abs[i]

\* Sorting an array by a heap built in it orders it, and loses nothing.
SortsAll ==
  which = "heap" /\ len = Room =>
    LET s == Sorted(buf)
    IN  /\ \A i, j \in Places : i <= j => s[i] <= s[j]
        /\ BagOf([i \in 1 .. Room |-> s[i - 1]]) = BagOf([i \in 1 .. Room |-> buf[i - 1]])

(***************************************************************************)
(* An arena's cursor stays in what it has grown to, and past the mark of   *)
(* every scope open in it: caps moved and requests near the widest number  *)
(* meanwhile.                                                              *)
(***************************************************************************)
ArenaBounds ==
  which = "arena" =>
    /\ len <= cap
    /\ \A i \in DOMAIN marks : marks[i] <= len
=============================================================================
