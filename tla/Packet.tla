------------------------------- MODULE Packet -------------------------------
(***************************************************************************)
(* XTP, a relocatable packet of one tree (kit wire/xtp): the writer that   *)
(* fills bytes its caller holds (encode.cpp), the tree encoder over it     *)
(* (view.hpp), and the cursors that read a packet where it lies            *)
(* (cursor.cpp).                                                           *)
(*                                                                         *)
(* A byte is a number; what is stored here is below 256, so a wider number *)
(* is its low byte and zeros.  A tree's node is [type, has, val]: `has` is *)
(* FALSE for a null, and `val` is a sequence of what it carries.           *)
(***************************************************************************)
EXTENDS Integers, Sequences, FiniteSets

LOCAL INSTANCE SequencesExt

CONSTANTS
  BufferSizes,  \* sizes of the buffers a caller gives
  Leaves,       \* the leaves it writes,
  WideLeaves,   \* and those under a branch of more than two children
  MostNodes,    \* nodes it writes into one packet, one more under such a branch
  MostKids,     \* children it says a branch has
  Damages       \* bytes a packet may be damaged to hold

PacketAssumption ==
  /\ BufferSizes \subseteq Nat
  /\ MostNodes \in Nat /\ MostKids \in Nat
  /\ Damages \subseteq 0 .. 255

VARIABLES
  w,       \* the writer: its buffer, open branches, limit and first error
  calls,   \* the trees written so far, by open branch, the root's last
  pkt,     \* what a reader is given: its bytes, and the tree they were written for
  old      \* a packet finished before, to be grafted

packetVars == <<w, calls, pkt, old>>

Magic == 88
WordSz == 8
HdrSz == 16
Far == 2^20      \* any number past every packet's end
Stale == 119     \* what a buffer holds before it is written
-----------------------------------------------------------------------------
\* spec.hpp: a type's bits.

IsLeaf(t)   == t >= 128
IsSeq(t)    == IsLeaf(t) /\ (t \div 32) % 2 = 1
Class(t)    == (t \div 8) % 4
Arg(t)      == t % 8
IsNonnum(t) == IsLeaf(t) /\ Class(t) = 3

IntType(log2, signed) == 128 + (IF signed THEN 8 ELSE 0) + log2
FloatType(log2)       == 128 + 16 + log2
NonnumType(x)         == 128 + 24 + x

Numbers     == {IntType(l, s) : l \in 0 .. 3, s \in BOOLEAN} \cup {FloatType(2), FloatType(3)}
Boolean     == NonnumType(0)
ScalarTypes == Numbers \cup {Boolean}
Bitset      == 32 + NonnumType(0)
Str         == 32 + NonnumType(1)
Strs        == 32 + NonnumType(2)
ArrayTypes  == {32 + t : t \in Numbers}
Nil         == 0
Branch      == 32
Graft       == 64   \* never on the wire

\* Mutant of TypeIsKnown: a class's widths are not looked at.
TypeIsKnownAnyWidth(t) ==
  t \in {Nil, Branch} \/ (IsLeaf(t) /\ (t \div 64) % 2 = 0)

TypeIsKnown(t) ==
  \/ t \in {Nil, Branch}
  \/ /\ IsLeaf(t)
     /\ (t \div 64) % 2 = 0
     /\ CASE Class(t) = 2 -> Arg(t) \in {2, 3}
          [] Class(t) = 3 -> Arg(t) <= (IF IsSeq(t) THEN 2 ELSE 0)
          [] OTHER -> Arg(t) <= 3

ScalarSize(t) == IF t = Boolean THEN 1 ELSE 2^Arg(t)
ElemSz(t) == IF t = Strs THEN 4 ELSE IF IsNonnum(t) THEN 1 ELSE 2^Arg(t)

\* What a node's start is a multiple of; 0 for a type no node has.
AlignSz(t) ==
  IF t = Branch \/ IsSeq(t) THEN WordSz
  ELSE IF t \in ScalarTypes THEN ScalarSize(t) ELSE 0

AlignUp(n, unit) == ((n + unit - 1) \div unit) * unit
WordUp(n) == AlignUp(n, WordSz)

Store(b, p, width, x) ==
  [i \in DOMAIN b |-> IF i = p THEN x ELSE IF i > p /\ i < p + width THEN 0 ELSE b[i]]
Load(b, p, width) ==
  IF \A i \in p + 1 .. p + width - 1 : b[i] = 0 THEN b[p] ELSE Far
SetWord(b, off, lo, hi) == Store(Store(b, off, 4, lo), off + 4, 4, hi)
Zeroed(b, from, to) == [i \in DOMAIN b |-> IF i >= from /\ i < to THEN 0 ELSE b[i]]

\* The bytes of `xs`, each of `width`, from `p`.
StoreAll(b, p, width, xs) ==
  [i \in DOMAIN b |->
    IF i < p \/ i >= p + width * Len(xs) THEN b[i]
    ELSE IF (i - p) % width = 0 THEN xs[(i - p) \div width + 1] ELSE 0]

NoLen == -1   \* a refused one
GetLen(b, off) == IF Load(b, off + 4, 4) # 0 THEN NoLen ELSE Load(b, off, 4)

\* A child's entry or the root's word: type -1 where it is refused.
GetDesc(b, off) ==
  LET t == Load(b, off + 4, 4)
  IN  [off |-> Load(b, off, 4), type |-> IF TypeIsKnown(t) /\ t < 256 THEN t ELSE -1]
-----------------------------------------------------------------------------
\* encode.cpp.  A writer's step gives the writer and where the node was laid,
\* 0 for none: no node starts there.

NewWriter(buf) ==
  [buf |-> IF Cardinality(DOMAIN buf) < HdrSz THEN buf ELSE Zeroed(buf, 0, HdrSz),
   frames |-> <<[base |-> 0, cnt |-> 1, written |-> 0, root |-> TRUE]>>,
   rootType |-> Nil, lim |-> HdrSz,
   err |-> IF Cardinality(DOMAIN buf) < HdrSz THEN "einval" ELSE "none"]

Size(wr) == Cardinality(DOMAIN wr.buf)
Frame(wr) == Last(wr.frames)

\* The first reason only.
Spoil(wr, err) == [w |-> [wr EXCEPT !.err = IF @ = "none" THEN err ELSE @], at |-> 0]
Laid(wr, at) == [w |-> wr, at |-> at]

\* Mutant of Reserve: what is skipped to align is left as it was.
ReserveStale(wr, unit, bytes) ==
  LET base == AlignUp(wr.lim, unit)
  IN  IF wr.err # "none" THEN Laid(wr, 0)
      ELSE IF base + bytes > Size(wr) THEN Spoil(wr, "eoverflow")
      ELSE Laid([wr EXCEPT !.buf = Zeroed(@, base + bytes, base + bytes), !.lim = base + bytes], base)

Reserve(wr, unit, bytes) ==
  LET base == AlignUp(wr.lim, unit)
  IN  IF wr.err # "none" THEN Laid(wr, 0)
      ELSE IF base + bytes > Size(wr) THEN Spoil(wr, "eoverflow")
      ELSE Laid([wr EXCEPT !.buf = Zeroed(@, wr.lim, base + bytes), !.lim = base + bytes], base)

\* Mutant of Entry: the entry holds where the node is in the packet.
EntryAbsolute(r, type) ==
  LET f == Frame(r.w)
      entered == IF f.root \/ r.w.err # "none" THEN r.w.buf
                 ELSE SetWord(r.w.buf, f.base + WordSz + f.written * WordSz, r.at, type)
  IN  [r.w EXCEPT !.rootType = IF f.root THEN type ELSE @, !.buf = entered,
                  !.frames[Len(r.w.frames)].written = @ + 1]

\* The node laid, or none, is the open branch's next child.
Entry(r, type) ==
  LET f == Frame(r.w)
      entered == IF f.root \/ r.w.err # "none" THEN r.w.buf
                 ELSE SetWord(r.w.buf, f.base + WordSz + f.written * WordSz,
                              IF r.at # 0 THEN r.at - f.base ELSE 0, type)
  IN  [r.w EXCEPT !.rootType = IF f.root THEN type ELSE @, !.buf = entered,
                  !.frames[Len(r.w.frames)].written = @ + 1]

\* `fill` of the bytes where the node was laid.
Filled(r, fill(_, _)) == IF r.at = 0 THEN r ELSE [r EXCEPT !.w.buf = fill(@, r.at)]

Seq8(wr, len, bytes) ==
  Filled(Reserve(wr, WordSz, WordSz + WordUp(bytes)), LAMBDA b, at : SetWord(b, at, len, 0))

PutScalar(wr, n) ==
  Filled(Reserve(wr, ScalarSize(n.type), ScalarSize(n.type)),
         LAMBDA b, at : Store(b, at, ScalarSize(n.type), n.val[1]))

PutArray(wr, n) ==
  Filled(Seq8(wr, Len(n.val), Len(n.val) * ElemSz(n.type)),
         LAMBDA b, at : StoreAll(b, at + WordSz, ElemSz(n.type), n.val))

\* Bits packed, the low first.
Packed(bits) ==
  [k \in 1 .. (Len(bits) + 7) \div 8 |->
    FoldFunctionOnSet(+, 0, [i \in DOMAIN bits |-> IF bits[i] # 0 THEN 2^((i - 1) % 8) ELSE 0],
                      {i \in DOMAIN bits : (i - 1) \div 8 = k - 1})]

PutBitset(wr, n) ==
  Filled(Seq8(wr, Len(n.val), (Len(n.val) + 7) \div 8),
         LAMBDA b, at : StoreAll(b, at + WordSz, 1, Packed(n.val)))

StrPayload(wr) == WordUp(wr.lim) + WordSz

\* Written where it will lie, then committed: its length, and a NUL after it.
PutStr(wr, n) ==
  LET payload == StrPayload(wr)
      end  == WordUp(payload + Len(n.val) + 1)
      base == payload - WordSz
      put(b) == SetWord(Zeroed(Zeroed(StoreAll(b, payload, 1, n.val), wr.lim, base),
                               payload + Len(n.val), end), base, Len(n.val), 0)
  IN  IF wr.err # "none" THEN Laid(wr, 0)
      ELSE IF payload > Size(wr) \/ Len(n.val) > Size(wr) - payload \/ end > Size(wr)
        THEN Spoil(wr, "eoverflow")
      ELSE Laid([wr EXCEPT !.buf = put(@), !.lim = end], base)

\* Where each string starts in the text of them all, and where the last ends.
Offsets(strs) == [i \in 1 .. Len(strs) + 1 |-> Len(FlattenSeq(SubSeq(strs, 1, i - 1)))]

PutStrs(wr, n) ==
  LET lane == 4 * (Len(n.val) + 1)
      text == FlattenSeq(n.val)
  IN  Filled(Seq8(wr, Len(n.val), lane + Len(text)),
             LAMBDA b, at : StoreAll(StoreAll(b, at + WordSz, 4, Offsets(n.val)),
                                     at + WordSz + lane, 1, text))

Lay(wr, n) ==
  CASE ~ n.has -> Laid(wr, 0)
    [] n.type \in ScalarTypes -> PutScalar(wr, n)
    [] n.type \in ArrayTypes  -> PutArray(wr, n)
    [] n.type = Bitset -> PutBitset(wr, n)
    [] n.type = Str    -> PutStr(wr, n)
    [] n.type = Strs   -> PutStrs(wr, n)

PutLeaf(wr, n) == Entry(Lay(wr, n), n.type)

OpenBranch(wr, cnt) ==
  LET r == Filled(Reserve(wr, WordSz, WordSz + cnt * WordSz),
                  LAMBDA b, at : SetWord(b, at, cnt, 0))
  IN  [r.w EXCEPT !.frames = Append(@, [base |-> r.at, cnt |-> cnt, written |-> 0, root |-> FALSE])]

\* A branch ends on a word.
CloseBranch(wr) ==
  LET at  == Frame(wr).base
      out == [wr EXCEPT !.frames = Front(@)]
      end == WordUp(wr.lim)
  IN  Entry(IF at = 0 \/ wr.err # "none" THEN Laid(out, at)
            ELSE IF end > Size(wr) THEN Spoil(out, "eoverflow")
            ELSE Laid([out EXCEPT !.buf = Zeroed(@, wr.lim, end), !.lim = end], at), Branch)

\* A packet's root, its payload copied.
PutGraft(wr, b) ==
  LET d == GetDesc(b, WordSz)
      n == Cardinality(DOMAIN b)
      unit == AlignSz(d.type)
  IN  IF n < HdrSz \/ GetLen(b, 0) # Magic \/ d.type = -1
        THEN Entry(Spoil(wr, "ebadmsg"), Nil)
      ELSE IF d.off > n - HdrSz THEN Entry(Spoil(wr, "ebadmsg"), d.type)
      ELSE IF d.off = 0 THEN Entry(Laid(wr, 0), d.type)
      ELSE IF unit = 0 \/ d.off % unit # 0 THEN Entry(Spoil(wr, "ebadmsg"), d.type)
      ELSE Entry(Filled(Reserve(wr, unit, d.off),
                        LAMBDA to, at : StoreAll(to, at, 1, [i \in 1 .. d.off |-> b[HdrSz + i - 1]])),
                 d.type)

Refused(err) == [err |-> err, bytes |-> << >>]
Finished(wr) ==
  LET end == WordUp(wr.lim)
      b == SetWord(SetWord(Zeroed(wr.buf, wr.lim, end), 0, Magic, 0),
                   WordSz, wr.lim - HdrSz, wr.rootType)
  IN  IF wr.err # "none" THEN Refused(wr.err)
      ELSE IF end > Size(wr) THEN Refused("eoverflow")
      ELSE [err |-> "none", bytes |-> [i \in 0 .. end - 1 |-> b[i]]]
-----------------------------------------------------------------------------
\* view.hpp: a tree written whole, in a buffer that doubles until it fits.

RECURSIVE Walk(_, _)
Walk(wr, n) ==
  CASE n.type = Graft -> PutGraft(wr, n.val[1].bytes)
    [] n.type = Branch /\ n.has ->
         CloseBranch(FoldLeft(Walk, OpenBranch(wr, Len(n.val)), n.val))
    [] OTHER -> PutLeaf(wr, n)

NextCap(cap, max) == IF cap > max \div 2 THEN max ELSE cap * 2

RECURSIVE EncodeIn(_, _, _)
EncodeIn(tree, cap, max) ==
  LET r == Finished(Walk(NewWriter([i \in 0 .. cap - 1 |-> 0]), tree))
  IN  IF r.err # "eoverflow" \/ cap = max THEN r ELSE EncodeIn(tree, NextCap(cap, max), max)

Encode(tree, init, max) ==
  IF max < HdrSz THEN Refused("einval")
  ELSE EncodeIn(tree, LET c == IF init < max THEN init ELSE max IN IF c < HdrSz THEN HdrSz ELSE c, max)
-----------------------------------------------------------------------------
\* cursor.cpp.  A cursor is [end, base, type, len] in a packet's bytes, its base
\* 0 for an absent node and -1 where the read was refused.

BadCursor == [end |-> 0, base |-> -1, type |-> Nil, len |-> 0]
Cursor(end, base, type, len) == [end |-> end, base |-> base, type |-> type, len |-> len]

CursorAt(b, end, base, type) ==
  LET unit == AlignSz(type)
      len  == GetLen(b, base)
  IN  IF unit = 0 \/ base % unit # 0 THEN BadCursor
      ELSE IF type # Branch THEN Cursor(end, base, type, 0)
      ELSE IF base + WordSz > end \/ len = NoLen \/ len > (end - base - WordSz) \div WordSz
        THEN BadCursor
      ELSE Cursor(end, base, type, len)

EntryOf(c, idx) == c.base + WordSz + idx * WordSz

\* Mutant of EndOf: a sibling that is absent ends the search.
EndOfUnskipped(b, c, idx) ==
  LET at == c.base + Load(b, EntryOf(c, idx + 1), 4)
  IN  IF idx + 1 >= c.len \/ at = c.base \/ at > c.end THEN c.end ELSE at

\* Where child `idx` ends: the next present sibling's base, or the branch's end.
EndOf(b, c, idx) ==
  LET next == {j \in idx + 1 .. c.len - 1 : Load(b, EntryOf(c, j), 4) # 0}
      first == CHOOSE j \in next : \A k \in next : j <= k
      at == c.base + Load(b, EntryOf(c, first), 4)
  IN  IF next = {} \/ at > c.end THEN c.end ELSE at

\* Mutant of ChildAt: a child may start in the table of the children.
ChildAtAnywhere(b, c, idx) ==
  LET d == GetDesc(b, EntryOf(c, idx))
      child == c.base + d.off
      end == EndOf(b, c, idx)
  IN  IF d.type = -1 THEN BadCursor
      ELSE IF d.off = 0 THEN Cursor(c.end, 0, d.type, 0)
      ELSE IF child >= end THEN BadCursor
      ELSE CursorAt(b, end, child, d.type)

ChildAt(b, c, idx) ==
  LET d == GetDesc(b, EntryOf(c, idx))
      child == c.base + d.off
      end == EndOf(b, c, idx)
  IN  IF d.type = -1 THEN BadCursor
      ELSE IF d.off = 0 THEN Cursor(c.end, 0, d.type, 0)
      ELSE IF d.off >= c.end - c.base \/ child < EntryOf(c, c.len) \/ child >= end THEN BadCursor
      ELSE CursorAt(b, end, child, d.type)

Reader(b) ==
  LET n == Cardinality(DOMAIN b)
      d == GetDesc(b, WordSz)
  IN  IF n < HdrSz \/ GetLen(b, 0) # Magic \/ d.type = -1 \/ d.off > n - HdrSz THEN BadCursor
      ELSE IF d.off = 0 THEN Cursor(n, 0, d.type, 0)
      ELSE CursorAt(b, HdrSz + d.off, HdrSz, d.type)

BadNode == [type |-> -1, has |-> FALSE, val |-> << >>]
IsUtf8(s) == \A i \in DOMAIN s : s[i] # 255
Bytes(b, from, n) == [i \in 1 .. n |-> b[from + i - 1]]

ReadScalar(b, c) ==
  IF c.base + ScalarSize(c.type) > c.end THEN BadNode
  ELSE LET x == Load(b, c.base, ScalarSize(c.type))
       IN  [type |-> c.type, has |-> TRUE,
            val |-> <<IF c.type = Boolean /\ x # 0 THEN 1 ELSE x>>]

\* A sequence of `len`, its payload `bytes` long, which must lie in the extent.
ReadSeq(b, c, bytes(_), val(_)) ==
  LET payload == c.base + WordSz
      len == GetLen(b, c.base)
  IN  IF payload > c.end \/ len = NoLen \/ bytes(len) > c.end - payload THEN BadNode
      ELSE [type |-> c.type, has |-> TRUE, val |-> val(len)]

ReadArray(b, c) ==
  ReadSeq(b, c, LAMBDA n : n * ElemSz(c.type),
          LAMBDA n : [i \in 1 .. n |-> Load(b, c.base + WordSz + (i - 1) * ElemSz(c.type), ElemSz(c.type))])

ReadBitset(b, c) ==
  ReadSeq(b, c, LAMBDA n : (n + 7) \div 8,
          LAMBDA n : [i \in 1 .. n |->
            (b[c.base + WordSz + (i - 1) \div 8] \div 2^((i - 1) % 8)) % 2])

\* A NUL after the bytes, which are UTF-8 or refused.
ReadStr(b, c) ==
  LET r == ReadSeq(b, c, LAMBDA n : n + 1, LAMBDA n : Bytes(b, c.base + WordSz, n))
  IN  IF r.type = -1 \/ ~ IsUtf8(r.val) \/ b[c.base + WordSz + Len(r.val)] # 0 THEN BadNode ELSE r

ReadStrs(b, c) ==
  LET payload == c.base + WordSz
      n == GetLen(b, c.base)
      blob == payload + 4 * (n + 1)
      off(i) == Load(b, payload + 4 * i, 4)
      text(i) == Bytes(b, blob + off(i), off(i + 1) - off(i))
  IN  IF payload > c.end \/ n = NoLen \/ blob > c.end THEN BadNode
      ELSE IF off(n) > c.end - blob THEN BadNode
      ELSE IF \E i \in 0 .. n - 1 :
                off(i) > off(i + 1) \/ off(i + 1) > off(n) \/ ~ IsUtf8(text(i)) THEN BadNode
      ELSE [type |-> Strs, has |-> TRUE, val |-> [i \in 1 .. n |-> text(i - 1)]]

Get(b, c) ==
  CASE c.base = -1 -> BadNode
    [] c.base = 0 -> [type |-> c.type, has |-> FALSE, val |-> << >>]
    [] c.type \in ScalarTypes -> ReadScalar(b, c)
    [] c.type \in ArrayTypes  -> ReadArray(b, c)
    [] c.type = Bitset -> ReadBitset(b, c)
    [] c.type = Str    -> ReadStr(b, c)
    [] c.type = Strs   -> ReadStrs(b, c)

\* Whether a cursor reads as a branch.
Branches(c) == c.base > 0 /\ c.type = Branch

RECURSIVE Deep(_, _)
Deep(b, c) ==
  IF ~ Branches(c) THEN Get(b, c)
  ELSE LET kids == [i \in 1 .. c.len |-> Deep(b, ChildAt(b, c, i - 1))]
       IN  IF \E i \in DOMAIN kids : kids[i].type = -1 THEN BadNode
           ELSE [type |-> Branch, has |-> TRUE, val |-> kids]
-----------------------------------------------------------------------------
NoPacket == [bytes |-> << >>, tree |-> BadNode, whole |-> FALSE]

\* Nodes below, counted.
RECURSIVE Count(_)
Count(n) == 1 + (IF n.type = Branch THEN FoldLeft(LAMBDA s, k : s + Count(k), 0, n.val) ELSE 0)
Written == FoldLeft(LAMBDA s, kids : s + FoldLeft(LAMBDA t, k : t + Count(k), 0, kids), Len(calls), calls)

PacketInit ==
  /\ \E size \in BufferSizes : w = NewWriter([i \in 0 .. size - 1 |-> Stale])
  /\ calls = <<<< >>>>
  /\ pkt = NoPacket
  /\ old = NoPacket

Writing == pkt = NoPacket
Wide == Frame(w).cnt > 2
HasRoom ==
  /\ Frame(w).written < Frame(w).cnt
  /\ Written <= (IF Wide THEN MostNodes + 1 ELSE MostNodes)
Called(n) == [calls EXCEPT ![Len(calls)] = Append(@, n)]

WriteLeaf(n) ==
  /\ Writing /\ HasRoom
  /\ w' = PutLeaf(w, n)
  /\ calls' = Called(n)
  /\ UNCHANGED <<pkt, old>>

WriteGraft ==
  /\ Writing /\ HasRoom /\ old # NoPacket
  /\ w' = PutGraft(w, old.bytes)
  /\ calls' = Called([type |-> Graft, has |-> TRUE, val |-> <<old>>])
  /\ UNCHANGED <<pkt, old>>

Open(cnt) ==
  /\ Writing /\ HasRoom
  /\ w' = OpenBranch(w, cnt)
  /\ calls' = Append(calls, << >>)
  /\ UNCHANGED <<pkt, old>>

\* Its `fill` has returned, and written as many as it said.
Close ==
  /\ Writing /\ Len(w.frames) > 1
  /\ Frame(w).written = Frame(w).cnt
  /\ w' = CloseBranch(w)
  /\ calls' = LET kids == Last(calls)
                  up == Front(calls)
              IN  [up EXCEPT ![Len(up)] = Append(@, [type |-> Branch, has |-> TRUE, val |-> kids])]
  /\ UNCHANGED <<pkt, old>>

Finish ==
  /\ Writing /\ Len(w.frames) = 1 /\ Frame(w).written = 1
  /\ pkt' = [bytes |-> Finished(w).bytes, tree |-> calls[1][1], whole |-> TRUE]
  /\ UNCHANGED <<w, calls, old>>

\* Another packet, and the one before may be grafted into it.
Begin(size) ==
  /\ ~ Writing /\ pkt.whole /\ old = NoPacket /\ w.err = "none"
  /\ DOMAIN pkt.bytes # {} /\ Cardinality(DOMAIN pkt.bytes) <= 32
  /\ w' = NewWriter([i \in 0 .. size - 1 |-> Stale])
  /\ calls' = <<<< >>>>
  /\ old' = pkt
  /\ pkt' = NoPacket

\* A reader is given fewer bytes, or one that was not written.
Damage ==
  /\ ~ Writing /\ pkt.whole /\ old = NoPacket
  /\ \E at \in DOMAIN pkt.bytes :
       \/ pkt' = [pkt EXCEPT !.bytes = [i \in 0 .. at - 1 |-> pkt.bytes[i]], !.whole = FALSE]
       \/ \E x \in Damages : pkt' = [pkt EXCEPT !.bytes[at] = x, !.whole = FALSE]
  /\ UNCHANGED <<w, calls, old>>

PacketNext ==
  \/ \E n \in IF Wide THEN WideLeaves ELSE Leaves : WriteLeaf(n)
  \/ WriteGraft
  \/ \E cnt \in 0 .. MostKids : Open(cnt)
  \/ Close
  \/ Finish
  \/ \E size \in BufferSizes : Begin(size)
  \/ Damage

PacketSpec == PacketInit /\ [][PacketNext]_packetVars
-----------------------------------------------------------------------------
\* A known type is one of the enumerated, and every one but nil has an
\* alignment: a node whose entry is read has somewhere to start.
TypesAgree ==
  \A t \in 0 .. 255 :
    /\ TypeIsKnown(t) <=> t \in {Nil, Branch, Bitset, Str, Strs} \cup ScalarTypes \cup ArrayTypes
    /\ TypeIsKnown(t) /\ t # Nil => AlignSz(t) # 0

\* Types, of nodes and of what a writer keeps.
PacketTypeOK ==
  /\ w.lim \in HdrSz .. Size(w) \/ w.err # "none"
  /\ \A i \in DOMAIN w.buf : w.buf[i] \in 0 .. 255
  /\ w.err \in {"none", "einval", "eoverflow", "ebadmsg"}
  /\ Len(w.frames) = Len(calls) /\ \A i \in DOMAIN w.frames : w.frames[i].written = Len(calls[i])
  /\ TypesAgree

\* What a tree says, its grafts' packets read.
RECURSIVE Meaning(_)
Meaning(n) ==
  CASE n.type = Graft -> Meaning(n.val[1].tree)
    [] n.type = Branch /\ n.has -> [n EXCEPT !.val = [i \in DOMAIN n.val |-> Meaning(n.val[i])]]
    [] OTHER -> n

(***************************************************************************)
(* A packet reads back as the tree it was written for: nulls with their    *)
(* types, branches with their children, and a graft as the tree of the     *)
(* packet it carried, wherever it was placed.                              *)
(***************************************************************************)
ReadsBack ==
  pkt.whole /\ pkt.bytes # << >> => Deep(pkt.bytes, Reader(pkt.bytes)) = Meaning(pkt.tree)

(***************************************************************************)
(* "The bytes match the tree encoder's for the same tree" (encode.hpp:4),  *)
(* and the two refuse the same trees: whatever the buffer held before, and *)
(* however often the encoder's had to double.                              *)
(***************************************************************************)
EncodersAgree ==
  pkt.whole => LET e == Encode(pkt.tree, 0, Size(w)) IN e = Finished(w)

(***************************************************************************)
(* Every node a cursor reaches in a packet, damaged or cut short, lies in  *)
(* its parent's extent, past its table, and ends before the next sibling:  *)
(* no read leaves the packet, and no walk comes back to where it was.      *)
(***************************************************************************)
RECURSIVE Within(_, _, _, _)
Within(b, c, from, to) ==
  c.base > 0 =>
    /\ from <= c.base /\ c.base < c.end /\ c.end <= to
    /\ c.type = Branch =>
         /\ EntryOf(c, c.len) <= c.end
         /\ \A i \in 0 .. c.len - 1 :
              LET kid == ChildAt(b, c, i)
              IN  /\ Within(b, kid, EntryOf(c, c.len), c.end)
                  /\ \A j \in i + 1 .. c.len - 1 :
                       LET next == ChildAt(b, c, j)
                       IN  /\ kid.base > 0 /\ next.base > 0
                           /\ \A k \in i + 1 .. j - 1 : ChildAt(b, c, k).base = 0
                           => next.base >= kid.end

ReadsStayWithin ==
  ~ Writing =>
    /\ Within(pkt.bytes, Reader(pkt.bytes), HdrSz, Cardinality(DOMAIN pkt.bytes))
    /\ Deep(pkt.bytes, Reader(pkt.bytes)).type \in -1 .. 255

=============================================================================
