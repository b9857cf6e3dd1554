-------------------------------- MODULE Json --------------------------------
(***************************************************************************)
(* JSON checked once and then read where it lies (kit codec/json).  A text *)
(* is a sequence of bytes, and a place in it is from 1; 0 is none.         *)
(*                                                                         *)
(* An input is a sequence of parts, given a part at a time: `as` says what *)
(* the parts are, and so which of the readers is asked.                    *)
(***************************************************************************)
EXTENDS Integers, Sequences, FiniteSets

LOCAL INSTANCE SequencesExt

CONSTANTS
  MaxDepth,    \* values nest no deeper
  Tokens,      \* parts of a text that is checked
  Scalars,     \* values with nothing in them, as they are written
  Names,       \* keys, as they are written
  NumberBytes, \* parts of a number
  StringParts, \* parts of a string, as written
  RawBytes,    \* parts of a text that is quoted
  Longest      \* of an input, by what it is

JsonAssumption ==
  /\ MaxDepth \in Nat
  /\ Longest \in [{"text", "number", "string", "raw"} -> Nat]

VARIABLES
  as,      \* "text", "number", "string", "raw" or "document"
  parts    \* the input; a document's value, as it is meant

jsonVars == <<as, parts>>

Quote == 34
Plus == 43
Comma == 44
Minus == 45
Point == 46
Colon == 58
Opens == 91
Backslash == 92
Closes == 93
Braces == 123
Unbraces == 125
Ws     == {32, 9, 10, 13}
Digits == 48 .. 57
Exps   == {69, 101}
Null   == <<110, 117, 108, 108>>
True   == <<116, 114, 117, 101>>
False  == <<102, 97, 108, 115, 101>>
None   == 0

Is(s, at, c) == at <= Len(s) /\ s[at] = c
Cut(s, from, to) == SubSeq(s, from, to)
-----------------------------------------------------------------------------
\* json_detail

RECURSIVE SkipWs(_, _)
SkipWs(s, at) == IF at <= Len(s) /\ s[at] \in Ws THEN SkipWs(s, at + 1) ELSE at

Utf8Of(c) ==
  CASE c < 128   -> <<c>>
    [] c \in 128 .. 2047   -> <<192 + c \div 64, 128 + (c % 64)>>
    [] c \in 2048 .. 65535 -> <<224 + c \div 4096, 128 + ((c \div 64) % 64), 128 + (c % 64)>>
    [] OTHER -> <<240 + c \div 262144, 128 + ((c \div 4096) % 64), 128 + ((c \div 64) % 64), 128 + (c % 64)>>

HexOf(c) ==
  CASE c \in Digits -> c - 48 [] c \in 97 .. 102 -> c - 87 [] c \in 65 .. 70 -> c - 55 [] OTHER -> -1

\* Four hex digits, or -1.
Hex4(s, at) ==
  IF at + 3 > Len(s) \/ \E i \in at .. at + 3 : HexOf(s[i]) < 0 THEN -1
  ELSE HexOf(s[at]) * 4096 + HexOf(s[at + 1]) * 256 + HexOf(s[at + 2]) * 16 + HexOf(s[at + 3])
-----------------------------------------------------------------------------
\* The check.  Each skips what it names, and gives where it ends.

RECURSIVE SkipStringFrom(_, _)
SkipStringFrom(s, at) ==
  IF at > Len(s) THEN None
  ELSE IF s[at] = Quote THEN at + 1
  ELSE IF s[at] = Backslash
    THEN IF at + 1 > Len(s) THEN None
         ELSE IF s[at + 1] \in {34, 92, 47, 98, 102, 110, 114, 116} THEN SkipStringFrom(s, at + 2)
         ELSE IF s[at + 1] = 117 /\ Hex4(s, at + 2) >= 0 THEN SkipStringFrom(s, at + 6)
         ELSE None
  ELSE IF s[at] < 32 THEN None
  ELSE SkipStringFrom(s, at + 1)

SkipString(s, at) == SkipStringFrom(s, at + 1)

DigitsAt(s, at) ==
  Cardinality({i \in at .. Len(s) : \A j \in at .. i : s[j] \in Digits})

IntEnd(s, at) ==
  LET n == DigitsAt(s, at) IN IF n = 0 \/ (n > 1 /\ s[at] = 48) THEN None ELSE at + n

FracEnd(s, at) ==
  IF ~ Is(s, at, Point) THEN at
  ELSE IF DigitsAt(s, at + 1) = 0 THEN None ELSE at + 1 + DigitsAt(s, at + 1)

ExpEnd(s, at) ==
  LET from == IF Is(s, at + 1, Plus) \/ Is(s, at + 1, Minus) THEN at + 2 ELSE at + 1
  IN  IF ~ (at <= Len(s) /\ s[at] \in Exps) THEN at
      ELSE IF DigitsAt(s, from) = 0 THEN None ELSE from + DigitsAt(s, from)

SkipNumber(s, at) ==
  LET int  == IntEnd(s, IF Is(s, at, Minus) THEN at + 1 ELSE at)
      frac == FracEnd(s, int)
  IN  IF int = None THEN None ELSE IF frac = None THEN None ELSE ExpEnd(s, frac)

Literal(s, at, word) == IF Cut(s, at, at + Len(word) - 1) = word THEN at + Len(word) ELSE None

\* Mutant of TooDeep: a value of a value is counted as deep as it.
TooDeepNever(depth) == FALSE

TooDeep(depth) == depth > MaxDepth

RECURSIVE SkipVal(_, _, _), SkipItems(_, _, _), SkipFields(_, _, _)
SkipVal(s, at, depth) ==
  LET in == SkipWs(s, at + 1)
  IN  IF TooDeep(depth) \/ at > Len(s) THEN None
      ELSE CASE s[at] = Null[1]  -> IF at + 3 > Len(s) THEN None ELSE Literal(s, at, Null)
             [] s[at] = True[1]  -> IF at + 3 > Len(s) THEN None ELSE Literal(s, at, True)
             [] s[at] = False[1] -> IF at + 4 > Len(s) THEN None ELSE Literal(s, at, False)
             [] s[at] = Quote  -> SkipString(s, at)
             [] s[at] = Opens  -> IF Is(s, in, Closes) THEN in + 1 ELSE SkipItems(s, in, depth)
             [] s[at] = Braces -> IF Is(s, in, Unbraces) THEN in + 1 ELSE SkipFields(s, in, depth)
             [] OTHER -> SkipNumber(s, at)

\* After a value of an array or an object: more, the end, or neither.
After(s, end, closing, more(_)) ==
  LET i == SkipWs(s, end)
  IN  IF end = None THEN None
      ELSE IF Is(s, i, Comma) THEN more(SkipWs(s, i + 1))
      ELSE IF Is(s, i, closing) THEN i + 1 ELSE None

SkipItems(s, i, depth) ==
  After(s, SkipVal(s, i, depth + 1), Closes, LAMBDA j : SkipItems(s, j, depth))

SkipFields(s, i, depth) ==
  IF ~ Is(s, i, Quote) THEN None
  ELSE LET key == SkipString(s, i)
           colon == SkipWs(s, key)
       IN  IF key = None THEN None
           ELSE IF ~ Is(s, colon, Colon) THEN None
           ELSE After(s, SkipVal(s, SkipWs(s, colon + 1), depth + 1), Unbraces,
                      LAMBDA j : SkipFields(s, j, depth))

\* What the text holds, where that is one value; nothing where it is not.
ReadJson(text) ==
  LET start == SkipWs(text, 1)
      end == SkipVal(text, start, 0)
  IN  IF end = None THEN << >>
      ELSE IF SkipWs(text, end) # Len(text) + 1 THEN << >>
      ELSE Cut(text, start, end - 1)
-----------------------------------------------------------------------------
\* The reads.

TypeOf(v) ==
  CASE v[1] = Null[1] -> "null"
    [] v[1] \in {True[1], False[1]} -> "boolean"
    [] v[1] = Quote  -> "string"
    [] v[1] = Opens  -> "array"
    [] v[1] = Braces -> "object"
    [] OTHER -> "number"

NextAt(s, end) == SkipWs(s, end) + 1

RECURSIVE ItemsFrom(_, _)
ItemsFrom(s, at) ==
  LET start == SkipWs(s, at)
      end == SkipVal(s, start, 0)
  IN  IF start > Len(s) \/ Is(s, start, Closes) THEN << >>
      ELSE <<Cut(s, start, end - 1)>> \o ItemsFrom(s, NextAt(s, end))

Items(v) == IF TypeOf(v) = "array" THEN ItemsFrom(v, 2) ELSE << >>

RECURSIVE FieldsFrom(_, _)
FieldsFrom(s, at) ==
  LET start == SkipWs(s, at)
      keyEnd == SkipString(s, start)
      val == SkipWs(s, SkipWs(s, keyEnd) + 1)
      end == SkipVal(s, val, 0)
  IN  IF ~ Is(s, start, Quote) THEN << >>
      ELSE <<[key |-> Cut(s, start + 1, keyEnd - 2), val |-> Cut(s, val, end - 1)]>>
           \o FieldsFrom(s, NextAt(s, end))

Fields(v) == IF TypeOf(v) = "object" THEN FieldsFrom(v, 2) ELSE << >>

\* A character's code and the place after it.
Utf8Next(s, at) ==
  LET b == s[at]
      len == CASE b < 128 -> 1 [] b \in 128 .. 223 -> 2 [] b \in 224 .. 239 -> 3 [] OTHER -> 4
      lead == CASE len = 1 -> b [] len = 2 -> b % 32 [] len = 3 -> b % 16 [] OTHER -> b % 8
  IN  [c |-> FoldLeft(LAMBDA c, x : c * 64 + (x % 64), lead, Cut(s, at + 1, at + len - 1)),
       at |-> at + len]

Fffd == 65533
Escaped == [e \in {98, 102, 110, 114, 116} |->
  CASE e = 98 -> 8 [] e = 102 -> 12 [] e = 110 -> 10 [] e = 114 -> 13 [] e = 116 -> 9]

\* Mutant of Paired: a high surrogate takes any that follows.
PairedAny(s, at, hi) == hi \in 55296 .. 56319 /\ Hex4(s, at + 2) >= 0

\* Whether a high surrogate, read up to `at`, has its low one there.
Paired(s, at, hi) ==
  /\ hi \in 55296 .. 56319
  /\ Cut(s, at, IF at + 1 > Len(s) THEN Len(s) ELSE at + 1) = <<Backslash, 117>>
  /\ Hex4(s, at + 2) \in 56320 .. 57343

UnicodeEscape(s, at) ==
  LET hi == Hex4(s, at)
      pair == Paired(s, at + 4, hi)
      unit == IF pair THEN 65536 + (hi - 55296) * 1024 + (Hex4(s, at + 6) - 56320) ELSE hi
  IN  [c |-> IF unit \in 55296 .. 57343 THEN Fffd ELSE unit, at |-> IF pair THEN at + 10 ELSE at + 4]

\* The next character of a string as written.
NextChar(s, at) ==
  LET first == Utf8Next(s, at)
      e == Utf8Next(s, first.at)
  IN  IF first.c # Backslash THEN first
      ELSE IF e.c = 117 THEN UnicodeEscape(s, e.at)
      ELSE [e EXCEPT !.c = IF @ \in DOMAIN Escaped THEN Escaped[@] ELSE @]

RECURSIVE CharsFrom(_, _)
CharsFrom(s, at) ==
  IF at > Len(s) THEN << >>
  ELSE LET n == NextChar(s, at) IN <<n.c>> \o CharsFrom(s, n.at)

Chars(raw) == CharsFrom(raw, 1)
Decoded(raw) == FlattenSeq([i \in DOMAIN Chars(raw) |-> Utf8Of(Chars(raw)[i])])

AsPlain(raw) == ~ Contains(raw, Backslash)

RECURSIVE SameFrom(_, _, _)
SameFrom(chars, s, at) ==
  IF chars = << >> THEN at = Len(s) + 1
  ELSE at <= Len(s) /\ Utf8Next(s, at).c = chars[1] /\ SameFrom(Tail(chars), s, Utf8Next(s, at).at)

EqStr(raw, s) == IF AsPlain(raw) THEN raw = s ELSE SameFrom(Chars(raw), s, 1)

\* Mutant of Field: the first field of the name.
FieldFirst(v, key) ==
  LET at == {i \in DOMAIN Fields(v) : EqStr(Fields(v)[i].key, key)}
  IN  IF at = {} THEN << >> ELSE Fields(v)[CHOOSE i \in at : \A j \in at : i <= j].val

\* The last field of the name (`get`).
Field(v, key) ==
  LET at == {i \in DOMAIN Fields(v) : EqStr(Fields(v)[i].key, key)}
  IN  IF at = {} THEN << >> ELSE Fields(v)[CHOOSE i \in at : \A j \in at : j <= i].val

HexChar(v) == IF v < 10 THEN 48 + v ELSE 87 + v

\* How a byte is written in a string.
Quoting(c) ==
  CASE c = Quote -> <<Backslash, Quote>>
    [] c = Backslash -> <<Backslash, Backslash>>
    [] c = 10 -> <<Backslash, 110>>
    [] c = 13 -> <<Backslash, 114>>
    [] c = 9  -> <<Backslash, 116>>
    [] c < 32 /\ c \notin {9, 10, 13} -> <<Backslash, 117, 48, 48, HexChar(c \div 16), HexChar(c % 16)>>
    [] OTHER  -> <<c>>

Quoted(s) == <<Quote>> \o FlattenSeq([i \in DOMAIN s |-> Quoting(s[i])]) \o <<Quote>>

\* The power of ten a number's first digit stands at (`beyond_doubles`).
Mantissa(t) ==
  LET from == IF t[1] = Minus THEN 2 ELSE 1
      es == {i \in DOMAIN t : t[i] \in Exps}
  IN  Cut(t, from, IF es = {} THEN Len(t) ELSE (CHOOSE i \in es : TRUE) - 1)

\* Mutant of PlaceOf: the point is not looked for.
PlaceOfWhole(m) == Len(m) - 1

PlaceOf(m) ==
  LET points == {i \in DOMAIN m : m[i] = Point}
      point == IF points = {} THEN Len(m) + 1 ELSE CHOOSE i \in points : TRUE
      lead == CHOOSE i \in DOMAIN m : m[i] \notin {48, Point} /\ \A j \in 1 .. i - 1 : m[j] \in {48, Point}
  IN  point - lead - (IF lead < point THEN 1 ELSE 0)
-----------------------------------------------------------------------------
\* A document is a value written: [kind, text] or [kind, vals] or [kind, keys, vals].

Leaf == {[kind |-> "leaf", text |-> t] : t \in Scalars}
Pairs(S) == UNION {[1 .. n -> S] : n \in 0 .. 2}
Arrays(S) == {[kind |-> "array", vals |-> v] : v \in Pairs(S)}
Objects(S) ==
  {[kind |-> "object", keys |-> [i \in DOMAIN f |-> f[i][1]], vals |-> [i \in DOMAIN f |-> f[i][2]]] :
     f \in Pairs(Names \X S)}
Documents == Leaf \cup Arrays(Leaf \cup Arrays(Leaf)) \cup Objects(Leaf \cup Arrays(Leaf))

\* Written with spaces where they may be.
RECURSIVE Written(_)
Join(ss) == FlattenSeq([i \in DOMAIN ss |-> (IF i = 1 THEN << >> ELSE <<32, Comma>>) \o <<10>> \o ss[i]])
Written(d) ==
  CASE d.kind = "leaf"  -> d.text
    [] d.kind = "array" -> <<Opens>> \o Join([i \in DOMAIN d.vals |-> Written(d.vals[i])]) \o <<32, Closes>>
    [] OTHER -> <<Braces>>
                \o Join([i \in DOMAIN d.vals |->
                     <<Quote>> \o d.keys[i] \o <<Quote, 32, Colon>> \o Written(d.vals[i])])
                \o <<Unbraces>>

JsonInit ==
  \/ as \in DOMAIN Longest /\ parts = << >>
  \/ as = "document" /\ parts \in Documents

More(S) ==
  /\ Len(parts) < Longest[as]
  /\ \E p \in S : parts' = Append(parts, p)
  /\ UNCHANGED as

JsonNext ==
  \/ as = "text" /\ More(Tokens)
  \/ as = "number" /\ More(NumberBytes)
  \/ as = "string" /\ More(StringParts)
  \/ as = "raw" /\ More(RawBytes)

JsonSpec == JsonInit /\ [][JsonNext]_jsonVars
-----------------------------------------------------------------------------
\* What a text is by JSON's grammar: some way to split it.
Trim(s) ==
  LET solid == {i \in DOMAIN s : s[i] \notin Ws}
  IN  IF solid = {} THEN << >>
      ELSE Cut(s, CHOOSE i \in solid : \A j \in solid : i <= j, CHOOSE i \in solid : \A j \in solid : j <= i)

Inner(s) == Trim(Cut(s, 2, Len(s) - 1))
AllDigits(s) == s # << >> /\ \A i \in DOMAIN s : s[i] \in Digits

Commas(s) == {i \in DOMAIN s : s[i] = Comma}
Before(s, i) == Trim(Cut(s, 1, i - 1))
Past(s, i) == Trim(Cut(s, i + 1, Len(s)))

RECURSIVE IsValue(_, _), AreValues(_, _), AreFields(_, _)
IsValue(s, depth) ==
  LET between(a, b) == Len(s) > 1 /\ s[1] = a /\ s[Len(s)] = b
  IN  /\ depth >= 0
      /\ \/ AllDigits(s)
         \/ s = <<Quote, Quote>>
         \/ between(Opens, Closes) /\ (Inner(s) = << >> \/ AreValues(Inner(s), depth - 1))
         \/ between(Braces, Unbraces) /\ (Inner(s) = << >> \/ AreFields(Inner(s), depth - 1))
AreValues(s, depth) ==
  \/ IsValue(s, depth)
  \/ \E i \in Commas(s) : IsValue(Before(s, i), depth) /\ AreValues(Past(s, i), depth)
IsField(s, depth) ==
  \E i \in DOMAIN s : s[i] = Colon /\ Before(s, i) = <<Quote, Quote>> /\ IsValue(Past(s, i), depth)
AreFields(s, depth) ==
  \/ IsField(s, depth)
  \/ \E i \in Commas(s) : IsField(Before(s, i), depth) /\ AreFields(Past(s, i), depth)

(***************************************************************************)
(* A text is read exactly where the grammar has it, and no deeper than the *)
(* check may recurse.                                                      *)
(***************************************************************************)
CheckedByGrammar ==
  as = "text" =>
    (ReadJson(FlattenSeq(parts)) # << >> <=> IsValue(Trim(FlattenSeq(parts)), MaxDepth))

IsInt(s) == AllDigits(s) /\ (s[1] = 48 => Len(s) = 1)
Signed(s, signs) == IF s # << >> /\ s[1] \in signs THEN Tail(s) ELSE s
IsNumber(s) ==
  \E i, j \in 0 .. Len(s) :
    LET int  == Signed(Cut(s, 1, i), {Minus})
        frac == Cut(s, i + 1, j)
        exp  == Cut(s, j + 1, Len(s))
    IN  /\ i <= j
        /\ IsInt(int)
        /\ frac = << >> \/ (frac[1] = Point /\ AllDigits(Tail(frac)))
        /\ exp = << >> \/ (exp[1] \in Exps /\ AllDigits(Signed(Tail(exp), {Plus, Minus})))

\* A number's digits, no zero leading, and how many stand past the point.
Significant(m) ==
  LET ds == SelectSeq(m, LAMBDA c : c # Point)
  IN  Cut(ds, CHOOSE i \in DOMAIN ds : ds[i] # 48 /\ \A j \in 1 .. i - 1 : ds[j] = 48, Len(ds))
Fraction(m) == Cardinality({i \in DOMAIN m : \E j \in 1 .. i - 1 : m[j] = Point})

(***************************************************************************)
(* A number is one by the grammar (`+1`, `.5`, `1.` and `01` are not), and *)
(* what says whether it lies past the doubles or under them is the power   *)
(* of ten of its first digit, wherever the point and the zeros stand.      *)
(***************************************************************************)
NumbersByGrammar ==
  as = "number" =>
    /\ SkipNumber(parts, 1) = Len(parts) + 1 <=> IsNumber(parts)
    /\ (IsNumber(parts) /\ \E i \in DOMAIN Mantissa(parts) : Mantissa(parts)[i] \in 49 .. 57) =>
         LET m == Mantissa(parts)
         IN  PlaceOf(m) = Len(Significant(m)) - 1 - Fraction(m)

\* What the parts of a string mean, a pair of surrogates one character.
RECURSIVE Meant(_)
Meant(ps) ==
  IF ps = << >> THEN << >>
  ELSE LET p == ps[1]
           unit(q) == Hex4(q, 3)
           escape(q) == Len(q) = 6
       IN  IF escape(p) /\ unit(p) \in 55296 .. 56319 /\ Len(ps) > 1 /\ escape(ps[2])
                /\ unit(ps[2]) \in 56320 .. 57343
             THEN <<65536 + (unit(p) - 55296) * 1024 + unit(ps[2]) - 56320>> \o Meant(Tail(Tail(ps)))
           ELSE <<IF escape(p) THEN (IF unit(p) \in 55296 .. 57343 THEN Fffd ELSE unit(p))
                  ELSE IF p[1] = Backslash THEN (IF p[2] \in DOMAIN Escaped THEN Escaped[p[2]] ELSE p[2])
                  ELSE Utf8Next(p, 1).c>> \o Meant(Tail(ps))

(***************************************************************************)
(* A string decodes as its escapes say, a lone surrogate as U+FFFD; it     *)
(* equals the text it decodes to; and what is quoted reads back.           *)
(***************************************************************************)
StringsDecode ==
  /\ as = "string" =>
       LET raw == FlattenSeq(parts)
       IN  /\ Chars(raw) = Meant(parts)
           /\ EqStr(raw, Decoded(raw))
           /\ ReadJson(<<Quote>> \o raw \o <<Quote>>) # << >>
  /\ as = "raw" =>
       LET s == FlattenSeq(parts)
           v == ReadJson(Quoted(s))
       IN  v # << >> /\ Decoded(Cut(v, 2, Len(v) - 1)) = s

\* A value as it is read, by its items and its fields.
RECURSIVE Meaning(_)
Meaning(v) ==
  CASE TypeOf(v) = "array"  -> [kind |-> "array", vals |-> [i \in DOMAIN Items(v) |-> Meaning(Items(v)[i])]]
    [] TypeOf(v) = "object" ->
         [kind |-> "object", keys |-> [i \in DOMAIN Fields(v) |-> Fields(v)[i].key],
          vals |-> [i \in DOMAIN Fields(v) |-> Meaning(Fields(v)[i].val)]]
    [] OTHER -> [kind |-> "leaf", text |-> v]

(***************************************************************************)
(* Whatever passed the check reads as what was written, item by item and   *)
(* field by field; and a name gives its last field, however its key is     *)
(* escaped.                                                                *)
(***************************************************************************)
DocumentsRead ==
  as = "document" =>
    LET v == ReadJson(Written(parts))
    IN  /\ v # << >> /\ Meaning(v) = parts
        /\ parts.kind = "object" =>
             \A n \in Names :
               LET same == {i \in DOMAIN parts.keys : Decoded(parts.keys[i]) = Decoded(n)}
               IN  Field(v, Decoded(n)) =
                     IF same = {} THEN << >>
                     ELSE Written(parts.vals[CHOOSE i \in same : \A j \in same : j <= i])
=============================================================================
