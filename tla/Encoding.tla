------------------------------ MODULE Encoding ------------------------------
(***************************************************************************)
(* Hex, unpadded base64url and UTF-8 (kit codec/encoding): what each gives *)
(* for an input that grows a byte, or a character, at a time.  Bytes and   *)
(* characters are numbers.                                                 *)
(***************************************************************************)
EXTENDS Integers, Sequences

LOCAL INSTANCE SequencesExt

CONSTANTS
  Octets,    \* bytes that are encoded
  Letters,   \* characters that are decoded
  Units,     \* bytes read as UTF-8
  Longest    \* of an input, by what it is

EncodingAssumption ==
  /\ Octets \cup Units \subseteq 0 .. 255 /\ Letters \subseteq 0 .. 127
  /\ Longest \in [{"bytes", "hex", "base64url", "utf8"} -> Nat]

VARIABLES
  as,     \* what the input is
  input

encodingVars == <<as, input>>

Bad == <<-1>>   \* EBADMSG
-----------------------------------------------------------------------------
HexChar(v) == IF v < 10 THEN 48 + v ELSE 97 + v - 10

HexVal(c) ==
  CASE c \in 48 .. 57  -> c - 48
    [] c \in 97 .. 102 -> c - 97 + 10
    [] c \in 65 .. 70  -> c - 65 + 10
    [] OTHER -> -1

HexEncode(b) == FlattenSeq([i \in DOMAIN b |-> <<HexChar(b[i] \div 16), HexChar(b[i] % 16)>>])

HexDecode(s) ==
  IF Len(s) % 2 # 0 \/ \E i \in DOMAIN s : HexVal(s[i]) < 0 THEN Bad
  ELSE [k \in 1 .. Len(s) \div 2 |-> HexVal(s[2 * k - 1]) * 16 + HexVal(s[2 * k])]

\* Either case reads; the lower is written.
Lowered(s) == [i \in DOMAIN s |-> IF s[i] \in 65 .. 70 THEN s[i] + 32 ELSE s[i]]
-----------------------------------------------------------------------------
B64Char(v) ==
  CASE v < 26 -> 65 + v
    [] v \in 26 .. 51 -> 97 + v - 26
    [] v \in 52 .. 61 -> 48 + v - 52
    [] v = 62 -> 45
    [] v = 63 -> 95

B64Val(c) ==
  CASE c \in 65 .. 90  -> c - 65
    [] c \in 97 .. 122 -> c - 97 + 26
    [] c \in 48 .. 57  -> c - 48 + 52
    [] c = 45 -> 62
    [] c = 95 -> 63
    [] OTHER -> -1

\* Mutant of Base64Len: a last group is as long as its bytes.
Base64LenShort(n) == (n \div 3) * 4 + (n % 3)

Base64Len(n) == (n \div 3) * 4 + (IF n % 3 = 0 THEN 0 ELSE (n % 3) + 1)

\* The groups of `n` elements of `s`, the last of them what is left.
Groups(s, n) ==
  [k \in 1 .. (Len(s) + n - 1) \div n |->
    SubSeq(s, n * (k - 1) + 1, IF n * k < Len(s) THEN n * k ELSE Len(s))]

OrZero(s, k) == IF k \in DOMAIN s THEN s[k] ELSE 0

Base64Encode(b) ==
  FlattenSeq([k \in 1 .. Len(Groups(b, 3)) |->
    LET g == Groups(b, 3)[k]
        word == OrZero(g, 1) * 2^16 + OrZero(g, 2) * 2^8 + OrZero(g, 3)
    IN  [j \in 1 .. Len(g) + 1 |-> B64Char((word \div 2^(24 - 6 * j)) % 64)]])

\* Mutant of Spare: no bits are looked for past the last byte.
SpareUnread(n, word) == FALSE

\* Bits past the last byte, which a canonical text has zero.
Spare(n, word) == (n = 2 /\ word % 2^16 # 0) \/ (n = 3 /\ word % 2^8 # 0)

Base64Decode(s) ==
  LET word(g) == B64Val(g[1]) * 2^18 + (IF Len(g) < 2 THEN 0 ELSE B64Val(g[2]) * 2^12)
                 + (IF Len(g) < 3 THEN 0 ELSE B64Val(g[3]) * 2^6) + (IF Len(g) < 4 THEN 0 ELSE B64Val(g[4]))
      gs == Groups(s, 4)
  IN  IF \/ Len(s) % 4 = 1
         \/ \E i \in DOMAIN s : B64Val(s[i]) < 0
         \/ \E k \in DOMAIN gs : Spare(Len(gs[k]), word(gs[k])) THEN Bad
      ELSE FlattenSeq([k \in DOMAIN gs |->
             [j \in 1 .. Len(gs[k]) - 1 |-> (word(gs[k]) \div 2^(24 - 8 * j)) % 256]])
-----------------------------------------------------------------------------
\* A character's bytes, by its first; 0 for none.
LenOf(b) ==
  CASE b < 128 -> 1
    [] b \in 194 .. 223 -> 2
    [] b \in 224 .. 239 -> 3
    [] b \in 240 .. 244 -> 4
    [] OTHER -> 0

\* Mutant of SecondOf: any second byte goes with any first.
SecondOfAny(b) == 128 .. 191

\* The second byte's range, which keeps overlong forms and surrogates out.
SecondOf(b) ==
  CASE b = 224 -> 160 .. 191
    [] b = 237 -> 128 .. 159
    [] b = 240 -> 144 .. 191
    [] b = 244 -> 128 .. 143
    [] OTHER   -> 128 .. 191

\* At `i`: the length of its character, or of its maximal bad prefix.
Utf8Step(s, i) ==
  LET len == LenOf(s[i])
      fits(k) == s[i + k] \in IF k = 1 THEN SecondOf(s[i]) ELSE 128 .. 191
      Good[k \in 0 .. 3] ==
        IF k = 0 THEN 1
        ELSE IF Good[k - 1] = k /\ k < len /\ i + k <= Len(s) /\ fits(k) THEN k + 1 ELSE Good[k - 1]
  IN  IF len # 0 /\ Good[3] = len THEN [len |-> len, bad |-> 0]
      ELSE [len |-> 0, bad |-> IF len = 0 THEN 1 ELSE Good[3]]

RECURSIVE IsUtf8From(_, _)

\* Mutant of IsUtf8From: a character cut short by the end is let pass.
IsUtf8Cut(s, i) ==
  IF i > Len(s) THEN TRUE
  ELSE LET c == Utf8Step(s, i)
       IN  IF c.len = 0 THEN c.bad > 1 /\ i + c.bad > Len(s) ELSE IsUtf8From(s, i + c.len)

IsUtf8From(s, i) ==
  IF i > Len(s) THEN TRUE
  ELSE LET c == Utf8Step(s, i) IN c.len # 0 /\ IsUtf8From(s, i + c.len)

Replacement == <<239, 191, 189>>

RECURSIVE LossyFrom(_, _)
LossyFrom(s, i) ==
  IF i > Len(s) THEN << >>
  ELSE LET c == Utf8Step(s, i)
       IN  IF c.len # 0 THEN SubSeq(s, i, i + c.len - 1) \o LossyFrom(s, i + c.len)
           ELSE Replacement \o LossyFrom(s, i + c.bad)
-----------------------------------------------------------------------------
EncodingInit == as \in DOMAIN Longest /\ input = << >>

Grow(b) ==
  /\ Len(input) < Longest[as]
  /\ input' = Append(input, b)
  /\ UNCHANGED as

EncodingNext ==
  \/ as = "bytes" /\ \E b \in Octets : Grow(b)
  \/ as \in {"hex", "base64url"} /\ \E c \in Letters : Grow(c)
  \/ as = "utf8" /\ \E b \in Units : Grow(b)

EncodingSpec == EncodingInit /\ [][EncodingNext]_encodingVars
-----------------------------------------------------------------------------
\* What is written reads back, and is as long as it was said to be.
BytesReadBack ==
  as = "bytes" =>
    /\ HexDecode(HexEncode(input)) = input
    /\ Base64Decode(Base64Encode(input)) = input
    /\ Len(Base64Encode(input)) = Base64Len(Len(input))

(***************************************************************************)
(* No two texts read as the same bytes, but for hex's case: a base64url    *)
(* text that reads is the one its bytes are written as, so a name made of  *)
(* one may be compared as text.                                            *)
(***************************************************************************)
OneTextEach ==
  /\ (as = "hex" /\ HexDecode(input) # Bad) => HexEncode(HexDecode(input)) = Lowered(input)
  /\ (as = "base64url" /\ Base64Decode(input) # Bad) => Base64Encode(Base64Decode(input)) = input

\* A code point's own bytes, the shortest there are; surrogates have none.
IsScalar(c) == c \in 0 .. 55295 \/ c \in 57344 .. 1114111
Shortest(c) ==
  CASE c < 128   -> <<c>>
    [] c \in 128 .. 2047    -> <<192 + c \div 64, 128 + (c % 64)>>
    [] c \in 2048 .. 65535  -> <<224 + c \div 4096, 128 + ((c \div 64) % 64), 128 + (c % 64)>>
    [] OTHER -> <<240 + c \div 262144, 128 + ((c \div 4096) % 64), 128 + ((c \div 64) % 64), 128 + (c % 64)>>

\* The code point that bytes would say, whatever they are.
Said(s) ==
  CASE Len(s) = 1 -> s[1]
    [] Len(s) = 2 -> (s[1] % 32) * 64 + (s[2] % 64)
    [] Len(s) = 3 -> (s[1] % 16) * 4096 + (s[2] % 64) * 64 + (s[3] % 64)
    [] Len(s) = 4 -> (s[1] % 8) * 262144 + (s[2] % 64) * 4096 + (s[3] % 64) * 64 + (s[4] % 64)

(***************************************************************************)
(* A character is read where a code point's shortest bytes stand, and      *)
(* nowhere else: no overlong form, surrogate or number past the last.      *)
(***************************************************************************)
Utf8Exact ==
  as = "utf8" /\ input # << >> =>
    LET c == Utf8Step(input, 1)
        reads(n) == LET s == SubSeq(input, 1, n) IN IsScalar(Said(s)) /\ s = Shortest(Said(s))
    IN  /\ c.len # 0 => reads(c.len)
        /\ c.len = 0 => \A n \in 1 .. 4 : n <= Len(input) => ~ reads(n)

\* Whatever is read lossily is UTF-8, and what already was is left as it is.
LossyIsUtf8 ==
  as = "utf8" =>
    /\ IsUtf8From(LossyFrom(input, 1), 1)
    /\ IsUtf8From(input, 1) <=> LossyFrom(input, 1) = input
=============================================================================
