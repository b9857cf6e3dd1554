--------------------------------- MODULE Tlv ---------------------------------
(***************************************************************************)
(* TLV, a sequence of tagged values (kit wire/tlv.hpp, tlv.cpp): a writer  *)
(* that is sealed once, and a reader that passes over bytes it may have    *)
(* been given only some of.  A number stored is its low byte and zeros.    *)
(***************************************************************************)
EXTENDS Integers, Sequences

LOCAL INSTANCE SequencesExt

CONSTANTS
  Writes,   \* the values written: [tag, val], `val` the bytes of a run, or one number
  MostWrites

End == 0
Bool == 1
\* The width of a number's tag, in their order: u8 i8 u16 i16 u32 i32 u64 i64 f32 f64.
Widths == [t \in 2 .. 11 |-> <<1, 1, 2, 2, 4, 4, 8, 8, 4, 8>>[t - 1]]
Runs == {16, 32}   \* str, bytes

TlvAssumption ==
  /\ \A v \in Writes : v.tag \in {Bool} \cup Runs \cup DOMAIN Widths
  /\ MostWrites \in Nat

VARIABLES
  data,     \* what is written
  sealed,
  put,      \* the values written, in order
  input,    \* what the reader was given, once it is
  at,       \* where it is
  ended,    \* "no", "closed", "unclosed"
  fault,    \* whether it has refused
  got       \* the values it has read

tlvVars == <<data, sealed, put, input, at, ended, fault, got>>
readerVars == <<input, at, ended, fault, got>>

Unread == <<-1>>

TlvInit ==
  /\ data = << >> /\ sealed = FALSE /\ put = << >>
  /\ input = Unread /\ at = 0 /\ ended = "no" /\ fault = FALSE /\ got = << >>

Le(x, width) == [i \in 1 .. width |-> IF i = 1 THEN x ELSE 0]

Coded(v) ==
  <<v.tag>> \o (CASE v.tag = Bool -> v.val
                  [] v.tag \in Runs -> Le(Len(v.val), 4) \o v.val
                  [] OTHER -> Le(v.val[1], Widths[v.tag]))

Write(v) ==
  /\ input = Unread
  /\ Len(put) < MostWrites
  /\ data' = IF sealed THEN data ELSE data \o Coded(v)
  /\ put'  = IF sealed THEN put ELSE Append(put, v)
  /\ UNCHANGED sealed
  /\ UNCHANGED readerVars

\* Mutant of Seal: a writer finished again ends again.
SealAgain == Append(data, End)

Seal == IF sealed THEN data ELSE Append(data, End)

FinishTlv ==
  /\ input = Unread
  /\ data' = Seal
  /\ sealed' = TRUE
  /\ UNCHANGED put
  /\ UNCHANGED readerVars

\* A reader is given a prefix of it.
Give ==
  /\ input = Unread
  /\ \E n \in 0 .. Len(data) : input' = SubSeq(data, 1, n)
  /\ UNCHANGED <<data, sealed, put, at, ended, fault, got>>

Has(p, n) == p + n <= Len(input)
Number(p, width) == input[p + 1]   \* the low byte of one stored there

\* Mutant of ValueAt: a run may end past the input.
ValueAtUnbounded(p) ==
  LET tag == input[p]
      width == IF tag = Bool THEN 1 ELSE Widths[tag]
      len == Number(p, 4)
  IN  IF tag \in Runs
        THEN IF ~ Has(p, 4) THEN << >>
             ELSE <<[tag |-> tag, val |-> SubSeq(input, p + 5, p + 4)], p + 4 + len>>
      ELSE IF ~ Has(p, width) THEN << >>
      ELSE <<[tag |-> tag, val |-> <<Number(p, width)>>], p + width>>

\* The value whose tag was read before `p`, and where it ends; nothing where it is refused.
ValueAt(p) ==
  LET tag == input[p]
      width == IF tag = Bool THEN 1 ELSE Widths[tag]
      len == Number(p, 4)
  IN  CASE tag \in Runs ->
             IF ~ Has(p, 4) THEN << >>
             ELSE IF ~ Has(p + 4, len) THEN << >>
             ELSE <<[tag |-> tag, val |-> SubSeq(input, p + 5, p + 4 + len)], p + 4 + len>>
        [] tag \in {Bool} \cup DOMAIN Widths ->
             IF ~ Has(p, width) THEN << >>
             ELSE <<[tag |-> tag,
                     val |-> <<IF tag = Bool /\ Number(p, 1) # 0 THEN 1 ELSE Number(p, width)>>],
                    p + width>>
        [] OTHER -> << >>

Stopped == ended # "no" \/ fault

NextAtEnd ==
  /\ input # Unread /\ ~ Stopped
  /\ at >= Len(input)
  /\ ended' = "unclosed"
  /\ UNCHANGED <<data, sealed, put, input, at, fault, got>>

NextEnd ==
  /\ input # Unread /\ ~ Stopped
  /\ at < Len(input) /\ input[at + 1] = End
  /\ ended' = "closed"
  /\ at' = at + 1
  /\ UNCHANGED <<data, sealed, put, input, fault, got>>

\* Past the tag, whatever comes of it; a reader that has refused is not asked again.
NextValue ==
  /\ input # Unread /\ ~ Stopped
  /\ at < Len(input) /\ input[at + 1] # End
  /\ LET r == ValueAt(at + 1)
     IN  IF r = << >> THEN fault' = TRUE /\ at' = at + 1 /\ UNCHANGED got
         ELSE fault' = FALSE /\ at' = r[2] /\ got' = Append(got, r[1])
  /\ UNCHANGED <<data, sealed, put, input, ended>>

TlvNext ==
  \/ \E v \in Writes : Write(v)
  \/ FinishTlv
  \/ Give
  \/ NextAtEnd
  \/ NextEnd
  \/ NextValue

TlvSpec == TlvInit /\ [][TlvNext]_tlvVars
-----------------------------------------------------------------------------
TlvTypeOK ==
  /\ \A i \in DOMAIN data : data[i] \in 0 .. 255
  /\ input # Unread => at \in 0 .. Len(input)
  /\ ended \in {"no", "closed", "unclosed"}
  /\ sealed \in BOOLEAN /\ fault \in BOOLEAN

Boundaries == {Len(FlattenSeq([i \in 1 .. n |-> Coded(put[i])])) : n \in 0 .. Len(put)}

(***************************************************************************)
(* A reader gives the values written, in order, and then says truly how    *)
(* its input stopped: closed where all of it came, unclosed where it was   *)
(* cut between two values, and a fault where it was cut inside one.        *)
(***************************************************************************)
StopsTruly ==
  /\ IsPrefix(got, put)
  /\ Stopped =>
       LET cut == Len(input)
       IN  /\ ended = "closed" <=> sealed /\ input = data /\ got = put
           /\ ended = "unclosed" <=> cut \in Boundaries /\ ~ (sealed /\ input = data)
           /\ fault <=> cut \notin Boundaries \cup (IF sealed THEN {Len(data)} ELSE {})
=============================================================================
