------------------------------- MODULE Records -------------------------------
(***************************************************************************)
(* A turn's calls from guest to host as records in one shared range (guest *)
(* ipc/stream.hpp), the hostcall stream that is one such (ipc/sys.hpp),    *)
(* and the host that runs them after the turn (host ipc/stream.ts).        *)
(*                                                                         *)
(* The range is words: END, then the records, each two words, its op and   *)
(* its count, and its own.  A word here says which record it is of and     *)
(* which of its words it is, so a record half overwritten, or a word taken *)
(* for a header that is none, shows.                                       *)
(*                                                                         *)
(* A stream is one of two.  A program's own has transactions; the hostcall *)
(* stream has writes, whose bytes lie elsewhere, records laid past the     *)
(* turn's for a hostcall, and the abort that stops the guest.              *)
(***************************************************************************)
EXTENDS Integers, Sequences

CONSTANTS
  AreaWords,  \* words for records, past the head
  Contents,   \* what a record says, its words' contents
  OwnWords,   \* counts of words of its own
  Leaves,     \* the room a caller asks to be left (`try_call`)
  AbortSize   \* words of the abort's record

RecordsAssumption ==
  /\ AreaWords \in Nat
  /\ OwnWords \subseteq Nat
  /\ Leaves \subseteq Nat
  /\ AbortSize \in Nat
  /\ AbortSize + 2 <= AreaWords

VARIABLES
  area,      \* the words past the head
  endWord,   \* END, the words of records the turn left
  len,       \* words the turn has recorded
  mark,      \* the transaction, open or spilled, and where it began
  bytesHeld, \* the bytes of writes, kept until the next rise
  runs,      \* how often the host has run what END now says
  phase,     \* who has the range
  stream     \* which stream it is

recordsVars == <<area, endWord, len, mark, bytesHeld, runs, phase, stream>>

Record    == [name : Contents, n : OwnWords, write : BOOLEAN]
AbortRec  == [name |-> "abort", n |-> AbortSize, write |-> FALSE]
Zero      == [rec |-> AbortRec, k |-> -1]
AreaWord  == [rec : Record \cup {AbortRec}, k : -1 .. AreaWords]
Off       == [state |-> "off", at |-> 0]
-----------------------------------------------------------------------------
RecordWords(rec) == 2 + rec.n

\* Mutant of Left: the head's word is counted for the records.
LeftWithHead == AreaWords + 1 - len

Left == AreaWords - len

RecordsInit ==
  /\ area = [i \in 0 .. AreaWords - 1 |-> Zero]
  /\ endWord = 0
  /\ len = 0
  /\ mark = Off
  /\ bytesHeld = {}
  /\ runs = 1
  /\ phase = "host"
  /\ stream \in {"program", "sys"}

InTurn == phase = "guest"

\* The record's words, from where it is opened.
Laid(rec, at) ==
  [i \in DOMAIN area |->
    IF i \in at .. at + RecordWords(rec) - 1 THEN [rec |-> rec, k |-> i - at] ELSE area[i]]

RecordsRise ==
  /\ phase = "host"
  /\ phase' = "guest"
  /\ bytesHeld' = {}
  /\ UNCHANGED <<area, endWord, len, mark, runs, stream>>

\* A record written where it fits.
Lay(rec) ==
  /\ RecordWords(rec) <= Left
  /\ area' = Laid(rec, len)
  /\ len' = len + RecordWords(rec)
  /\ UNCHANGED mark

\* A record that does not fit drops its transaction.
Spill(rec) ==
  /\ mark.state = "open"
  /\ RecordWords(rec) > Left
  /\ mark' = [mark EXCEPT !.state = "spilled"]
  /\ UNCHANGED <<area, len>>

\* The room for a record, in `reserve`; nothing after a spill.
Reserve(rec) ==
  /\ mark.state # "spilled"
  /\ Lay(rec) \/ Spill(rec)

Put(rec) ==
  /\ InTurn
  /\ ~ rec.write
  /\ Reserve(rec)
  /\ UNCHANGED <<endWord, bytesHeld, runs, phase, stream>>

\* A write's record names bytes that the guest keeps.
Write(rec) ==
  /\ InTurn
  /\ stream = "sys"
  /\ rec.write
  /\ Reserve(rec)
  /\ bytesHeld' = bytesHeld \cup {rec.name}
  /\ UNCHANGED <<endWord, runs, phase, stream>>

\* `try_call`: recorded only where it leaves the room asked for.
TryCall(rec, leave) ==
  /\ stream = "sys"
  /\ RecordWords(rec) + leave <= Left
  /\ Put(rec)

\* Laid past the turn's last for a hostcall, and never published.
Past(rec) ==
  /\ RecordWords(rec) <= Left
  /\ area' = Laid(rec, len)
  /\ UNCHANGED <<len, mark>>

CallNow(rec) ==
  /\ InTurn
  /\ stream = "sys"
  /\ ~ rec.write
  /\ Past(rec)
  /\ UNCHANGED <<endWord, bytesHeld, runs, phase, stream>>

BeginTransaction ==
  /\ InTurn
  /\ stream = "program"
  /\ mark = Off
  /\ mark' = [state |-> "open", at |-> len]
  /\ UNCHANGED <<area, endWord, len, bytesHeld, runs, phase, stream>>

\* Mutant of Rewound: what fitted of a spilled transaction is kept.
RewoundKept == len

Rewound == IF mark.state = "spilled" THEN mark.at ELSE len

CommitTransaction ==
  /\ InTurn
  /\ mark # Off
  /\ len' = Rewound
  /\ mark' = Off
  /\ UNCHANGED <<area, endWord, bytesHeld, runs, phase, stream>>

PublishEnd(n) ==
  /\ endWord' = n
  /\ len' = 0
  /\ runs' = 0

\* Mutant of RecordsFall: the bytes go as the turn ends.
FallDropping ==
  /\ InTurn
  /\ mark = Off
  /\ PublishEnd(len)
  /\ phase' = "left"
  /\ bytesHeld' = {}
  /\ UNCHANGED <<area, mark, stream>>

RecordsFall ==
  /\ InTurn
  /\ mark = Off
  /\ PublishEnd(len)
  /\ phase' = "left"
  /\ UNCHANGED <<area, mark, bytesHeld, stream>>

\* Mutant of Abort: laid after what the turn recorded.
AbortAfter ==
  /\ InTurn
  /\ stream = "sys"
  /\ RecordWords(AbortRec) <= Left
  /\ area' = Laid(AbortRec, len)
  /\ PublishEnd(len + RecordWords(AbortRec))
  /\ phase' = "trapped"
  /\ UNCHANGED <<mark, bytesHeld, stream>>

(***************************************************************************)
(* A bug stops the guest: its report drops what the turn recorded, lays    *)
(* the abort alone and publishes it, and the guest traps.  A record past   *)
(* the range, outside a transaction, is such a bug; so is any other        *)
(* `ensure` that fails.                                                    *)
(***************************************************************************)
Abort ==
  /\ InTurn
  /\ stream = "sys"
  /\ area' = Laid(AbortRec, 0)
  /\ PublishEnd(RecordWords(AbortRec))
  /\ phase' = "trapped"
  /\ UNCHANGED <<mark, bytesHeld, stream>>

\* A trap that reports nothing: the stack run out, an access out of bounds.
Trap ==
  /\ InTurn
  /\ phase' = "trapped"
  /\ UNCHANGED <<area, endWord, len, mark, bytesHeld, runs, stream>>

\* The host runs what END says, whether the turn returned or trapped.
RunRecords ==
  /\ phase \in {"left", "trapped"}
  /\ runs' = runs + 1
  /\ phase' = IF phase = "left" THEN "host" ELSE "stopped"
  /\ UNCHANGED <<area, endWord, len, mark, bytesHeld, stream>>

RecordsNext ==
  \/ RecordsRise
  \/ \E rec \in Record : Put(rec) \/ Write(rec) \/ CallNow(rec)
  \/ \E rec \in Record, leave \in Leaves : TryCall(rec, leave)
  \/ BeginTransaction
  \/ CommitTransaction
  \/ RecordsFall
  \/ Abort
  \/ Trap
  \/ RunRecords

RecordsSpec == RecordsInit /\ [][RecordsNext]_recordsVars
-----------------------------------------------------------------------------
RecordsTypeOK ==
  /\ area \in [0 .. AreaWords - 1 -> AreaWord]
  /\ endWord \in 0 .. AreaWords
  /\ len \in 0 .. AreaWords
  /\ mark \in [state : {"off", "open", "spilled"}, at : 0 .. AreaWords]
  /\ bytesHeld \subseteq Contents
  /\ runs \in 0 .. 2
  /\ phase \in {"guest", "left", "host", "trapped", "stopped"}
  /\ stream \in {"program", "sys"}

Misread == [name |-> "misread", n |-> 0, write |-> FALSE]

\* A record whose words all stand where its header says.
WholeIn(a, at) ==
  /\ a[at].k = 0
  /\ at + RecordWords(a[at].rec) <= AreaWords
  /\ \A i \in 1 .. RecordWords(a[at].rec) - 1 : a[at + i] = [rec |-> a[at].rec, k |-> i]

\* The records a reader comes to from a word on, up to `end` (each_record).
Reading(a, end) ==
  LET From[at \in 0 .. AreaWords] ==
        IF at >= end THEN <<>>
        ELSE IF WholeIn(a, at)
        THEN <<a[at].rec>> \o From[at + RecordWords(a[at].rec)]
        ELSE <<Misread>>
  IN  From

RecsIn(a, end) == Reading(a, end)[0]
RecsTo(end)    == RecsIn(area, end)

Count(end) == Len(RecsTo(end))

RecsOf(recs) == {recs[i] : i \in DOMAIN recs}

\* What the log holds of the turn, of its open transaction, and of what the
\* host was handed.
TurnLog  == IF phase = "guest" THEN RecsTo(len) ELSE <<>>
TurnFrom == IF phase = "guest" /\ mark # Off THEN Count(mark.at) ELSE -1
TurnLost == phase = "guest" /\ mark.state = "spilled"
HostLog  == IF phase \in {"left", "host"} THEN RecsTo(endWord) ELSE <<>>
Stopped  == phase \in {"trapped", "stopped"}

(***************************************************************************)
(* The stream is a log: what the turn recorded stands whole and in order,  *)
(* transactions whole or not at all, hostcalls' records never among them;  *)
(* and it is what the host reads between the turn's end and the next.      *)
(***************************************************************************)
Promise == INSTANCE Log WITH
  Room  <- AreaWords,
  Recs  <- Record,
  WordsOf <- RecordWords,
  log   <- TurnLog,
  from  <- TurnFrom,
  lost  <- TurnLost,
  given <- HostLog,
  gone  <- Stopped

ImplementsLog == Promise!Spec

\* A record the host runs that names bytes finds them: the guest keeps a
\* write's until it runs again (Sys.held_), and no turn that returns left more.
WriteBytesStand ==
  phase = "left" => \A rec \in RecsOf(RecsTo(endWord)) : rec.write => rec.name \in bytesHeld

\* What a guest that stopped itself says is all the host runs of its turn:
\* "what was recorded before it is dropped" (Sys::abort).
AbortAlone ==
  phase = "trapped" /\ runs = 0 => RecsTo(endWord) = <<AbortRec>>

\* "The records a turn left, run after it returns and before the next begins"
\* (host ipc/sys.ts): so a record is run once.
RecordsRunOnce == endWord # 0 => runs <= 1

(***************************************************************************)
(* The stream is a log of whole transactions, run in their order: one that *)
(* does not fit takes nothing with it and leaves nothing behind. The bytes *)
(* a write names stand until the host has run its record, and the abort's  *)
(* record is run alone, over what the turn had recorded.                   *)
(***************************************************************************)
RecordsRunWhole ==
  /\ ImplementsLog
  /\ [](RecordsTypeOK /\ WriteBytesStand /\ AbortAlone)
=============================================================================
