-------------------------------- MODULE Door --------------------------------
(***************************************************************************)
(* The guest's end of its rings, the door (guest ipc/door.rs, door.hpp):   *)
(* in a turn it applies the submissions in order while the completion ring *)
(* has room for the most one of them may leave, answers each, and posts    *)
(* what the program raises, under a drain and after it.  What it cannot    *)
(* apply waits, in order, for a later turn, which the falling edge asks.   *)
(*                                                                         *)
(* Its two rings are the bounded queues Ring implements.  The host here is *)
(* any host that keeps the contract: it submits between turns, and takes   *)
(* every completion before it rings again.                                 *)
(***************************************************************************)
EXTENDS Integers, Sequences

CONSTANTS
  SqCap,       \* frames the submission ring holds
  CqCap,       \* frames the completion ring holds
  MostEvents,  \* the most one command raises, or the turn after its drain
  Tags,        \* tags submissions carry: [port, id]
  HostPort,    \* port 0, whose commands are xpute's own
  None

\* A submission's kind.  Of xpute's own commands: "nop", "opened" (an open the
\* host completed), and "bad", one unknown or whose packet does not read.  A
\* program's command, and its packet, are the program's to read.
HostKinds == {"nop", "opened", "bad"}
Kinds == HostKinds \cup {"program"}
KindsOf(port) == IF port = HostPort THEN HostKinds ELSE {"program"}

\* `n` numbers the submissions in the order they were pushed.  It is the
\* specification's, to tell one from another of the same tag.
Submission == [n : Nat \ {0}, tag : Tags, kind : Kinds, ack : BOOLEAN]
Reply == [n : Nat \ {0}, tag : Tags, res : {TRUE}, ok : BOOLEAN]
Event == [n : {0}, tag : Tags, res : {FALSE}, ok : {TRUE}]
Entry == [ack : BOOLEAN, failed : BOOLEAN, replies : Nat]

ASSUME DoorAssumption ==
  /\ SqCap \in Nat \ {0}
  /\ MostEvents \in Nat
  /\ CqCap \in Nat
  /\ MostEvents + 1 <= CqCap
  /\ \A t \in Tags : t = [port |-> t.port, id |-> t.id]
  /\ None \notin Submission

VARIABLES
  sq,      \* submissions waiting, oldest first
  cq,      \* completions the host has not taken
  pc,      \* where the guest is: see Places
  cur,     \* the submission being applied
  raised,  \* events raised since it was handed over, or since the drain
  wake,    \* what the last falling edge asked for
  applied, \* history: the numbers of the submissions applied, in order
  book     \* history: by number, what each submission asked and was answered

doorVars == <<sq, cq, pc, cur, raised, wake, applied, book>>

\* "host": no turn runs.  "drain", "handle", "after": a turn, in its drain,
\* inside the program's handler, past the drain.  "stopped": the guest is
\* gone, by a bug it reported itself ("enospc") or any other ("trapped").
Places == {"host", "drain", "handle", "after", "enospc", "trapped"}
Stopped == {"enospc", "trapped"}
Wakes == {"next", "later", "none"}

-----------------------------------------------------------------------------
Init ==
  /\ sq = <<>>
  /\ cq = <<>>
  /\ pc = "host"
  /\ cur = None
  /\ raised = 0
  /\ wake = "none"
  /\ applied = <<>>
  /\ book = <<>>

\* Mutants of HasRoom: the reply forgotten; room asked for the whole ring's.
HasRoomForEvents == Len(cq) + MostEvents <= CqCap
HasRoomForAll == Len(cq) + SqCap * (MostEvents + 1) <= CqCap

HasRoom == Len(cq) + (MostEvents + 1) <= CqCap

\* Mutant of Pending: off by one.
PendingMany == Len(sq) > 1

Pending == sq # <<>>

\* What the program is handed: an open's completion that reads, or any
\* other sender's frame.  The rest of the host's the door settles itself.
Handed(f) == f.kind \in {"opened", "program"}

\* Mutant of Post: its ensure dropped.
PostUnchecked(f, next) == cq' = Append(cq, f) /\ pc' = next

\* A push on the completion ring: past its room the guest stops itself.
Post(f, next) ==
  IF Len(cq) < CqCap
    THEN cq' = Append(cq, f) /\ pc' = next
    ELSE cq' = cq /\ pc' = "enospc"

ReplyTo(f, ok) == [n |-> f.n, tag |-> f.tag, res |-> TRUE, ok |-> ok]

\* Mutants of Owed: a failure unasked goes unreported; a success unanswered.
OwedAsked(f, ok) == f.ack
OwedFailed(f, ok) == ~ok

Owed(f, ok) == f.ack \/ ~ok

\* Mutant of Advanced: the head is left on the ring.
NotAdvanced == sq

Advanced == Tail(sq)

\* The end of one submission: it leaves the ring, and is answered when it
\* asked or failed.
Settle(f, ok) ==
  /\ sq' = Advanced
  /\ IF Owed(f, ok)
       THEN Post(ReplyTo(f, ok), "drain")
       ELSE cq' = cq /\ pc' = "drain"
  /\ book' = [book EXCEPT ![f.n] =
       [ack |-> @.ack, failed |-> ~ok,
        replies |-> IF Owed(f, ok) /\ Len(cq) < CqCap THEN @.replies + 1 ELSE @.replies]]
-----------------------------------------------------------------------------
\* The rising edge: the turn begins with the drain.
Rise ==
  /\ pc = "host"
  /\ pc' = "drain"
  /\ UNCHANGED <<sq, cq, cur, raised, wake, applied, book>>

\* The next submission, handed to the program while it is the ring's head.
Hand ==
  /\ pc = "drain"
  /\ HasRoom
  /\ sq # <<>>
  /\ Handed(Head(sq))
  /\ cur' = Head(sq)
  /\ raised' = 0
  /\ pc' = "handle"
  /\ applied' = Append(applied, Head(sq).n)
  /\ UNCHANGED <<sq, cq, wake, book>>

\* The program's answer: a value, its error, or ENOSYS for no such command.
Answer(ok) ==
  /\ pc = "handle"
  /\ Settle(cur, ok)
  /\ cur' = None
  /\ raised' = 0
  /\ UNCHANGED <<wake, applied>>

\* A command of the host's the door settles itself: NOP answers its value,
\* a packet that does not read EBADMSG, a command it does not know ENOSYS.
SettleOwn ==
  /\ pc = "drain"
  /\ HasRoom
  /\ sq # <<>>
  /\ ~Handed(Head(sq))
  /\ Settle(Head(sq), Head(sq).kind = "nop")
  /\ applied' = Append(applied, Head(sq).n)
  /\ UNCHANGED <<cur, raised, wake>>

\* The drain ends for want of room, or of submissions.
EndDrain ==
  /\ pc = "drain"
  /\ ~HasRoom \/ sq = <<>>
  /\ pc' = "after"
  /\ raised' = 0
  /\ UNCHANGED <<sq, cq, cur, wake, applied, book>>

\* The program raises an event for a port, at most MostEvents a command and
\* as many after the drain: the bound it gave the door.
Raise(tag) ==
  /\ pc \in {"handle", "after"}
  /\ raised < MostEvents
  /\ tag.id = 0
  /\ raised' = raised + 1
  /\ Post([n |-> 0, tag |-> tag, res |-> FALSE, ok |-> TRUE], pc)
  /\ UNCHANGED <<sq, cur, wake, applied, book>>

\* The falling edge: the next turn while anything waits, else the program's.
Fall(w) ==
  /\ pc = "after"
  /\ Pending => w = "next"
  /\ wake' = w
  /\ raised' = 0
  /\ pc' = "host"
  /\ UNCHANGED <<sq, cq, cur, applied, book>>

\* The guest stops partway through a turn.
Trap ==
  /\ pc \in {"drain", "handle", "after"}
  /\ pc' = "trapped"
  /\ UNCHANGED <<sq, cq, cur, raised, wake, applied, book>>

GuestStep ==
  \/ Hand \/ SettleOwn \/ EndDrain
  \/ \E ok \in BOOLEAN : Answer(ok)
  \/ \E tag \in Tags : Raise(tag)
  \/ \E w \in Wakes : Fall(w)
-----------------------------------------------------------------------------
Submit(tag, kind, ack) ==
  /\ pc = "host"
  /\ Len(sq) < SqCap
  /\ kind \in KindsOf(tag.port)
  /\ sq' = Append(sq, [n |-> Len(book) + 1, tag |-> tag, kind |-> kind, ack |-> ack])
  /\ book' = Append(book, [ack |-> ack, failed |-> FALSE, replies |-> 0])
  /\ UNCHANGED <<cq, pc, cur, raised, wake, applied>>

TakeCompletion ==
  /\ pc = "host"
  /\ cq # <<>>
  /\ cq' = Tail(cq)
  /\ UNCHANGED <<sq, pc, cur, raised, wake, applied, book>>

\* The contract's fifth rule: what a turn left is taken before the next.
RingTurn == cq = <<>> /\ Rise

Next ==
  \/ \E tag \in Tags, kind \in Kinds, ack \in BOOLEAN :
       Submit(tag, kind, ack)
  \/ TakeCompletion
  \/ RingTurn
  \/ GuestStep
  \/ Trap

Spec == Init /\ [][Next]_doorVars

-----------------------------------------------------------------------------
TypeOK ==
  /\ sq \in Seq(Submission)
  /\ cq \in Seq(Reply \cup Event)
  /\ Len(sq) <= SqCap
  /\ Len(cq) <= CqCap
  /\ pc \in Places
  /\ cur \in Submission \cup {None}
  /\ raised \in 0 .. MostEvents
  /\ wake \in Wakes
  /\ applied \in Seq(Nat \ {0})
  /\ book \in Seq(Entry)

(***************************************************************************)
(* Rule 4 of the contract: what the host sends is applied in order, each   *)
(* submission once.  What was applied, and then what waits, is every       *)
(* submission in the order it was pushed, whatever turns it took; while a  *)
(* handler runs, its submission is both the last applied and the head.     *)
(***************************************************************************)
Handling == cur # None
Waiting == IF Handling THEN Tail(sq) ELSE sq

AppliedInOrderOnce ==
  /\ Handling => sq # <<>> /\ cur = Head(sq) /\ cur.n = Len(applied)
  /\ \A i \in 1 .. Len(applied) : applied[i] = i
  /\ \A i \in 1 .. Len(Waiting) : Waiting[i].n = Len(applied) + i
  /\ Len(book) = Len(applied) + Len(Waiting)

(***************************************************************************)
(* Rule 3: with ACKREQ a submission gets exactly one reply; without it, a  *)
(* reply only when it failed.  One not yet settled has none.               *)
(***************************************************************************)
Settled(n) == n <= Len(applied) /\ (Handling => n # cur.n)

ExactlyOneReply ==
  pc \notin Stopped =>
    \A n \in 1 .. Len(book) :
      book[n].replies = IF Settled(n) /\ (book[n].ack \/ book[n].failed) THEN 1 ELSE 0

(***************************************************************************)
(* The reserve does its work: a command is only started with room for all  *)
(* it may leave, so no event and no reply of a drain ever finds the        *)
(* completion ring full, however many commands ran before it this turn.    *)
(***************************************************************************)
RoomKept ==
  pc = "handle" => Len(cq) + (MostEvents - raised) + 1 <= CqCap

DrainNeverOverruns ==
  [][pc' = "enospc" => pc \in {"after", "enospc"}]_doorVars

(***************************************************************************)
(* What the door's own comments say of its reserve: it covers "its events, *)
(* or the turn's after the drain", so that the completion ring "holds a    *)
(* whole turn's output".                                                   *)
(***************************************************************************)
TurnOutputFits == pc # "enospc"
=============================================================================
