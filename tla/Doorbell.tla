------------------------------ MODULE Doorbell ------------------------------
(***************************************************************************)
(* The host's end of a guest's rings, the doorbell (host ipc/doorbell.ts), *)
(* composed with the guest's door: sends, calls, the wait for room, the    *)
(* turn rung inside each, the completions read after it, a listener that   *)
(* throws, a guest that traps; and the one thing the strobe keeps of it    *)
(* all, that a moment is asked for (host sched/strobe.ts).                 *)
(*                                                                         *)
(* The host is one thread: one operation at a time, each a loop around     *)
(* turns.  `KeepsContract` says it is a host as Door takes one to be.      *)
(***************************************************************************)
EXTENDS Door

CONSTANTS
  Ports,           \* ports the host sends as, and the guest raises for
  IdMod,           \* ids a tag has: 2^24 in the code
  ListenersThrow   \* whether a listener, or a call's reader, may throw

Task == [tag : Tags, kind : Kinds, ack : BOOLEAN]
Call == [tag : Tags, n : Nat]
Taken == [n : Nat \ {0}, ok : BOOLEAN]

ASSUME DoorbellAssumption ==
  /\ IdMod \in Nat \ {0}
  /\ Tags = [port : Ports, id : 0 .. IdMod - 1]
  /\ ListenersThrow \in BOOLEAN
  /\ None \notin Call \cup Taken

VARIABLES
  op,       \* the operation running: see Ops
  task,     \* the submission it has yet to push
  call,     \* the call waiting: its tag, and its submission's number once pushed
  answer,   \* what its reply handed it
  dry,      \* the submission ring was empty before the turn rung for the call
  nextCall, \* the last call's id
  reading,  \* the completion ring is being read
  trapped,  \* the guest is known to be gone
  hearing,  \* the ports listened on
  asked,    \* the strobe waits for a moment it asked the policy for
  protocol  \* history: a call found that its reply was never to come

hostVars == <<op, task, call, answer, dry, nextCall, reading, trapped, hearing,
              asked, protocol>>
bellVars == <<doorVars, hostVars>>

\* "writer", "submit": waiting for room, to begin the packet writer or to push
\* `task`.  "await": a call, pushed, until its reply.  "ring": one turn.
Ops == {"idle", "writer", "submit", "await", "ring"}

Tagged(port, id) == [port |-> port, id |-> id]
-----------------------------------------------------------------------------
BellInit ==
  /\ Init
  /\ op = "idle"
  /\ task = None
  /\ call = None
  /\ answer = None
  /\ dry = FALSE
  /\ nextCall = 0
  /\ reading = FALSE
  /\ trapped = FALSE
  /\ hearing = {}
  /\ asked = FALSE
  /\ protocol = FALSE

\* The host runs, outside a turn, the reading after it, and its exception.
HostRuns == (pc = "host" \/ trapped) /\ ~reading

Idle == HostRuns /\ op = "idle"

\* What leaving an operation undoes, by its return or by an exception.
Leave == op' = "idle" /\ task' = None /\ call' = None /\ answer' = None /\ dry' = FALSE

\* Mutant of RunTurn: a trapped guest is rung again.
RunTurnTrapped ==
  /\ pc' = "drain"
  /\ UNCHANGED <<sq, cq, cur, raised, wake, applied, book>>

\* One turn begins: the guest's `run`, whatever state it is in.
RunTurn ==
  /\ ~trapped
  /\ pc' = "drain"
  /\ UNCHANGED <<sq, cq, cur, raised, wake, applied, book>>
-----------------------------------------------------------------------------
\* A send carries id 0 and waits for nothing.  A trapped guest's is dropped.
Send(port, kind) ==
  /\ Idle
  /\ ~trapped
  /\ kind \in KindsOf(port)
  /\ op' = "submit"
  /\ task' = [tag |-> Tagged(port, 0), kind |-> kind, ack |-> FALSE]
  /\ UNCHANGED <<doorVars, call, answer, dry, nextCall, reading, trapped, hearing,
                 asked, protocol>>

\* Mutant of NextId: never advanced.
SameId == nextCall

NextId == (nextCall + 1) % IdMod

\* A call takes the next id and asks for a reply; on a trapped guest it throws.
StartCall(port, kind) ==
  /\ Idle
  /\ ~trapped
  /\ kind \in KindsOf(port)
  /\ nextCall' = NextId
  /\ op' = "submit"
  /\ task' = [tag |-> Tagged(port, NextId), kind |-> kind, ack |-> TRUE]
  /\ call' = [tag |-> Tagged(port, NextId), n |-> 0]
  /\ UNCHANGED <<doorVars, answer, dry, reading, trapped, hearing, asked, protocol>>

\* The packet writer, begun over the next submission's slot.
StartWriter ==
  /\ Idle
  /\ ~trapped
  /\ op' = "writer"
  /\ UNCHANGED <<doorVars, task, call, answer, dry, nextCall, reading, trapped,
                 hearing, asked, protocol>>

Listen(port) ==
  /\ Idle
  /\ hearing' = hearing \cup {port}
  /\ UNCHANGED <<doorVars, op, task, call, answer, dry, nextCall, reading, trapped,
                 asked, protocol>>

\* A turn rung by whoever has the doorbell; none of a trapped guest.
Ring ==
  /\ Idle
  /\ RunTurn
  /\ op' = "ring"
  /\ UNCHANGED <<task, call, answer, dry, nextCall, reading, trapped, hearing,
                 asked, protocol>>

\* The strobe's moment has come: it rings the turn that was asked for.
Strobe ==
  /\ Idle
  /\ asked
  /\ asked' = FALSE
  /\ IF trapped
       THEN UNCHANGED <<doorVars, op>>
       ELSE RunTurn /\ op' = "ring"
  /\ UNCHANGED <<task, call, answer, dry, nextCall, reading, trapped, hearing, protocol>>

\* A turn asked for by the host, or by the timer of a falling edge's "later".
Request ==
  /\ Idle
  /\ asked' = TRUE
  /\ UNCHANGED <<doorVars, op, task, call, answer, dry, nextCall, reading, trapped,
                 hearing, protocol>>
-----------------------------------------------------------------------------
\* Mutant of SqRoom: off by one.
SqRoomOneMore == Len(sq) <= SqCap

SqRoom == Len(sq) < SqCap

\* There is room: the task is pushed, and a call goes on to wait.
PushTask ==
  /\ HostRuns
  /\ op = "submit"
  /\ SqRoom
  /\ sq' = Append(sq, [n |-> Len(book) + 1, tag |-> task.tag, kind |-> task.kind,
                       ack |-> task.ack])
  /\ book' = Append(book, [ack |-> task.ack, failed |-> FALSE, replies |-> 0])
  /\ task' = None
  /\ IF call = None
       THEN op' = "idle" /\ UNCHANGED call
       ELSE op' = "await" /\ call' = [call EXCEPT !.n = Len(book) + 1]
  /\ UNCHANGED <<cq, pc, cur, raised, wake, applied, answer, dry, nextCall, reading,
                 trapped, hearing, asked, protocol>>

\* There is room, and the ring refuses the packet: too long for a slot
\* (EMSGSIZE), or its writer begun over another.  The operation throws.
RefusePacket ==
  /\ HostRuns
  /\ op = "submit"
  /\ SqRoom
  /\ Leave
  /\ UNCHANGED <<doorVars, nextCall, reading, trapped, hearing, asked, protocol>>

BeginWriter ==
  /\ HostRuns
  /\ op = "writer"
  /\ SqRoom
  /\ op' = "idle"
  /\ UNCHANGED <<doorVars, task, call, answer, dry, nextCall, reading, trapped,
                 hearing, asked, protocol>>

\* There is none: a turn makes some.
RingForRoom ==
  /\ HostRuns
  /\ op \in {"submit", "writer"}
  /\ ~SqRoom
  /\ RunTurn
  /\ UNCHANGED hostVars

\* A call's next turn, as long as its reply has not come.
RingForReply ==
  /\ HostRuns
  /\ op = "await"
  /\ answer = None
  /\ ~dry
  /\ RunTurn
  /\ dry' = (sq = <<>>)
  /\ UNCHANGED <<op, task, call, answer, nextCall, reading, trapped, hearing, asked,
                 protocol>>

\* The reply has come, or the last turn had nothing left to apply and there is
\* none to come: the call throws EPROTO.
EndCall ==
  /\ HostRuns
  /\ op = "await"
  /\ answer # None \/ dry
  /\ protocol' = (protocol \/ answer = None)
  /\ Leave
  /\ UNCHANGED <<doorVars, nextCall, reading, trapped, hearing, asked>>
-----------------------------------------------------------------------------
\* The falling edge returns to the host, which reads what the turn left.
Return(w) ==
  /\ Fall(w)
  /\ reading' = TRUE
  /\ UNCHANGED <<op, task, call, answer, dry, nextCall, trapped, hearing, asked, protocol>>

\* A reply goes to the call that waits for its tag; one nobody waits for is
\* dropped, a failure printed.
ReadReply ==
  /\ reading
  /\ cq # <<>>
  /\ Head(cq).res
  /\ IF call # None /\ Head(cq).tag = call.tag
       THEN answer' = [n |-> Head(cq).n, ok |-> Head(cq).ok]
       ELSE UNCHANGED answer
  /\ cq' = Tail(cq)
  /\ UNCHANGED <<sq, pc, cur, raised, wake, applied, book, op, task, call, dry,
                 nextCall, reading, trapped, hearing, asked, protocol>>

\* An event goes to its port's listener, or to no one.
ReadEvent ==
  /\ reading
  /\ cq # <<>>
  /\ ~Head(cq).res
  /\ cq' = Tail(cq)
  /\ UNCHANGED <<sq, pc, cur, raised, wake, applied, book, hostVars>>

\* A listener or a call's own reader throws, or rings or sends and is refused
\* (EBUSY): the exception leaves through the read and through the operation,
\* its frame not advanced.
ListenerThrows ==
  /\ ListenersThrow
  /\ reading
  /\ cq # <<>>
  /\ IF Head(cq).res
       THEN call # None /\ Head(cq).tag = call.tag
       ELSE Head(cq).tag.port \in hearing
  /\ reading' = FALSE
  /\ Leave
  /\ UNCHANGED <<doorVars, nextCall, trapped, hearing, asked, protocol>>

\* Mutant of Told: only a turn rung for itself tells of its wake.
ToldByRing == asked \/ (op = "ring" /\ wake = "next")

Told == asked \/ wake = "next"

\* The ring is read dry, and the strobe told of the wake.
EndRead ==
  /\ reading
  /\ cq = <<>>
  /\ reading' = FALSE
  /\ asked' = Told
  /\ op' = IF op = "ring" THEN "idle" ELSE op
  /\ UNCHANGED <<doorVars, task, call, answer, dry, nextCall, trapped, hearing, protocol>>

\* The guest's exception reaches the host: it is never run again.
Stop ==
  /\ pc \in Stopped
  /\ ~trapped
  /\ trapped' = TRUE
  /\ Leave
  /\ UNCHANGED <<doorVars, nextCall, reading, hearing, asked, protocol>>

Turn ==
  \/ /\ \/ Hand \/ SettleOwn \/ EndDrain
        \/ \E ok \in BOOLEAN : Answer(ok)
        \/ \E tag \in Tags : Raise(tag)
     /\ UNCHANGED hostVars
  \/ \E w \in Wakes : Return(w)

HostStep ==
  \/ PushTask \/ RefusePacket \/ BeginWriter \/ RingForRoom \/ RingForReply \/ EndCall
  \/ ReadReply \/ ReadEvent \/ ListenerThrows \/ EndRead \/ Stop

BellNext ==
  \/ \E port \in Ports, kind \in Kinds : Send(port, kind) \/ StartCall(port, kind)
  \/ \E port \in Ports : Listen(port)
  \/ StartWriter \/ Ring \/ Strobe \/ Request
  \/ HostStep
  \/ Turn
  \/ Trap /\ UNCHANGED hostVars

BellSpec == BellInit /\ [][BellNext]_bellVars

\* A turn and a host operation run on once begun.  The policy gives the moment
\* asked of it, in a task of the host's event loop, which comes to it between
\* the others however many they are.  No one owes a send, a call or a ring.
BellFairness ==
  /\ WF_bellVars(Turn)
  /\ WF_bellVars(HostStep)
  /\ SF_bellVars(Strobe)

FairBellSpec == BellSpec /\ BellFairness
-----------------------------------------------------------------------------
HostTypeOK ==
  /\ op \in Ops
  /\ task \in Task \cup {None}
  /\ call \in Call \cup {None}
  /\ answer \in Taken \cup {None}
  /\ dry \in BOOLEAN
  /\ nextCall \in 0 .. IdMod - 1
  /\ reading \in BOOLEAN
  /\ trapped \in BOOLEAN
  /\ hearing \in SUBSET Ports
  /\ asked \in BOOLEAN
  /\ protocol \in BOOLEAN

BellTypeOK == TypeOK /\ HostTypeOK

(***************************************************************************)
(* The doorbell is a host that keeps the contract, as Door takes one to    *)
(* be: it touches the rings only between turns, takes every completion     *)
(* before it rings again (rule 5), and never rings a guest that stopped.   *)
(* So all that is shown of Door holds of the two together.                 *)
(***************************************************************************)
KeepsContract == Spec

(***************************************************************************)
(* Listeners that throw leave frames unread, and the next turn is rung     *)
(* over them.  The door's guarantees hold of the boundary even so: every   *)
(* send and call is applied once and in order, replied to exactly where    *)
(* owed, and no drain overruns the completion ring (door.rs, doorbell.ts). *)
(***************************************************************************)
BoundaryHolds ==
  /\ [](BellTypeOK /\ AppliedInOrderOnce /\ ExactlyOneReply)
  /\ DrainNeverOverruns

(***************************************************************************)
(* What the doorbell's header says: "Everything a turn leaves is read      *)
(* before the next is rung".                                               *)
(***************************************************************************)
ReadBeforeRing == [][pc = "host" /\ pc' = "drain" => cq = <<>>]_bellVars

(***************************************************************************)
(* The reply a call takes is the reply to its own submission, as long as   *)
(* fewer calls were made than a tag has ids.                               *)
(***************************************************************************)
OwnReply == answer # None => call # None /\ answer.n = call.n

(***************************************************************************)
(* A call never rings for a reply that cannot come: the check that throws  *)
(* EPROTO never fires against a door that keeps rule 3.                    *)
(***************************************************************************)
NoProtocolError == ~protocol

(***************************************************************************)
(* The strobe is owed a turn whenever the guest asked for the next one and *)
(* no operation is in the midst of ringing it: no wake is lost between a   *)
(* send's or a call's own turns and the strobe's.                          *)
(***************************************************************************)
NoWakeLost ==
  op = "idle" /\ pc = "host" /\ wake = "next" => asked

(***************************************************************************)
(* A send, a call or a writer that waits for room or for a reply returns,  *)
(* whatever the completion ring's size made the guest leave for later.     *)
(***************************************************************************)
OperationsReturn == op # "idle" ~> op = "idle"

(***************************************************************************)
(* What was sent is applied in the end, with no more done by its sender,   *)
(* if the guest was given one turn after it and did not stop.              *)
(***************************************************************************)
LeftoversApplied ==
  \A n \in 1 .. SqCap + 1 :
    (Len(book) >= n /\ op = "ring") ~> (Len(applied) >= n \/ pc \in Stopped)
=============================================================================
