------------------------------- MODULE Strobe -------------------------------
(***************************************************************************)
(* When a guest's turn is rung (host sched/strobe.ts): a turn is asked for *)
(* by the host or by a falling edge, at once or by a timer, and rung at a  *)
(* moment the scheduling policy gives and admits (sched/policy.ts).  Turns *)
(* are rung by others too, whose falling edges are told the strobe alike   *)
(* (host ipc/doorbell.ts).                                                 *)
(*                                                                         *)
(* Time is counted down: a wait is the ms left, `Never` stands for the     *)
(* infinite and for NO_WAKE, and a tick of the clock takes one off each.   *)
(***************************************************************************)
EXTENDS Integers

CONSTANTS
  Reach,    \* the longest delay a timer takes: 2^31 - 1 ms
  MaxWake   \* the longest wait a guest asks for

ASSUME StrobeAssumption ==
  /\ Reach \in Nat \ {0}
  /\ MaxWake \in Nat
  /\ Reach <= MaxWake

VARIABLES
  running,   \* started, and not stopped since
  asked,     \* a moment is asked of the policy and not yet given
  moments,   \* the calls the policy owes: its `next`s not yet given
  timer,     \* the ms left of the event loop's timer
  timer_at,  \* the ms left until when the strobe takes it to fire
  pc,        \* where the host is: see Places
  edge,      \* what the falling edge asked for, while what it left is read
  gone,      \* the guest has trapped
  due,       \* history: the soonest turn asked for since the strobe's last
  thrown     \* history: an exception has come through the strobe since

vars == <<running, asked, moments, timer, timer_at, pc, edge, gone, due, thrown>>

Never == MaxWake + 1
Waits == 0 .. Never
NoEdge == -1

\* "idle": between two tasks.  "submit": the strobe's turn, its rings being
\* filled.  The rest ring a turn: "own", the strobe's; "other", anyone's
\* between two tasks; "nested", a send's inside `submit`, making room.
Places == {"idle", "submit", "own", "other", "nested"}
Rings == {"own", "other", "nested"}

Sooner(a, b) == IF a <= b THEN a ELSE b

Init ==
  /\ running = FALSE
  /\ asked = FALSE
  /\ moments = 0
  /\ timer = Never
  /\ timer_at = Never
  /\ pc = "idle"
  /\ edge = NoEdge
  /\ gone = FALSE
  /\ due = Never
  /\ thrown = FALSE
-----------------------------------------------------------------------------
\* Mutant of MayAsk: a second moment is asked while one is owed.
MayAskAgain(on) == on

MayAsk(on) == on /\ ~asked

Ask(on) ==
  IF MayAsk(on)
    THEN asked' = TRUE /\ moments' = moments + 1
    ELSE UNCHANGED <<asked, moments>>

\* The host's code runs: between tasks, in `submit`, or as a listener.
HostCode == pc \in {"idle", "submit"} \/ edge # NoEdge

Request ==
  /\ HostCode
  /\ Ask(running)
  /\ UNCHANGED <<running, timer, timer_at, pc, edge, gone, due, thrown>>

Start ==
  /\ HostCode
  /\ running' = TRUE
  /\ Ask(TRUE)
  /\ UNCHANGED <<timer, timer_at, pc, edge, gone, due, thrown>>

ClearTimer == timer' = Never /\ timer_at' = Never

\* A moment already asked for stays asked.
Stop ==
  /\ HostCode
  /\ running' = FALSE
  /\ ClearTimer
  /\ UNCHANGED <<asked, moments, pc, edge, gone, due, thrown>>

\* The timer's task.
TimerFires ==
  /\ pc = "idle"
  /\ timer = 0
  /\ ClearTimer
  /\ Ask(running)
  /\ UNCHANGED <<running, pc, edge, gone, due, thrown>>
-----------------------------------------------------------------------------
\* The policy gives a moment, a task of its own.
Given == pc = "idle" /\ moments > 0

\* A strobe stopped since takes no turn.
GivenStopped ==
  /\ Given
  /\ ~running
  /\ asked' = FALSE
  /\ moments' = moments - 1
  /\ UNCHANGED <<running, timer, timer_at, pc, edge, gone, due, thrown>>

\* Mutant of AskNext: a moment not admitted is let go.
AskNextNot == asked' = FALSE /\ moments' = moments - 1

\* The moment passes to the next: one given, one asked.
AskNext == asked' = TRUE /\ UNCHANGED moments

GivenRefused ==
  /\ Given
  /\ running
  /\ AskNext
  /\ UNCHANGED <<running, timer, timer_at, pc, edge, gone, due, thrown>>

\* Admitted: the turn's own falling edge is to ask anew, so the timer goes.
GivenAdmitted ==
  /\ Given
  /\ running
  /\ asked' = FALSE
  /\ moments' = moments - 1
  /\ ClearTimer
  /\ pc' = "submit"
  /\ UNCHANGED <<running, edge, gone, due, thrown>>

\* The rings are filled, and the turn rung; none of a guest that is gone.
RingOwn ==
  /\ pc = "submit"
  /\ IF gone
       THEN pc' = "idle" /\ UNCHANGED <<due, thrown>>
       ELSE pc' = "own" /\ due' = Never /\ thrown' = FALSE
  /\ UNCHANGED <<running, asked, moments, timer, timer_at, edge, gone>>

SubmitThrows ==
  /\ pc = "submit"
  /\ pc' = "idle"
  /\ thrown' = TRUE
  /\ UNCHANGED <<running, asked, moments, timer, timer_at, edge, gone, due>>

\* A send, a call or a page rings: between tasks, or inside `submit`.
RingOther ==
  /\ pc \in {"idle", "submit"}
  /\ ~gone
  /\ pc' = IF pc = "idle" THEN "other" ELSE "nested"
  /\ UNCHANGED <<running, asked, moments, timer, timer_at, edge, gone, due, thrown>>

\* The falling edge: `w` ms from now, 0 the next turn, Never none.
Fall(w) ==
  /\ pc \in Rings
  /\ edge = NoEdge
  /\ edge' = w
  /\ UNCHANGED <<running, asked, moments, timer, timer_at, pc, gone, due, thrown>>

\* Mutant of Clamped: a wait as long as the guest asked.
ClampedNot(w) == w

Clamped(w) == Sooner(w, Reach)

\* A delay past its reach, the event loop's timer fires at once.
Armed(wait) == IF wait > Reach THEN 0 ELSE wait

\* Mutant of Kept: the last wait asked for is kept.
KeptLast(wait) == FALSE

\* The timer set is the sooner, and stays.
Kept(wait) == wait >= timer_at

SetTimer(wait) == timer' = Armed(wait) /\ timer_at' = wait

\* The strobe is told of the wake.
Wake(w) ==
  LET wait == Clamped(w)
  IN  CASE w = 0 -> Ask(running) /\ UNCHANGED <<timer, timer_at>>
        [] w \in 1 .. MaxWake ->
             /\ IF running /\ ~Kept(wait)
                  THEN SetTimer(wait)
                  ELSE UNCHANGED <<timer, timer_at>>
             /\ UNCHANGED <<asked, moments>>
        [] OTHER -> UNCHANGED <<asked, moments, timer, timer_at>>

\* What the turn left is read, and the ring returns.
EndRing ==
  /\ pc \in Rings
  /\ edge # NoEdge
  /\ Wake(edge)
  /\ due' = Sooner(due, edge)
  /\ edge' = NoEdge
  /\ pc' = IF pc = "nested" THEN "submit" ELSE "idle"
  /\ UNCHANGED <<running, gone, thrown>>

\* A listener's exception, through the ring and whatever rang.
ListenerThrows ==
  /\ pc \in Rings
  /\ edge # NoEdge
  /\ due' = Sooner(due, edge)
  /\ edge' = NoEdge
  /\ pc' = "idle"
  /\ thrown' = TRUE
  /\ UNCHANGED <<running, asked, moments, timer, timer_at, gone>>

\* The guest's.
Trap ==
  /\ pc \in Rings
  /\ edge = NoEdge
  /\ gone' = TRUE
  /\ pc' = "idle"
  /\ UNCHANGED <<running, asked, moments, timer, timer_at, edge, due, thrown>>

Less(wait) == IF wait \in {0, Never} THEN wait ELSE wait - 1

Tick ==
  /\ timer' = Less(timer)
  /\ timer_at' = Less(timer_at)
  /\ due' = Less(due)
  /\ UNCHANGED <<running, asked, moments, pc, edge, gone, thrown>>

Next ==
  \/ Request \/ Start \/ Stop
  \/ TimerFires
  \/ GivenStopped \/ GivenRefused \/ GivenAdmitted
  \/ RingOwn \/ SubmitThrows \/ RingOther
  \/ \E w \in Waits : Fall(w)
  \/ EndRing \/ ListenerThrows \/ Trap
  \/ Tick

Spec == Init /\ [][Next]_vars

\* Turns and tasks end, the clock runs, and the event loop comes to a task
\* that is due however many others there are.  The policy admits a moment in
\* the end, as a pacing to the display does once its interval has passed.
Fairness ==
  /\ WF_vars(Tick)
  /\ WF_vars(\E w \in Waits : Fall(w))
  /\ WF_vars(EndRing)
  /\ SF_vars(RingOwn)
  /\ SF_vars(TimerFires)
  /\ SF_vars(GivenAdmitted)

FairSpec == Spec /\ Fairness
-----------------------------------------------------------------------------
TypeOK ==
  /\ running \in BOOLEAN
  /\ asked \in BOOLEAN
  /\ moments \in Nat
  /\ timer \in 0 .. Reach \cup {Never}
  /\ timer_at \in 0 .. Reach \cup {Never}
  /\ pc \in Places
  /\ edge \in Waits \cup {NoEdge}
  /\ gone \in BOOLEAN
  /\ due \in Waits
  /\ thrown \in BOOLEAN

(***************************************************************************)
(* `asked` is the policy's debt: one moment is owed where it is set, and   *)
(* none where it is not, over every stop, start and refused moment between *)
(* (Strobe.request, turn).  A second would run turns nobody asked for.     *)
(***************************************************************************)
OneMoment == moments = IF asked THEN 1 ELSE 0

(***************************************************************************)
(* The strobe's idea of its timer is the event loop's: it fires neither    *)
(* sooner, which would run a turn at once for a wait past its reach, nor   *)
(* later, which would lose a wait between (Strobe.wake).                   *)
(***************************************************************************)
TimerAgrees == timer = timer_at

(***************************************************************************)
(* What the policy's comment says of the strobe: it "keeps the guest's     *)
(* wake_ms".  While it runs, the soonest turn any falling edge asked for   *)
(* since the strobe's last turn is asked of the policy, or a timer is set  *)
(* to ask it no later.                                                     *)
(***************************************************************************)
WakeAlwaysKept ==
  pc = "idle" /\ running /\ ~gone /\ due # Never => asked \/ timer <= due

(***************************************************************************)
(* The same where no exception has come between, from a listener or from   *)
(* `submit`: over the timers cleared and set anew, stops, starts, refused  *)
(* moments and turns others ring (Strobe.wake, turn).                      *)
(***************************************************************************)
WakeKept == ~thrown => WakeAlwaysKept

(***************************************************************************)
(* A turn that the host or a falling edge asked for is rung, unless the    *)
(* strobe is stopped, the guest gone or an exception came between.         *)
(***************************************************************************)
TurnGiven ==
  running /\ (asked \/ due # Never) ~>
    pc = "own" \/ ~running \/ gone \/ thrown
=============================================================================
