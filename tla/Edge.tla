-------------------------------- MODULE Edge --------------------------------
(***************************************************************************)
(* Work too long for a turn (guest sched/edge.hpp, sched/task.hpp): tasks, *)
(* each a chain of coroutine frames that await one another in place; the   *)
(* edge, which parks them until the next rising edge and asks for it; and  *)
(* a notice, which a task waits for and no turn is asked for.              *)
(*                                                                         *)
(* The executor is the program's: it resumes what it was woken with, in    *)
(* any order.  So is what assembles the turn: it polls until nothing is    *)
(* runnable or it asks for the next turn.  Time is counted down, as in     *)
(* Strobe: a wait is the ms left, `Never` none.                            *)
(***************************************************************************)
EXTENDS Naturals, Sequences, FiniteSets

CONSTANTS
  Frames,    \* coroutine frames the heap has room for
  ParkRoom,  \* tasks the edge parks
  MaxWait,   \* the longest quota or wait
  NoAwaiter

EdgeAssumption ==
  /\ IsFiniteSet(Frames)
  /\ NoAwaiter \notin Frames
  /\ ParkRoom \in Nat
  /\ MaxWait \in Nat

VARIABLES
  risen,       \* between a rising edge and its falling edge
  state,       \* each frame's: see FrameStates
  cont,        \* the frame that awaits it, PromiseBase::continuation
  parked,      \* the edge's wakers
  nextAsked,   \* a next turn is asked for
  wakeIn,      \* the ms until the wake asked for
  untilYield,  \* the ms until the tasks yield
  waker,       \* the notice's waiter
  notified,    \* a notice is kept
  answer,      \* what the last falling edge asked: see `Fall`
  owed,        \* history: a notice no waiter has come past since
  soonest      \* history: the soonest wake asked for since the last falling edge

edgeVars == <<risen, state, cont, parked, nextAsked, wakeIn, untilYield, waker,
              notified, answer, owed, soonest>>
taskVars == <<state, cont, parked, waker, notified, owed>>
askVars  == <<risen, nextAsked, wakeIn, untilYield, answer, soonest>>

Never == MaxWait + 1
Waits == 0 .. Never

\* "none": no such frame.  "ready": the executor holds it.  "awaits": another
\* frame, which goes on into it.  "parked", "waits": the edge or the notice
\* holds it, or its waker.
FrameStates == {"none", "ready", "runs", "awaits", "parked", "waits"}

In(st) == {f \in Frames : state[f] = st}
Running == In("runs")
Sooner(a, b) == IF a <= b THEN a ELSE b
Later(a, b)  == IF a >= b THEN a ELSE b

EdgeInit ==
  /\ risen = FALSE
  /\ state = [f \in Frames |-> "none"]
  /\ cont = [f \in Frames |-> NoAwaiter]
  /\ parked = <<>>
  /\ nextAsked = FALSE
  /\ wakeIn = Never
  /\ untilYield = 0
  /\ waker = NoAwaiter
  /\ notified = FALSE
  /\ answer = Never
  /\ owed = FALSE
  /\ soonest = Never
-----------------------------------------------------------------------------
\* Outside the tasks: the program's own code, the handlers of the drain.
Program == risen /\ Running = {}

Tasks == Cardinality({f \in Frames : state[f] # "none" /\ \A g \in Frames : cont[g] # f})

\* The program sizes its edge for its tasks.
RootsFit == Tasks < ParkRoom

\* A task is made where the heap has room, and given to the executor.
Spawn(f) ==
  /\ Program
  /\ RootsFit
  /\ state[f] = "none"
  /\ state' = [state EXCEPT ![f] = "ready"]
  /\ UNCHANGED <<cont, parked, waker, notified, owed>>
  /\ UNCHANGED askVars

Wakened(st) == [f \in Frames |-> IF \E i \in DOMAIN parked : parked[i] = f THEN "ready" ELSE st[f]]

\* Mutant of Rise: the list of the parked is not emptied.
RiseKept(quota) ==
  /\ ~ risen
  /\ risen' = TRUE
  /\ untilYield' = quota
  /\ state' = Wakened(state)
  /\ answer' = Never
  /\ UNCHANGED <<cont, parked, nextAsked, wakeIn, waker, notified, owed, soonest>>

Rise(quota) ==
  /\ ~ risen
  /\ risen' = TRUE
  /\ untilYield' = quota
  /\ state' = Wakened(state)
  /\ parked' = <<>>
  /\ answer' = Never
  /\ UNCHANGED <<cont, nextAsked, wakeIn, waker, notified, owed, soonest>>

\* The executor goes on with a frame it holds.
Resume(f) ==
  /\ Program
  /\ state[f] = "ready"
  /\ state' = [state EXCEPT ![f] = "runs"]
  /\ UNCHANGED <<cont, parked, waker, notified, owed>>
  /\ UNCHANGED askVars

\* Mutant of Await: the frame awaited is the executor's as well.
AwaitSpawned(f, g) ==
  /\ state[f] = "runs"
  /\ state[g] = "none"
  /\ state' = [state EXCEPT ![f] = "ready", ![g] = "runs"]
  /\ cont' = [cont EXCEPT ![g] = f]
  /\ UNCHANGED <<parked, waker, notified, owed>>
  /\ UNCHANGED askVars

\* A frame awaits another, which runs in its place.
Await(f, g) ==
  /\ state[f] = "runs"
  /\ state[g] = "none"
  /\ state' = [state EXCEPT ![f] = "awaits", ![g] = "runs"]
  /\ cont' = [cont EXCEPT ![g] = f]
  /\ UNCHANGED <<parked, waker, notified, owed>>
  /\ UNCHANGED askVars

\* A frame ends: the one that awaits it goes on, and where none does its own
\* memory is given back (Final).
Finish(f) ==
  /\ state[f] = "runs"
  /\ state' = [g \in Frames |->
       CASE g = f -> "none"
         [] g = cont[f] -> "runs"
         [] OTHER -> state[g]]
  /\ cont' = [cont EXCEPT ![f] = NoAwaiter]
  /\ UNCHANGED <<parked, waker, notified, owed>>
  /\ UNCHANGED askVars

\* `next_turn`, and `yield_if_spent` once the deadline has passed.  Past the
\* edge's room the guest stops: no step here, and ParkFits says never taken.
Park(f) ==
  /\ state[f] = "runs"
  /\ Len(parked) < ParkRoom
  /\ parked' = Append(parked, f)
  /\ state' = [state EXCEPT ![f] = "parked"]
  /\ UNCHANGED <<cont, waker, notified, owed>>
  /\ UNCHANGED askVars

YieldIfSpent(f) == untilYield = 0 /\ Park(f)

\* Mutant of WaitNotice: a notice that came before is not seen.
WaitNoticeAlways(f) ==
  /\ state[f] = "runs"
  /\ waker = NoAwaiter
  /\ state' = [state EXCEPT ![f] = "waits"]
  /\ waker' = f
  /\ UNCHANGED <<cont, parked, notified, owed>>
  /\ UNCHANGED askVars

\* One task waits on a notice; one kept for it is taken at once.
WaitNotice(f) ==
  /\ state[f] = "runs"
  /\ waker = NoAwaiter
  /\ \A g \in Frames : state[g] # "waits"
  /\ IF notified
       THEN /\ notified' = FALSE
            /\ owed' = FALSE
            /\ UNCHANGED <<state, waker>>
       ELSE /\ state' = [state EXCEPT ![f] = "waits"]
            /\ waker' = f
            /\ UNCHANGED <<notified, owed>>
  /\ UNCHANGED <<cont, parked>>
  /\ UNCHANGED askVars

\* The waiter goes on past its wait, having been woken: it takes the notice.
ResumeNoticed(f) ==
  /\ Program
  /\ state[f] = "waits"
  /\ waker # f
  /\ state' = [state EXCEPT ![f] = "runs"]
  /\ notified' = FALSE
  /\ owed' = FALSE
  /\ UNCHANGED <<cont, parked, waker>>
  /\ UNCHANGED askVars

\* Between edges or in a turn, from a task or from anyone.
GiveNotice ==
  /\ risen
  /\ notified' = TRUE
  /\ waker' = NoAwaiter
  /\ owed' = TRUE
  /\ UNCHANGED <<state, cont, parked>>
  /\ UNCHANGED askVars

AskNext ==
  /\ risen
  /\ nextAsked' = TRUE
  /\ soonest' = 0
  /\ UNCHANGED <<risen, wakeIn, untilYield, answer>>
  /\ UNCHANGED taskVars

WakeAt(w) ==
  /\ risen
  /\ wakeIn' = Sooner(wakeIn, w)
  /\ soonest' = Sooner(soonest, w)
  /\ UNCHANGED <<risen, nextAsked, untilYield, answer>>
  /\ UNCHANGED taskVars

ExtendTo(w) ==
  /\ risen
  /\ untilYield' = Later(untilYield, w)
  /\ UNCHANGED <<risen, nextAsked, wakeIn, answer, soonest>>
  /\ UNCHANGED taskVars

Runnable == In("ready") \cup {f \in In("waits") : waker # f}

\* Mutant of Answered: a parked task asks for nothing.
AnsweredAsked == IF nextAsked THEN 0 ELSE wakeIn

Answered == IF nextAsked \/ parked # <<>> THEN 0 ELSE wakeIn

\* `Never` is NO_WAKE.  What was asked for is cleared, the later wake with it.
Fall ==
  /\ Program
  /\ Runnable = {} \/ nextAsked
  /\ risen' = FALSE
  /\ answer' = Answered
  /\ nextAsked' = FALSE
  /\ wakeIn' = Never
  /\ soonest' = Never
  /\ UNCHANGED untilYield
  /\ UNCHANGED taskVars

\* Mutant of Less: a wake past is asked for before now.
LessPast(w) == IF w = Never THEN w ELSE w - 1

Less(w) == IF w \in {0, Never} THEN w ELSE w - 1

Pass ==
  /\ wakeIn' = Less(wakeIn)
  /\ soonest' = Less(soonest)
  /\ untilYield' = Less(untilYield)
  /\ answer' = Less(answer)
  /\ UNCHANGED <<risen, nextAsked>>
  /\ UNCHANGED taskVars

EdgeNext ==
  \/ \E f \in Frames :
       \/ Spawn(f) \/ Resume(f) \/ ResumeNoticed(f) \/ Finish(f)
       \/ Park(f) \/ YieldIfSpent(f) \/ WaitNotice(f)
       \/ \E g \in Frames : Await(f, g)
  \/ \E w \in 0 .. MaxWait : Rise(w) \/ WakeAt(w) \/ ExtendTo(w)
  \/ GiveNotice
  \/ AskNext
  \/ Fall
  \/ Pass

EdgeSpec == EdgeInit /\ [][EdgeNext]_edgeVars
-----------------------------------------------------------------------------
EdgeTypeOK ==
  /\ risen \in BOOLEAN
  /\ state \in [Frames -> FrameStates]
  /\ cont \in [Frames -> Frames \cup {NoAwaiter}]
  /\ parked \in Seq(Frames) /\ Len(parked) <= ParkRoom
  /\ nextAsked \in BOOLEAN
  /\ {wakeIn, untilYield, answer, soonest} \subseteq Waits
  /\ waker \in Frames \cup {NoAwaiter}
  /\ notified \in BOOLEAN
  /\ owed \in BOOLEAN

(***************************************************************************)
(* Every frame is held once: by the executor, the edge or the notice, by   *)
(* the one frame that runs, or by the one it awaits.  So none is resumed   *)
(* twice, none given back while another goes on into it, and none lost.    *)
(***************************************************************************)
Awaiters(f) == {g \in Frames : state[g] # "none" /\ cont[g] = f}

HeldOnce ==
  /\ Cardinality(Running) <= 1
  /\ \A f \in Frames :
       /\ Cardinality({i \in DOMAIN parked : parked[i] = f}) = IF state[f] = "parked" THEN 1 ELSE 0
       /\ Cardinality(Awaiters(f)) = IF state[f] = "awaits" THEN 1 ELSE 0
       /\ waker = f => state[f] = "waits"

\* The edge's room is for tasks, and a task is parked once whatever frame of it
\* parked: `park` never finds its list full.
ParkFits == Running # {} => Len(parked) < ParkRoom

(***************************************************************************)
(* "A notice that comes before the wait is kept for it": while one is owed *)
(* no task sits in its wait unwoken, and the next wait will see it.        *)
(***************************************************************************)
NoticeKept == owed => notified /\ waker = NoAwaiter

(***************************************************************************)
(* The falling edge asks for the soonest turn asked for since the last,    *)
(* and for the next while a task is parked.                                *)
(***************************************************************************)
FallAsksSoonest ==
  [][risen /\ ~ risen' =>
       /\ answer' <= soonest
       /\ parked # <<>> => answer' = 0
       /\ parked = <<>> /\ ~ nextAsked => answer' = wakeIn]_edgeVars

(***************************************************************************)
(* A suspended frame is resumed by exactly one, the edge, the notice or    *)
(* what awaits it; the parking list never overflows; a notice with no      *)
(* waiter is kept for the next; the falling edge asks the soonest turn     *)
(* anything asked for.                                                     *)
(***************************************************************************)
WakesOnce ==
  /\ FallAsksSoonest
  /\ [](EdgeTypeOK /\ HeldOnce /\ ParkFits /\ NoticeKept)
=============================================================================
