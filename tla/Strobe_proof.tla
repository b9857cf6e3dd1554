---------------------------- MODULE Strobe_proof ----------------------------
(***************************************************************************)
(* Proofs about Strobe, for every reach of the timer and every wait: it    *)
(* owes the turns it asked for, knows its timer, and, while nothing        *)
(* throws, keeps every wake.                                               *)
(***************************************************************************)
EXTENDS Strobe, TLAPS

\* The type invariant in two parts: what is true or false, and what is counted.
FlagsOK ==
  /\ running \in BOOLEAN
  /\ asked \in BOOLEAN
  /\ pc \in Places
  /\ gone \in BOOLEAN
  /\ thrown \in BOOLEAN

CountsOK ==
  /\ moments \in Nat
  /\ timer \in 0 .. Reach \cup {Never}
  /\ timer_at \in 0 .. Reach \cup {Never}
  /\ edge \in Waits \cup {NoEdge}
  /\ due \in Waits

LEMMA TypeParts == TypeOK <=> FlagsOK /\ CountsOK
BY DEF TypeOK, FlagsOK, CountsOK

LEMMA InitType == Init => TypeOK
<1>1. Init => FlagsOK
  BY DEF Init, FlagsOK, Places
<1>2. /\ Init => moments \in Nat /\ timer \in 0 .. Reach \cup {Never}
      /\ Init => timer_at \in 0 .. Reach \cup {Never}
  BY StrobeAssumption DEF StrobeAssumption, Init, Never
<1>3. Init => due \in Waits /\ edge \in Waits \cup {NoEdge}
  BY StrobeAssumption DEF StrobeAssumption, Init, Never, Waits, NoEdge
<1> QED BY <1>1, <1>2, <1>3, TypeParts DEF CountsOK

LEMMA NextFlags == FlagsOK /\ [Next]_vars => FlagsOK'
<1> SUFFICES ASSUME FlagsOK, [Next]_vars PROVE FlagsOK'
  OBVIOUS
<1> USE DEF FlagsOK
<1>1. CASE Request \/ Start \/ Stop \/ TimerFires
  BY <1>1 DEF Request, Start, Stop, TimerFires, Ask
<1>2. CASE GivenStopped \/ GivenRefused \/ GivenAdmitted
  BY <1>2 DEF GivenStopped, GivenRefused, GivenAdmitted, AskNext, Places
<1>3. CASE RingOwn \/ SubmitThrows \/ RingOther \/ ListenerThrows \/ Trap
  BY <1>3 DEF RingOwn, SubmitThrows, RingOther, ListenerThrows, Trap, Places
<1>4. CASE \E w \in Waits : Fall(w)
  BY <1>4 DEF Fall
<1>5. CASE EndRing
  BY <1>5 DEF EndRing, Wake, Ask, Places
<1>6. CASE Tick \/ UNCHANGED vars
  BY <1>6 DEF Tick, vars
<1> QED BY <1>1, <1>2, <1>3, <1>4, <1>5, <1>6 DEF Next

LEMMA SoonerType ==
  ASSUME NEW a \in Waits, NEW b \in Waits PROVE Sooner(a, b) \in Waits
BY DEF Sooner

\* No wait is told past what a timer reaches.
LEMMA ClampedType ==
  ASSUME NEW w \in 1 .. MaxWake
  PROVE  /\ Clamped(w) \in 1 .. Reach
         /\ Clamped(w) <= w
         /\ Armed(Clamped(w)) = Clamped(w)
BY StrobeAssumption DEF StrobeAssumption, Clamped, Sooner, Armed

LEMMA WaitCases ==
  ASSUME NEW w \in Waits PROVE w = 0 \/ w \in 1 .. MaxWake \/ w = Never
BY StrobeAssumption DEF StrobeAssumption, Waits, Never

LEMMA NeverWakes ==
  ASSUME Wake(Never) PROVE UNCHANGED <<asked, moments, timer, timer_at>>
<1>1. Never # 0 /\ Never \notin 1 .. MaxWake
  BY StrobeAssumption DEF StrobeAssumption, Never
<1> QED BY <1>1 DEF Wake

\* What the strobe is told leaves its counts well typed.
LEMMA WakeType ==
  ASSUME CountsOK, NEW w \in Waits, Wake(w)
  PROVE  /\ moments' \in Nat
         /\ timer' \in 0 .. Reach \cup {Never}
         /\ timer_at' \in 0 .. Reach \cup {Never}
<1>1. CASE w = 0
  BY <1>1 DEF Wake, Ask, CountsOK
<1>2. CASE w \in 1 .. MaxWake
  <2>1. /\ moments' = moments
        /\ \/ UNCHANGED <<timer, timer_at>>
           \/ timer' = Clamped(w) /\ timer_at' = Clamped(w)
    BY <1>2, ClampedType DEF Wake, SetTimer
  <2>2. Clamped(w) \in 0 .. Reach /\ Clamped(w) \in Waits
    BY <1>2, ClampedType, StrobeAssumption DEF StrobeAssumption, Waits, Never
  <2> QED BY <2>1, <2>2 DEF CountsOK
<1>3. CASE w = Never
  BY <1>3, NeverWakes DEF CountsOK
<1> QED BY <1>1, <1>2, <1>3, WaitCases

LEMMA LessType ==
  /\ \A wait \in Waits : Less(wait) \in Waits
  /\ \A wait \in 0 .. Reach \cup {Never} : Less(wait) \in 0 .. Reach \cup {Never}
BY StrobeAssumption DEF StrobeAssumption, Less, Waits, Never

LEMMA NeverType == Never \in Waits
BY StrobeAssumption DEF StrobeAssumption, Waits, Never

LEMMA NextCounts == CountsOK /\ [Next]_vars => CountsOK'
<1> SUFFICES ASSUME CountsOK, [Next]_vars PROVE CountsOK'
  OBVIOUS
<1> USE NeverType DEF CountsOK
<1>1. CASE Request \/ Start \/ Stop \/ TimerFires
  <2>1. moments' \in {moments, moments + 1}
    BY <1>1 DEF Request, Start, Stop, TimerFires, Ask
  <2>2. /\ UNCHANGED <<edge, due>>
        /\ \/ UNCHANGED <<timer, timer_at>>
           \/ timer' = Never /\ timer_at' = Never
    BY <1>1 DEF Request, Start, Stop, TimerFires, ClearTimer
  <2> QED BY <2>1, <2>2
<1>2. CASE GivenStopped \/ GivenRefused \/ GivenAdmitted
  BY <1>2 DEF GivenStopped, GivenRefused, GivenAdmitted, Given, AskNext, ClearTimer
<1>3. CASE RingOwn \/ SubmitThrows \/ RingOther \/ Trap
  BY <1>3 DEF RingOwn, SubmitThrows, RingOther, Trap
<1>4. CASE \E w \in Waits : Fall(w)
  BY <1>4 DEF Fall
<1>5. CASE EndRing
  <2>1. edge \in Waits /\ Wake(edge)
    BY <1>5 DEF EndRing
  <2>2. due' \in Waits /\ edge' = NoEdge
    BY <1>5, <2>1, SoonerType DEF EndRing
  <2> QED BY <2>1, <2>2, WakeType
<1>6. CASE ListenerThrows
  <2>1. edge \in Waits
    BY <1>6 DEF ListenerThrows
  <2> QED BY <1>6, <2>1, SoonerType DEF ListenerThrows
<1>7. CASE Tick
  BY <1>7, LessType DEF Tick
<1>8. CASE UNCHANGED vars
  BY <1>8 DEF vars
<1> QED BY <1>1, <1>2, <1>3, <1>4, <1>5, <1>6, <1>7, <1>8 DEF Next

LEMMA NextType == TypeOK /\ [Next]_vars => TypeOK'
BY NextFlags, NextCounts, TypeParts, PTL

(***************************************************************************)
(* The strobe's state stays well typed: no timer is armed past its reach,  *)
(* whatever wait the guest asks for (Strobe.wake).                         *)
(***************************************************************************)
THEOREM TypeCorrect == Spec => []TypeOK
BY InitType, NextType, PTL DEF Spec
-----------------------------------------------------------------------------
LEMMA NextMoment == TypeOK /\ OneMoment /\ [Next]_vars => OneMoment'
<1> SUFFICES ASSUME TypeOK, OneMoment, [Next]_vars PROVE OneMoment'
  OBVIOUS
<1> USE DEF TypeOK, OneMoment
<1>1. CASE Request \/ Start \/ Stop \/ TimerFires
  BY <1>1 DEF Request, Start, Stop, TimerFires, Ask, MayAsk
<1>2. CASE GivenStopped \/ GivenRefused \/ GivenAdmitted
  BY <1>2 DEF GivenStopped, GivenRefused, GivenAdmitted, Given, AskNext
<1>3. CASE EndRing
  BY <1>3 DEF EndRing, Wake, Ask, MayAsk
<1>4. CASE RingOwn \/ SubmitThrows \/ RingOther \/ ListenerThrows \/ Trap \/ Tick
  BY <1>4 DEF RingOwn, SubmitThrows, RingOther, ListenerThrows, Trap, Tick
<1>5. CASE \E w \in Waits : Fall(w)
  BY <1>5 DEF Fall
<1>6. CASE UNCHANGED vars
  BY <1>6 DEF vars
<1> QED BY <1>1, <1>2, <1>3, <1>4, <1>5, <1>6 DEF Next

(***************************************************************************)
(* The policy owes the strobe one moment where `asked` is set and none     *)
(* elsewhere, over stops, starts and refusals (Strobe.request, turn).      *)
(***************************************************************************)
THEOREM OwesOneMoment == Spec => []OneMoment
<1>1. Init => OneMoment
  BY DEF Init, OneMoment
<1> QED BY <1>1, InitType, NextType, NextMoment, PTL DEF Spec
-----------------------------------------------------------------------------
LEMMA NextTimer == TypeOK /\ TimerAgrees /\ [Next]_vars => TimerAgrees'
<1> SUFFICES ASSUME TypeOK, TimerAgrees, [Next]_vars PROVE TimerAgrees'
  OBVIOUS
<1> USE DEF TimerAgrees
<1>1. CASE Request \/ Start \/ Stop \/ TimerFires
  BY <1>1 DEF Request, Start, Stop, TimerFires, ClearTimer
<1>2. CASE GivenStopped \/ GivenRefused \/ GivenAdmitted
  BY <1>2 DEF GivenStopped, GivenRefused, GivenAdmitted, ClearTimer
<1>3. CASE EndRing
  <2>1. edge \in 1 .. MaxWake => Armed(Clamped(edge)) = Clamped(edge)
    BY ClampedType
  <2> QED
    BY <1>3, <2>1 DEF EndRing, Wake, SetTimer
<1>4. CASE RingOwn \/ SubmitThrows \/ RingOther \/ ListenerThrows \/ Trap \/ Tick
  BY <1>4 DEF RingOwn, SubmitThrows, RingOther, ListenerThrows, Trap, Tick
<1>5. CASE \E w \in Waits : Fall(w)
  BY <1>5 DEF Fall
<1>6. CASE UNCHANGED vars
  BY <1>6 DEF vars
<1> QED BY <1>1, <1>2, <1>3, <1>4, <1>5, <1>6 DEF Next

(***************************************************************************)
(* The strobe takes its timer to fire when the event loop's does, for      *)
(* every wait a guest asks for (Strobe.wake, TIMER_REACH_MS).              *)
(***************************************************************************)
THEOREM KnowsItsTimer == Spec => []TimerAgrees
<1>1. Init => TimerAgrees
  BY DEF Init, TimerAgrees
<1> QED BY <1>1, InitType, NextType, NextTimer, PTL DEF Spec
-----------------------------------------------------------------------------
\* What is kept is kept while others ring; the strobe's own turn forgets.
KeptThrough ==
  /\ pc = "own" => due = Never
  /\ pc \in {"idle", "other"} /\ running /\ ~gone /\ ~thrown /\ due # Never =>
       asked \/ timer <= due

WakeInv == TypeOK /\ TimerAgrees /\ KeptThrough

\* What the strobe is told, it keeps, and what it kept before.
LEMMA WakeKeeps ==
  ASSUME TypeOK, TimerAgrees, NEW w \in Waits, Wake(w), running
  PROVE  /\ w # Never => asked' \/ timer' <= w
         /\ asked \/ timer <= due => asked' \/ timer' <= due
<1>1. CASE w = 0
  <2>1. asked'
    BY <1>1 DEF Wake, Ask, MayAsk, TypeOK
  <2> QED BY <2>1
<1>2. CASE w \in 1 .. MaxWake
  <2> DEFINE wait == Clamped(w)
  <2>1. wait \in 1 .. Reach /\ wait <= w
    BY <1>2, ClampedType
  <2>2. CASE Kept(wait)
    <3>1. timer' = timer /\ asked' = asked
      BY <1>2, <2>2 DEF Wake
    <3>2. timer <= w
      BY <1>2, <2>1, <2>2, StrobeAssumption
         DEF StrobeAssumption, Kept, TypeOK, TimerAgrees, Waits, Never
    <3> QED BY <3>1, <3>2
  <2>3. CASE ~Kept(wait)
    <3>1. timer' = wait /\ asked' = asked
      BY <1>2, <2>3, ClampedType DEF Wake, SetTimer
    <3>2. wait <= timer
      BY <2>1, <2>3, StrobeAssumption
         DEF StrobeAssumption, Kept, TypeOK, TimerAgrees, Waits, Never
    <3>3. timer \in Nat /\ due \in Nat /\ wait \in Nat
      BY <2>1, StrobeAssumption DEF StrobeAssumption, TypeOK, Waits, Never
    <3>4. timer <= due => wait <= due
      BY <3>2, <3>3
    <3> QED BY <2>1, <3>1, <3>4
  <2> QED BY <2>2, <2>3
<1>3. CASE w = Never
  BY <1>3, NeverWakes
<1> QED BY <1>1, <1>2, <1>3, WaitCases

LEMMA NextKept ==
  ASSUME WakeInv, [Next]_vars
  PROVE  KeptThrough'
<1> USE StrobeAssumption DEF StrobeAssumption, WakeInv, TypeOK, KeptThrough, Waits, Never
<1>1. CASE Request \/ Start \/ Stop \/ TimerFires
  BY <1>1 DEF Request, Start, Stop, TimerFires, Ask, MayAsk
<1>2. CASE GivenStopped \/ GivenRefused \/ GivenAdmitted
  BY <1>2 DEF GivenStopped, GivenRefused, GivenAdmitted, Given, AskNext
<1>3. CASE RingOwn \/ RingOther \/ Trap
  BY <1>3 DEF RingOwn, RingOther, Trap
<1>4. CASE SubmitThrows \/ ListenerThrows
  BY <1>4 DEF SubmitThrows, ListenerThrows
<1>5. CASE \E w \in Waits : Fall(w)
  BY <1>5 DEF Fall
<1>6. CASE EndRing
  <2>1. /\ edge \in Waits /\ Wake(edge) /\ due' = Sooner(due, edge)
        /\ running' = running /\ gone' = gone /\ thrown' = thrown
        /\ pc' = IF pc = "nested" THEN "submit" ELSE "idle"
        /\ pc \in {"own", "other", "nested"}
    BY <1>6 DEF EndRing, NoEdge, Rings
  <2>2. CASE pc = "nested" \/ ~running \/ gone \/ thrown
    BY <2>1, <2>2
  <2>3. CASE pc \in {"own", "other"} /\ running /\ ~gone /\ ~thrown
    <3>1. /\ edge # Never => asked' \/ timer' <= edge
          /\ asked \/ timer <= due => asked' \/ timer' <= due
      BY <2>1, <2>3, WakeKeeps
    <3>2. due # Never => asked \/ timer <= due
      BY <2>3
    <3> QED BY <2>1, <2>3, <3>1, <3>2 DEF Sooner
  <2> QED BY <2>1, <2>2, <2>3
<1>7. CASE Tick
  BY <1>7 DEF Tick, Less
<1>8. CASE UNCHANGED vars
  BY <1>8 DEF vars
<1> QED BY <1>1, <1>2, <1>3, <1>4, <1>5, <1>6, <1>7, <1>8 DEF Next

(***************************************************************************)
(* Where no listener and no submit has thrown since the strobe's last      *)
(* turn, the soonest turn any falling edge asked for is kept, the "guest's *)
(* wake_ms" of the policy's comment, for every reach and wait              *)
(* (Strobe.wake, turn).                                                    *)
(***************************************************************************)
THEOREM KeepsTheWake == Spec => []WakeKept
<1>1. Init => WakeInv
  BY InitType DEF Init, WakeInv, TimerAgrees, KeptThrough
<1>2. WakeInv /\ [Next]_vars => WakeInv'
  BY NextType, NextTimer, NextKept DEF WakeInv
<1>3. WakeInv => WakeKept
  BY DEF WakeInv, KeptThrough, WakeKept, WakeAlwaysKept
<1> QED BY <1>1, <1>2, <1>3, PTL DEF Spec
=============================================================================
