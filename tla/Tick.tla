-------------------------------- MODULE Tick --------------------------------
(***************************************************************************)
(* A guest's own scheduler (guest sched/tick.hpp, sched/pass.hpp): a tick  *)
(* walks the registered steps phase by phase, by index, while steps        *)
(* register others and unregister any; and each step here spends its       *)
(* phase's share of the budget on a pass, items of which some do work.     *)
(*                                                                         *)
(* `spent` is the ms since the rising edge, up to `LongMs`, past which     *)
(* nothing differs.  A share is held back as ms of the quota.              *)
(***************************************************************************)
EXTENDS Integers, Sequences, FiniteSets

CONSTANTS
  Steps,      \* steps registered at once, N
  Offs,       \* removals a step may ask for, OFFS_MAX
  MaxIds,     \* registrations in one behaviour
  LastPhase,  \* phases are 0 .. LastPhase
  HeldBack,   \* by phase, the ms of the quota held back from it
  Quota,      \* ms a tick has
  Slack,      \* hard_slack_ms
  MaxCost,    \* the most an item takes
  PassCap     \* max_steps

TickAssumption ==
  /\ Steps \in Nat /\ Offs \in Nat /\ MaxIds \in Nat /\ LastPhase \in Nat
  /\ Quota \in Nat /\ Slack \in Nat /\ MaxCost \in Nat /\ PassCap \in Nat
  /\ HeldBack \in [0 .. LastPhase -> Nat]

LongMs == Quota + (Slack + MaxCost) * MaxIds

VARIABLES
  registry,  \* the steps, in the order registered
  nextId,
  offs,      \* removals the running step has asked for
  phaseAt,   \* the walk's phase
  at,        \* and the index it has come to
  spent,
  pass,      \* the running step's pass
  pc,        \* "idle", "walk", "step", "pass", "after" the step
  rows,      \* the phases and names timed
  runsOf,    \* history: by id, its runs this tick
  began,     \* history: by phase, the ms spent as it began
  takenOff   \* history: the ids removed

tickVars == <<registry, nextId, offs, phaseAt, at, spent, pass, pc, rows, runsOf, began, takenOff>>

Ids == 1 .. MaxIds
Phases == 0 .. LastPhase
Names == {"one", "two"}
Registered == [id : Ids, phase : Phases, name : Names]
Rows == [phase : Phases, name : Names]
NoPass == [deadline |-> 0, visited |-> 0, ran |-> 0]
Latest(a, b) == IF a >= b THEN a ELSE b
Capped(n) == IF n <= LongMs THEN n ELSE LongMs

TickInit ==
  /\ registry = <<>>
  /\ nextId = 1
  /\ offs = <<>>
  /\ phaseAt = 0
  /\ at = 0
  /\ spent = 0
  /\ pass = NoPass
  /\ pc = "idle"
  /\ rows = <<>>
  /\ runsOf = [id \in Ids |-> 0]
  /\ began = [p \in Phases |-> 0]
  /\ takenOff = {}
-----------------------------------------------------------------------------
\* Between ticks or from a step; past the registry's room the guest stops.
OnTick(p, name) ==
  /\ pc \in {"idle", "step"}
  /\ Len(registry) < Steps
  /\ nextId <= MaxIds
  /\ registry' = Append(registry, [id |-> nextId, phase |-> p, name |-> name])
  /\ nextId' = nextId + 1
  /\ UNCHANGED <<offs, phaseAt, at, spent, pass, pc, rows, runsOf, began, takenOff>>

\* Where a step stands, by index from 1; 0 where it is not registered.
IndexOf(reg, id) ==
  LET here == {i \in 1 .. Len(reg) : reg[i].id = id}
  IN  IF here = {} THEN 0 ELSE CHOOSE i \in here : \A j \in here : i <= j

\* Mutant of Unregistering: the last step goes for the one named.
UnregisteringLast(reg, id) ==
  IF IndexOf(reg, id) = 0 THEN reg ELSE SubSeq(reg, 1, Len(reg) - 1)

\* Those after it move down (Tick::remove).
Unregistering(reg, id) ==
  LET k == IndexOf(reg, id)
  IN  IF k = 0 THEN reg
      ELSE [i \in 1 .. Len(reg) - 1 |-> IF i < k THEN reg[i] ELSE reg[i + 1]]

\* Tick::off_tick, between ticks.
OffTick(id) ==
  /\ pc = "idle"
  /\ IndexOf(registry, id) # 0
  /\ registry' = Unregistering(registry, id)
  /\ takenOff' = takenOff \cup {id}
  /\ UNCHANGED <<nextId, offs, phaseAt, at, spent, pass, pc, rows, runsOf, began>>

\* TickContext::off_tick, from a step: of itself, or of any other.
AskOff(id) ==
  /\ pc = "step"
  /\ id < nextId
  /\ Len(offs) < Offs
  /\ offs' = Append(offs, id)
  /\ UNCHANGED <<registry, nextId, phaseAt, at, spent, pass, pc, rows, runsOf, began, takenOff>>

Run ==
  /\ pc = "idle"
  /\ pc' = "walk"
  /\ \E ms \in 0 .. 1 : spent' = Capped(ms)
  /\ began' = [began EXCEPT ![0] = spent']
  /\ UNCHANGED <<registry, nextId, offs, phaseAt, at, pass, rows, runsOf, takenOff>>

Skip ==
  /\ pc = "walk"
  /\ at < Len(registry)
  /\ registry[at + 1].phase # phaseAt
  /\ at' = at + 1
  /\ UNCHANGED <<registry, nextId, offs, phaseAt, spent, pass, pc, rows, runsOf, began, takenOff>>

Step ==
  /\ pc = "walk"
  /\ at < Len(registry)
  /\ registry[at + 1].phase = phaseAt
  /\ at' = at + 1
  /\ runsOf' = [runsOf EXCEPT ![registry[at + 1].id] = @ + 1]
  /\ pc' = "step"
  /\ UNCHANGED <<registry, nextId, offs, phaseAt, spent, pass, rows, began, takenOff>>

\* Mutant of Remaining: the whole quota is any phase's to spend.
RemainingWhole == IF spent < Quota THEN Quota - spent ELSE 0

\* What is left of the phase's share.
Remaining == IF spent + HeldBack[phaseAt] < Quota THEN Quota - HeldBack[phaseAt] - spent ELSE 0

\* The step's pass begins: its deadline is set once.
BeginPass ==
  /\ pc = "step"
  /\ pass' = [deadline |-> spent + Remaining, visited |-> 0, ran |-> 0]
  /\ pc' = "pass"
  /\ UNCHANGED <<registry, nextId, offs, phaseAt, at, spent, rows, runsOf, began, takenOff>>

\* Both the deadline and the cap are waived until an item has done work; the
\* hard deadline never is, but for the first item.
PassStopped ==
  \/ pass.visited > 0 /\ spent >= pass.deadline + Slack
  \/ pass.ran > 0 /\ (pass.ran >= PassCap \/ spent >= pass.deadline)

\* `visited` says that one was: no more is asked of it.
Visit(cost, did) ==
  /\ pc = "pass"
  /\ ~ PassStopped
  /\ spent' = Capped(spent + cost)
  /\ pass' = [pass EXCEPT !.visited = 1, !.ran = IF did THEN @ + 1 ELSE @]
  /\ UNCHANGED <<registry, nextId, offs, phaseAt, at, pc, rows, runsOf, began, takenOff>>

\* The items run out, or what is left does.
EndPass ==
  /\ pc = "pass"
  /\ pass' = NoPass
  /\ pc' = "after"
  /\ UNCHANGED <<registry, nextId, offs, phaseAt, at, spent, rows, runsOf, began, takenOff>>

RowOf(r) == [phase |-> r.phase, name |-> r.name]

\* Mutant of Recorded: a sample always takes a row.
RecordedApart(r) == IF Len(rows) = Steps THEN rows ELSE Append(rows, RowOf(r))

\* A step's sample adds into the row of its phase and name; with no row left
\* it is dropped.
Recorded(r) ==
  IF Len(rows) = Steps \/ \E i \in 1 .. Len(rows) : rows[i] = RowOf(r) THEN rows
  ELSE Append(rows, RowOf(r))

\* A removal moves the walk's index back where a step before it goes.
TakingOff(w, id) ==
  [reg |-> Unregistering(w.reg, id),
   at  |-> IF IndexOf(w.reg, id) \in 1 .. w.at THEN w.at - 1 ELSE w.at]

\* Mutant of Removed: the index stays where a step before it went.
RemovedIndexKept ==
  LET Left[k \in 0 .. Len(offs)] == IF k = 0 THEN registry ELSE Unregistering(Left[k - 1], offs[k])
  IN  [reg |-> Left[Len(offs)], at |-> at]

\* The removals asked for, one after another.
Removed ==
  LET Left[k \in 0 .. Len(offs)] ==
        IF k = 0 THEN [reg |-> registry, at |-> at] ELSE TakingOff(Left[k - 1], offs[k])
  IN  Left[Len(offs)]

EndStep ==
  /\ pc = "after"
  /\ rows' = Recorded(registry[at])
  /\ registry' = Removed.reg
  /\ at' = Removed.at
  /\ takenOff' = takenOff \cup {offs[k] : k \in 1 .. Len(offs)}
  /\ offs' = <<>>
  /\ pc' = "walk"
  /\ UNCHANGED <<nextId, phaseAt, spent, pass, runsOf, began>>

EndPhase ==
  /\ pc = "walk"
  /\ at = Len(registry)
  /\ phaseAt < LastPhase
  /\ phaseAt' = phaseAt + 1
  /\ at' = 0
  /\ began' = [began EXCEPT ![phaseAt + 1] = spent]
  /\ UNCHANGED <<registry, nextId, offs, spent, pass, pc, rows, runsOf, takenOff>>

EndTick ==
  /\ pc = "walk"
  /\ at = Len(registry)
  /\ phaseAt = LastPhase
  /\ pc' = "idle"
  /\ phaseAt' = 0
  /\ at' = 0
  /\ spent' = 0
  /\ runsOf' = [id \in Ids |-> 0]
  /\ began' = [p \in Phases |-> 0]
  /\ UNCHANGED <<registry, nextId, offs, pass, rows, takenOff>>

TickNext ==
  \/ \E p \in Phases, name \in Names : OnTick(p, name)
  \/ \E id \in Ids : OffTick(id) \/ AskOff(id)
  \/ Run
  \/ Skip
  \/ Step
  \/ BeginPass
  \/ \E cost \in 0 .. MaxCost, did \in BOOLEAN : Visit(cost, did)
  \/ EndPass
  \/ EndStep
  \/ EndPhase
  \/ EndTick

TickSpec == TickInit /\ [][TickNext]_tickVars
-----------------------------------------------------------------------------
TickTypeOK ==
  /\ registry \in Seq(Registered) /\ Len(registry) <= Steps
  /\ nextId \in 1 .. MaxIds + 1
  /\ offs \in Seq(Ids) /\ Len(offs) <= Offs
  /\ phaseAt \in Phases
  /\ at \in 0 .. Len(registry)
  /\ spent \in 0 .. LongMs
  /\ pass \in [deadline : Nat, visited : {0, 1}, ran : Nat]
  /\ pc \in {"idle", "walk", "step", "pass", "after"}
  /\ rows \in Seq(Rows) /\ Len(rows) <= Steps
  /\ runsOf \in [Ids -> Nat]
  /\ began \in [Phases -> 0 .. LongMs]
  /\ takenOff \subseteq Ids

(***************************************************************************)
(* However steps register and unregister one another while the walk goes   *)
(* on by its index, each step the walk has passed ran once in its phase,   *)
(* and no step twice: none is skipped for one removed before it.           *)
(***************************************************************************)
EachStepOnce ==
  /\ \A id \in Ids : runsOf[id] <= 1
  /\ pc \in {"walk", "step"} =>
       \A i \in 1 .. at : registry[i].phase = phaseAt => runsOf[registry[i].id] = 1
  /\ pc = "walk" =>
       \A i \in at + 1 .. Len(registry) : registry[i].phase >= phaseAt => runsOf[registry[i].id] = 0

\* A step unregistered runs no more, from the end of the step that asked.
GoneNeverRuns ==
  [][\A id \in takenOff : runsOf'[id] <= runsOf[id]]_tickVars

(***************************************************************************)
(* "A busy phase cannot starve a later one": a phase's share overrun, what *)
(* it has taken of the share held back for the phases after it is the      *)
(* slack and one item for each of its steps at most.                       *)
(***************************************************************************)
StepsRun(p) ==
  {id \in Ids :
     runsOf[id] > 0 /\ \E i \in 1 .. Len(registry) : registry[i].id = id /\ registry[i].phase = p}

Overrun == Cardinality(StepsRun(0)) * (Slack + MaxCost)

ShareHeldBack ==
  pc # "idle" /\ phaseAt = 1 /\ takenOff = {} =>
    began[1] <= Latest(began[0], Quota - HeldBack[0]) + Overrun

\* Samples of one name in one phase add into one row.
RowsApart == \A i, j \in 1 .. Len(rows) : rows[i] = rows[j] => i = j

(***************************************************************************)
(* Every step the walk has passed ran once in its phase, one taken off     *)
(* never runs again, a phase leaves the next its share but for its steps'  *)
(* overrun, and times are recorded by phase and name, one row each.        *)
(***************************************************************************)
StepsRunOnce ==
  /\ GoneNeverRuns
  /\ [](TickTypeOK /\ EachStepOnce /\ ShareHeldBack /\ RowsApart)
=============================================================================
