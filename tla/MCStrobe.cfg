\* Timers reach two ms, and a guest asks for up to four.
CONSTANTS
  Reach = 2
  MaxWake = 4
SPECIFICATION FairSpec
INVARIANTS TypeOK OneMoment TimerAgrees WakeKept
PROPERTY TurnGiven
