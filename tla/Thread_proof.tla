---------------------------- MODULE Thread_proof ----------------------------
(***************************************************************************)
(* For any number of callers: only one side ever runs, a lent closure's    *)
(* caller stands, and no thread waits for what it holds.                   *)
(***************************************************************************)
EXTENDS Thread, TLAPS

InHandoff(c) == pc[c] \in {"send", "recv", "answer", "answering", "idle", "leave"}

\* Nothing is lent: the channels are empty and the guest's thread has no job.
Quiet ==
  /\ jobs = None /\ back = None /\ answers = None /\ running = None
  /\ gpc \in {"ready", "dying", "dead"}

\* What a caller that waits may find of its closure: sent, running, asking or
\* answered, done, or lost with the thread.
Lent(c) ==
  \/ jobs = c /\ back = None /\ answers = None /\ running = None /\ gpc = "ready"
  \/ jobs = None /\ back = None /\ answers = None /\ running = c /\ gpc \in {"job", "done"}
  \/ jobs = None /\ back = "hostcall" /\ answers = None /\ running = c /\ gpc = "asked"
  \/ jobs = None /\ back = None /\ answers # None /\ running = c /\ gpc = "asked"
  \/ jobs = None /\ back = "done" /\ answers = None /\ running = None /\ gpc = "ready"
  \/ jobs = None /\ back = None /\ answers = None /\ running = None /\ gpc \in {"dying", "dead"}

Asked(c) ==
  jobs = None /\ back = None /\ answers = None /\ running = c /\ gpc = "asked"

(***************************************************************************)
(* The inductive invariant: the lock's owner is the one caller inside the  *)
(* handoff, HOLDING is true of it alone, and where it is says what the     *)
(* channels and the guest's thread hold.  Each caller's place, alone, says *)
(* nothing of the others': that is what the owner ties together.           *)
(***************************************************************************)
HandoffOK ==
  /\ \A c \in Callers :
       /\ InHandoff(c) <=> owner = c
       /\ holding[c] <=> owner = c
       /\ pc[c] = "recv" => Lent(c)
       /\ pc[c] \in {"answer", "answering"} => Asked(c)
       /\ pc[c] \in {"send", "idle", "leave"} => Quiet
  /\ owner = None => Quiet

IInv == TypeOK /\ HandoffOK

LEMMA InitTypeOK == Init => TypeOK
  <1> SUFFICES ASSUME Init PROVE TypeOK
    OBVIOUS
  <1> USE ThreadAssumption DEF Init
  <1>1. pc \in [Callers -> CallerPlaces] /\ want \in [Callers -> {"run", "idle"}]
    BY DEF CallerPlaces
  <1>2. calls \in [Callers -> 0 .. MaxCalls] /\ holding \in [Callers -> BOOLEAN]
    OBVIOUS
  <1>3. fn \in [Callers -> Answerers \cup {None}]
    OBVIOUS
  <1>4. gpc \in GuestPlaces /\ hostcalls \in 0 .. MaxHostcalls
    BY DEF GuestPlaces
  <1>5. aborted \in BOOLEAN
    OBVIOUS
  <1>6. inForce \in SUBSET (Answerers \cup {None})
    OBVIOUS
  <1> QED BY <1>1, <1>2, <1>3, <1>4, <1>5, <1>6 DEF Init, TypeOK

LEMMA CallerStepTypeOK ==
  ASSUME TypeOK, NEW c \in Callers, CallerStep(c)
  PROVE  TypeOK'
  <1> USE DEF TypeOK, CallerPlaces, Goto, guestVars, channels, answerVars
  <1>1. CASE Lock(c)
    BY <1>1 DEF Lock, LockFree, Acquired
  <1>2. CASE SendJob(c)
    BY <1>2 DEF SendJob, TakesJobs
  <1>3. CASE RecvDone(c)
    BY <1>3 DEF RecvDone
  <1>4. CASE RecvHostcall(c)
    BY <1>4 DEF RecvHostcall
  <1>5. CASE RecvGone(c)
    BY <1>5 DEF RecvGone
  <1>6. CASE ReadAnswer(c)
    BY <1>6 DEF ReadAnswer
  <1>7. CASE SendAnswer(c)
    BY <1>7, ThreadAssumption DEF SendAnswer, Answer
  <1>8. CASE EndIdle(c)
    BY <1>8 DEF EndIdle
  <1>9. CASE Leave(c)
    BY <1>9 DEF Leave
  <1> QED
    BY <1>1, <1>2, <1>3, <1>4, <1>5, <1>6, <1>7, <1>8, <1>9 DEF CallerStep

LEMMA NextTypeOK == TypeOK /\ [Next]_vars => TypeOK'
  <1> SUFFICES ASSUME TypeOK, [Next]_vars PROVE TypeOK'
    OBVIOUS
  <1> USE ThreadAssumption
      DEF TypeOK, CallerPlaces, GuestPlaces, Goto, callerVars, guestVars, channels,
          answerVars
  <1>1. ASSUME NEW c \in Callers, NEW kind \in {"run", "idle"}, Call(c, kind)
        PROVE  TypeOK'
    BY <1>1 DEF Call
  <1>2. ASSUME NEW c \in Callers, CallerStep(c) PROVE TypeOK'
    BY <1>2, CallerStepTypeOK
  <1>3. ASSUME NEW c \in Callers, Nest(c) PROVE TypeOK'
    <2>1. UNCHANGED <<want, calls, owner, holding, fn, guestVars, channels, answerVars>>
      BY <1>3 DEF Nest
    <2>2. pc' \in [Callers -> CallerPlaces] /\ aborted' \in BOOLEAN
      BY <1>3 DEF Nest
    <2> QED BY <2>1, <2>2
  <1>4. ASSUME NEW a \in Answerers \cup {None}, AnswerWith(a) PROVE TypeOK'
    BY <1>4 DEF AnswerWith
  <1>5. CASE GuestStep
    BY <1>5 DEF GuestStep, TakeJob, RecvAnswer, EndJob, SendDone, Exit
  <1>6. CASE Hostcall
    BY <1>6 DEF Hostcall
  <1>7. CASE Panic
    BY <1>7 DEF Panic
  <1>8. CASE UNCHANGED vars
    BY <1>8 DEF vars
  <1> QED
    BY <1>1, <1>2, <1>3, <1>4, <1>5, <1>6, <1>7, <1>8 DEF Next

LEMMA InitIInv == Init => IInv
  <1> SUFFICES ASSUME Init PROVE HandoffOK
    BY InitTypeOK DEF IInv
  <1>1. \A c \in Callers : pc[c] = "out" /\ ~holding[c] /\ owner # c
    BY ThreadAssumption DEF Init
  <1>2. Quiet
    BY DEF Init, Quiet
  <1> QED BY <1>1, <1>2 DEF HandoffOK, InHandoff

\* Only the owner's place says anything of the channels.
LEMMA Holder ==
  ASSUME IInv, ~Quiet
  PROVE  /\ owner \in Callers
         /\ pc[owner] \in {"recv", "answer", "answering"}
         /\ pc[owner] = "recv" => Lent(owner)
         /\ pc[owner] # "recv" => Asked(owner)
  BY DEF IInv, TypeOK, HandoffOK, InHandoff, CallerPlaces

\* The owner moves inside the handoff.
LEMMA OwnerMoves ==
  ASSUME IInv, TypeOK', NEW c \in Callers, NEW place \in CallerPlaces \ {"out", "lock"},
         InHandoff(c), Goto(c, place), UNCHANGED <<owner, holding>>,
         place = "recv" => Lent(c)',
         place \in {"answer", "answering"} => Asked(c)',
         place \in {"send", "idle", "leave"} => Quiet'
  PROVE  IInv'
  <1>1. owner = c /\ owner' = c
    BY DEF IInv, HandoffOK
  <1>2. /\ pc' \in [Callers -> CallerPlaces] /\ pc'[c] = place
        /\ \A d \in Callers : d # c => pc'[d] = pc[d]
    BY DEF IInv, TypeOK, Goto
  <1>4. ASSUME NEW d \in Callers
        PROVE  /\ InHandoff(d)' <=> owner' = d
               /\ holding'[d] <=> owner' = d
               /\ pc'[d] = "recv" => Lent(d)'
               /\ pc'[d] \in {"answer", "answering"} => Asked(d)'
               /\ pc'[d] \in {"send", "idle", "leave"} => Quiet'
    <2>1. holding'[d] <=> owner' = d
      BY DEF IInv, HandoffOK
    <2>2. CASE d = c
      BY <1>1, <1>2, <2>1, <2>2 DEF InHandoff, CallerPlaces
    <2>3. CASE d # c
      <3>1. ~InHandoff(d) /\ pc'[d] = pc[d]
        BY <1>1, <1>2, <2>3 DEF IInv, HandoffOK
      <3> QED BY <1>1, <2>1, <2>3, <3>1 DEF InHandoff
    <2> QED BY <2>2, <2>3
  <1>3. owner' # None
    BY <1>1, ThreadAssumption
  <1> QED BY <1>3, <1>4 DEF IInv, HandoffOK

LEMMA CallerSteps ==
  ASSUME IInv, NEW c \in Callers, CallerStep(c)
  PROVE  IInv'
  <1> USE ThreadAssumption
  <1>0. TypeOK'
    BY CallerStepTypeOK DEF IInv
  <1>1. CASE Lock(c)
    BY <1>0, <1>1
       DEF Lock, LockFree, Acquired, guestVars, channels, Quiet, IInv, TypeOK, HandoffOK,
           InHandoff, Goto, CallerPlaces
  <1>2. CASE SendJob(c)
    <2>1. InHandoff(c) /\ Quiet /\ UNCHANGED <<owner, holding>>
      BY <1>2 DEF SendJob, InHandoff, IInv, HandoffOK
    <2>2. CASE TakesJobs /\ jobs = None /\ jobs' = c /\ Goto(c, "recv")
      <3>0. UNCHANGED <<back, answers, running, gpc>>
        BY <1>2 DEF SendJob, guestVars
      <3>1. Lent(c)'
        BY <2>1, <2>2, <3>0 DEF TakesJobs, Quiet, Lent
      <3> QED BY <2>1, <2>2, <3>1, <1>0, OwnerMoves DEF CallerPlaces
    <2>3. CASE ~TakesJobs /\ UNCHANGED jobs /\ Goto(c, "leave")
      <3>1. Quiet'
        BY <1>2, <2>1, <2>3 DEF SendJob, Quiet, guestVars
      <3> QED BY <2>1, <2>3, <3>1, <1>0, OwnerMoves DEF CallerPlaces
    <2> QED BY <1>2, <2>2, <2>3 DEF SendJob
  <1>3. CASE RecvDone(c)
    <2>1. InHandoff(c) /\ Lent(c) /\ Goto(c, "leave") /\ UNCHANGED <<owner, holding>>
      BY <1>3 DEF RecvDone, InHandoff, IInv, HandoffOK
    <2>0. back = "done" /\ back' = None /\ UNCHANGED <<jobs, answers, running, gpc>>
      BY <1>3 DEF RecvDone, guestVars
    <2>2. Quiet'
      BY <2>0, <2>1 DEF Lent, Quiet
    <2> QED BY <2>1, <2>2, <1>0, OwnerMoves DEF CallerPlaces
  <1>4. CASE RecvHostcall(c)
    <2>1. InHandoff(c) /\ Lent(c) /\ Goto(c, "answer") /\ UNCHANGED <<owner, holding>>
      BY <1>4 DEF RecvHostcall, InHandoff, IInv, HandoffOK
    <2>2. Asked(c)'
      BY <1>4, <2>1 DEF RecvHostcall, Lent, Asked, guestVars
    <2> QED BY <2>1, <2>2, <1>0, OwnerMoves DEF CallerPlaces
  <1>5. CASE RecvGone(c)
    <2>1. InHandoff(c) /\ Lent(c) /\ Goto(c, "leave") /\ UNCHANGED <<owner, holding>>
      BY <1>5 DEF RecvGone, InHandoff, IInv, HandoffOK
    <2>2. Quiet'
      BY <1>5, <2>1 DEF RecvGone, SendsBack, Lent, Quiet, guestVars, channels
    <2> QED BY <2>1, <2>2, <1>0, OwnerMoves DEF CallerPlaces
  <1>6. CASE ReadAnswer(c)
    <2>1. InHandoff(c) /\ Asked(c) /\ Goto(c, "answering") /\ UNCHANGED <<owner, holding>>
      BY <1>6 DEF ReadAnswer, InHandoff, IInv, HandoffOK
    <2>2. Asked(c)'
      BY <1>6, <2>1 DEF ReadAnswer, Asked, guestVars, channels
    <2> QED BY <2>1, <2>2, <1>0, OwnerMoves DEF CallerPlaces
  <1>7. CASE SendAnswer(c)
    <2>1. InHandoff(c) /\ Asked(c) /\ Goto(c, "recv") /\ UNCHANGED <<owner, holding>>
      BY <1>7 DEF SendAnswer, InHandoff, IInv, HandoffOK
    <2>2. answers' # None
      BY <1>7 DEF SendAnswer, IInv, TypeOK, Answer
    <2>0. UNCHANGED <<jobs, back, running, gpc>>
      BY <1>7 DEF SendAnswer, guestVars
    <2>3. Lent(c)'
      BY <2>0, <2>1, <2>2 DEF Asked, Lent
    <2> QED BY <2>1, <2>3, <1>0, OwnerMoves DEF CallerPlaces
  <1>8. CASE EndIdle(c)
    <2>1. InHandoff(c) /\ Quiet /\ Goto(c, "leave") /\ UNCHANGED <<owner, holding>>
      BY <1>8 DEF EndIdle, InHandoff, IInv, HandoffOK
    <2>2. Quiet'
      BY <1>8, <2>1 DEF EndIdle, Quiet, guestVars, channels
    <2> QED BY <2>1, <2>2, <1>0, OwnerMoves DEF CallerPlaces
  <1>9. CASE Leave(c)
    BY <1>0, <1>9
       DEF Leave, guestVars, channels, Quiet, IInv, TypeOK, HandoffOK, InHandoff, Goto,
           CallerPlaces
  <1> QED
    BY <1>1, <1>2, <1>3, <1>4, <1>5, <1>6, <1>7, <1>8, <1>9 DEF CallerStep

LEMMA CallSteps ==
  ASSUME IInv, TypeOK', NEW c \in Callers, NEW kind \in {"run", "idle"}, Call(c, kind)
  PROVE  IInv'
  <1>1. UNCHANGED <<owner, holding, jobs, back, answers, running, gpc>>
    BY DEF Call, guestVars, channels
  <1>2. /\ ~InHandoff(c) /\ pc'[c] = "lock"
        /\ \A d \in Callers : d # c => pc'[d] = pc[d]
    BY DEF Call, Goto, IInv, TypeOK, InHandoff
  <1> QED BY <1>1, <1>2 DEF IInv, HandoffOK, InHandoff, Quiet, Lent, Asked

\* A refused call: out of while_idle's closure it unwinds, out of an answer it
\* ends the process.  No thread waits for itself.
LEMMA NestSteps ==
  ASSUME IInv, TypeOK', NEW c \in Callers, Nest(c)
  PROVE  IInv'
  <1>1. UNCHANGED <<owner, holding, jobs, back, answers, running, gpc>>
    BY DEF Nest, guestVars, channels
  <1>2. InHandoff(c) /\ holding[c]
    BY DEF Nest, InHandoff, IInv, HandoffOK
  <1>3. CASE pc[c] = "idle"
    <2>1. Goto(c, "leave") /\ Quiet'
      BY <1>1, <1>2, <1>3 DEF Nest, IInv, HandoffOK, Quiet
    <2> QED BY <1>1, <1>2, <2>1, OwnerMoves DEF CallerPlaces
  <1>4. CASE pc[c] # "idle"
    <2>1. UNCHANGED pc
      BY <1>2, <1>4 DEF Nest
    <2> QED BY <1>1, <2>1 DEF IInv, HandoffOK, InHandoff, Quiet, Lent, Asked
  <1> QED BY <1>3, <1>4

\* The guest's thread moves, its closure lent: only what the owner, waiting, may
\* find of it changes.
LEMMA GuestMoves ==
  ASSUME IInv, TypeOK', UNCHANGED <<pc, owner, holding>>,
         ~Quiet, pc[owner] = "recv", Lent(owner)'
  PROVE  IInv'
  <1>1. owner \in Callers /\ owner' # None
    BY Holder, ThreadAssumption
  <1>2. ASSUME NEW c \in Callers, c # owner
        PROVE  ~InHandoff(c)'
    BY <1>2 DEF IInv, HandoffOK, InHandoff
  <1>3. ASSUME NEW c \in Callers
        PROVE  /\ InHandoff(c)' <=> owner' = c
               /\ holding'[c] <=> owner' = c
               /\ pc'[c] = "recv" => Lent(c)'
               /\ pc'[c] \in {"answer", "answering"} => Asked(c)'
               /\ pc'[c] \in {"send", "idle", "leave"} => Quiet'
    <2>1. CASE c = owner
      BY <2>1 DEF IInv, HandoffOK, InHandoff
    <2>2. CASE c # owner
      BY <1>2, <2>2 DEF IInv, HandoffOK, InHandoff
    <2> QED BY <2>1, <2>2
  <1> QED BY <1>1, <1>3 DEF IInv, HandoffOK

LEMMA GuestSteps ==
  ASSUME IInv, TypeOK', GuestStep \/ Hostcall \/ Panic
  PROVE  IInv'
  <1> USE ThreadAssumption
  <1>0. UNCHANGED <<pc, owner, holding>>
    BY DEF GuestStep, TakeJob, RecvAnswer, EndJob, SendDone, Exit, Hostcall, Panic,
           callerVars
  <1>1. CASE TakeJob
    <2>1. ~Quiet /\ gpc = "ready" /\ jobs # None
      BY <1>1 DEF TakeJob, Quiet
    <2>2. pc[owner] = "recv" /\ Lent(owner)
      BY <2>1, Holder DEF Asked
    <2>3. jobs = owner /\ back = None /\ answers = None
      BY <2>1, <2>2 DEF Lent
    <2>4. Lent(owner)'
      BY <1>0, <1>1, <2>3 DEF TakeJob, Lent
    <2> QED BY <1>0, <2>1, <2>2, <2>4, GuestMoves
  <1>2. CASE Hostcall
    <2>1. ~Quiet /\ gpc = "job"
      BY <1>2 DEF Hostcall, Quiet
    <2>2. pc[owner] = "recv" /\ Lent(owner)
      BY <2>1, Holder DEF Asked
    <2>3. running = owner /\ jobs = None /\ answers = None
      BY <2>1, <2>2 DEF Lent
    <2>4. Lent(owner)'
      BY <1>0, <1>2, <2>3 DEF Hostcall, Lent
    <2> QED BY <1>0, <2>1, <2>2, <2>4, GuestMoves
  <1>3. CASE RecvAnswer
    <2>1. ~Quiet /\ gpc = "asked" /\ answers # None
      BY <1>3 DEF RecvAnswer, Quiet
    <2>2. pc[owner] = "recv" /\ Lent(owner)
      BY <2>1, Holder DEF Asked
    <2>3. running = owner /\ jobs = None /\ back = None
      BY <2>1, <2>2 DEF Lent
    <2>4. Lent(owner)'
      BY <1>0, <1>3, <2>3 DEF RecvAnswer, Lent
    <2> QED BY <1>0, <2>1, <2>2, <2>4, GuestMoves
  <1>4. CASE EndJob
    <2>1. ~Quiet /\ gpc = "job"
      BY <1>4 DEF EndJob, Quiet
    <2>2. pc[owner] = "recv" /\ Lent(owner)
      BY <2>1, Holder DEF Asked
    <2>3. running = owner /\ jobs = None /\ back = None /\ answers = None
      BY <2>1, <2>2 DEF Lent
    <2>4. Lent(owner)'
      BY <1>0, <1>4, <2>3 DEF EndJob, Lent, channels
    <2> QED BY <1>0, <2>1, <2>2, <2>4, GuestMoves
  <1>5. CASE SendDone
    <2>1. ~Quiet /\ gpc = "done"
      BY <1>5 DEF SendDone, Quiet
    <2>2. pc[owner] = "recv" /\ Lent(owner)
      BY <2>1, Holder DEF Asked
    <2>3. jobs = None /\ answers = None
      BY <2>1, <2>2 DEF Lent
    <2>4. Lent(owner)'
      BY <1>0, <1>5, <2>3 DEF SendDone, Lent
    <2> QED BY <1>0, <2>1, <2>2, <2>4, GuestMoves
  <1>6. CASE Panic
    <2>1. ~Quiet /\ gpc = "job"
      BY <1>6 DEF Panic, Quiet
    <2>2. pc[owner] = "recv" /\ Lent(owner)
      BY <2>1, Holder DEF Asked
    <2>3. jobs = None /\ back = None /\ answers = None
      BY <2>1, <2>2 DEF Lent
    <2>4. Lent(owner)'
      BY <1>0, <1>6, <2>3 DEF Panic, Lent, channels
    <2> QED BY <1>0, <2>1, <2>2, <2>4, GuestMoves
  <1>7. CASE Exit
    <2>1. gpc = "dying" /\ gpc' = "dead" /\ UNCHANGED <<jobs, back, answers, running>>
      BY <1>7 DEF Exit, channels
    <2>2. CASE Quiet
      <3>1. Quiet'
        BY <2>1, <2>2 DEF Quiet
      <3>2. \A c \in Callers : Lent(c) => Lent(c)'
        BY <2>1 DEF Lent
      <3>3. \A c \in Callers : ~Asked(c)
        BY <2>1 DEF Asked
      <3> QED BY <1>0, <3>1, <3>2, <3>3 DEF IInv, HandoffOK, InHandoff
    <2>3. CASE ~Quiet
      <3>1. pc[owner] = "recv" /\ Lent(owner)
        BY <2>1, <2>3, Holder DEF Asked
      <3>2. Lent(owner)'
        BY <1>0, <2>1, <3>1 DEF Lent
      <3> QED BY <1>0, <2>3, <3>1, <3>2, GuestMoves
    <2> QED BY <2>2, <2>3
  <1> QED
    BY <1>1, <1>2, <1>3, <1>4, <1>5, <1>6, <1>7 DEF GuestStep

LEMMA NextIInv == IInv /\ [Next]_vars => IInv'
  <1> SUFFICES ASSUME IInv, [Next]_vars PROVE IInv'
    OBVIOUS
  <1>0. TypeOK'
    BY NextTypeOK DEF IInv
  <1>1. ASSUME NEW a \in Answerers \cup {None}, AnswerWith(a) PROVE IInv'
    BY <1>0, <1>1
       DEF AnswerWith, IInv, HandoffOK, InHandoff, Quiet, Lent, Asked, callerVars,
           guestVars, channels
  <1>2. CASE UNCHANGED vars
    BY <1>0, <1>2
       DEF vars, IInv, HandoffOK, InHandoff, Quiet, Lent, Asked, callerVars, guestVars,
           channels
  <1> QED
    BY <1>0, <1>1, <1>2, CallSteps, CallerSteps, NestSteps, GuestSteps DEF Next

LEMMA Inductive == Spec => []IInv
  BY InitIInv, NextIInv, PTL DEF Spec
-----------------------------------------------------------------------------
(***************************************************************************)
(* What the channels carry, and where every thread may be.                 *)
(***************************************************************************)
THEOREM TypeCorrect == Spec => []TypeOK
  BY Inductive, PTL DEF IInv

(***************************************************************************)
(* The guest's code, an answer to it and a while_idle never run at once,   *)
(* however many threads call: the contract's rules 2 and 8 off the web.    *)
(***************************************************************************)
THEOREM NeverBothSides == Spec => []OneSideRuns
  <1>1. IInv => OneSideRuns
    BY ThreadAssumption
       DEF IInv, TypeOK, HandoffOK, OneSideRuns, HostSide, InHandoff, Quiet, Asked
  <1> QED BY <1>1, Inductive, PTL

(***************************************************************************)
(* A closure the guest's thread has is borrowed of a caller still in the   *)
(* call that lent it, whichever thread panicked: run's `transmute` is      *)
(* sound.                                                                  *)
(***************************************************************************)
THEOREM NeverDangles == Spec => []LentStands
  <1>1. ASSUME IInv PROVE LentStands
    <2>1. ASSUME NEW c \in Callers, jobs = c \/ running = c
          PROVE  owner = c /\ pc[c] \in {"recv", "answer", "answering"}
      <3>1. ~Quiet
        BY <2>1, ThreadAssumption DEF Quiet
      <3>2. pc[owner] = "recv" => Lent(owner)
        BY <1>1, <3>1, Holder
      <3>3. owner \in Callers /\ pc[owner] \in {"recv", "answer", "answering"}
        BY <1>1, <3>1, Holder
      <3>4. pc[owner] # "recv" => Asked(owner)
        BY <1>1, <3>1, Holder
      <3> QED BY <2>1, <3>2, <3>3, <3>4, ThreadAssumption DEF Lent, Asked
    <2> QED BY <2>1 DEF LentStands
  <1> QED BY <1>1, Inductive, PTL

(***************************************************************************)
(* No thread waits for the handoff it holds.                               *)
(***************************************************************************)
THEOREM NeverSelfWaits == Spec => []NoSelfWait
  <1>1. IInv => NoSelfWait
    BY DEF IInv, HandoffOK, NoSelfWait, InHandoff
  <1> QED BY <1>1, Inductive, PTL
-----------------------------------------------------------------------------
(***************************************************************************)
(* The strengthening for the answers: what a caller that answers has read, *)
(* and what it has sent, is of the hostcall that waits, and of an answerer *)
(* in force since that was made.                                           *)
(***************************************************************************)
AnswerOK ==
  /\ answerer \in inForce
  /\ \A c \in Callers : pc[c] = "answering" => fn[c] \in inForce
  /\ answers # None => answers.n = hostcalls /\ answers.by \in inForce

LEMMA CallersAnswer ==
  ASSUME IInv, AnswerOK, NEW c \in Callers, CallerStep(c)
  PROVE  AnswerOK'
  <1> USE DEF IInv, TypeOK, CallerPlaces, Goto, guestVars, channels, answerVars
  <1>1. CASE Lock(c)
    BY <1>1 DEF Lock, AnswerOK
  <1>2. CASE SendJob(c)
    BY <1>2 DEF SendJob, AnswerOK
  <1>3. CASE RecvDone(c)
    BY <1>3 DEF RecvDone, AnswerOK
  <1>4. CASE RecvHostcall(c)
    BY <1>4 DEF RecvHostcall, AnswerOK
  <1>5. CASE RecvGone(c)
    BY <1>5 DEF RecvGone, AnswerOK
  <1>6. CASE ReadAnswer(c)
    BY <1>6 DEF ReadAnswer, AnswerOK
  <1>7. CASE SendAnswer(c)
    BY <1>7 DEF SendAnswer, AnswerOK
  <1>8. CASE EndIdle(c)
    BY <1>8 DEF EndIdle, AnswerOK
  <1>9. CASE Leave(c)
    BY <1>9 DEF Leave, AnswerOK
  <1> QED
    BY <1>1, <1>2, <1>3, <1>4, <1>5, <1>6, <1>7, <1>8, <1>9 DEF CallerStep

LEMMA NextAnswers == IInv /\ AnswerOK /\ [Next]_vars => AnswerOK'
  <1> SUFFICES ASSUME IInv, AnswerOK, [Next]_vars PROVE AnswerOK'
    OBVIOUS
  <1>1. ASSUME NEW c \in Callers, NEW kind \in {"run", "idle"}, Call(c, kind)
        PROVE  AnswerOK'
    BY <1>1 DEF Call, Goto, IInv, TypeOK, guestVars, channels, answerVars, AnswerOK
  <1>2. ASSUME NEW c \in Callers, Nest(c) PROVE AnswerOK'
    <2>1. UNCHANGED <<fn, hostcalls, answers, answerer, inForce>>
      BY <1>2 DEF Nest, guestVars, channels, answerVars
    <2>2. \A d \in Callers : pc'[d] = "answering" => pc[d] = "answering"
      BY <1>2 DEF Nest, Goto, IInv, TypeOK
    <2> QED BY <2>1, <2>2 DEF AnswerOK
  <1>3. ASSUME NEW a \in Answerers \cup {None}, AnswerWith(a) PROVE AnswerOK'
    BY <1>3 DEF AnswerWith, callerVars, guestVars, channels, AnswerOK
  <1>4. CASE GuestStep
    BY <1>4 DEF GuestStep, TakeJob, RecvAnswer, EndJob, SendDone, Exit, callerVars,
                channels, answerVars, AnswerOK
  <1>5. CASE Hostcall
    <2>1. ~Quiet /\ gpc = "job"
      BY <1>5 DEF Hostcall, Quiet
    <2>2. pc[owner] = "recv" /\ Lent(owner)
      BY <2>1, Holder DEF Asked
    <2>3. answers = None /\ answers' = None
      BY <1>5, <2>1, <2>2 DEF Lent, Hostcall
    <2>4. \A c \in Callers : pc'[c] # "answering"
      BY <1>5, <2>2 DEF Hostcall, callerVars, IInv, HandoffOK, InHandoff
    <2>5. answerer' \in inForce'
      BY <1>5 DEF Hostcall
    <2> QED BY <2>3, <2>4, <2>5 DEF AnswerOK
  <1>6. CASE Panic
    BY <1>6 DEF Panic, callerVars, channels, answerVars, AnswerOK
  <1>7. CASE UNCHANGED vars
    BY <1>7 DEF vars, callerVars, guestVars, channels, answerVars, AnswerOK
  <1> QED
    BY <1>1, <1>2, <1>3, <1>4, <1>5, <1>6, <1>7, CallersAnswer DEF Next

(***************************************************************************)
(* OwnAnswer: a hostcall is answered by its own answer, of an answerer     *)
(* installed no earlier than the one in force when it was made, however    *)
(* often ANSWER is replaced between (answer_with, hostcall).               *)
(***************************************************************************)
THEOREM AnswersOwn == Spec => OwnAnswer
  <1>1. Init => AnswerOK
    BY DEF Init, AnswerOK
  <1>2. ASSUME IInv, AnswerOK, [Next]_vars
        PROVE  [gpc = "asked" /\ gpc' = "job" => got'.n = hostcalls /\ got'.by \in inForce]_vars
    <2> SUFFICES ASSUME Next, gpc = "asked", gpc' = "job"
                 PROVE  got'.n = hostcalls /\ got'.by \in inForce
      BY <1>2
    <2>1. RecvAnswer
      BY DEF Next, Call, CallerStep, Lock, SendJob, RecvDone, RecvHostcall, RecvGone,
             ReadAnswer, SendAnswer, EndIdle, Leave, Nest, AnswerWith, GuestStep, TakeJob,
             EndJob, SendDone, Exit, Hostcall, Panic, guestVars
    <2> QED BY <1>2, <2>1 DEF RecvAnswer, AnswerOK
  <1> QED BY <1>1, <1>2, NextAnswers, Inductive, PTL DEF Spec, OwnAnswer
=============================================================================
