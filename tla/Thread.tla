------------------------------- MODULE Thread -------------------------------
(***************************************************************************)
(* The native host's one handoff to the guest's own thread (host           *)
(* native/thread.rs): callers on several threads take it in turn, each     *)
(* lends the guest's thread a closure and waits; a hostcall the guest      *)
(* makes meanwhile comes back to the waiting caller, which answers it on   *)
(* its own thread.  `while_idle` holds the handoff and lends nothing.      *)
(*                                                                         *)
(* A panic leaves by unwinding.  On a caller it lets the handoff go, whose *)
(* poisoned lock the next recovers; on the guest's thread it ends the      *)
(* thread; out of an answer, a C function, it aborts the process.          *)
(***************************************************************************)
EXTENDS Naturals, FiniteSets

CONSTANTS
  Callers,       \* the host's threads that call into the guest
  Answerers,     \* what answer_with may install
  None,
  MaxCalls,      \* calls a caller makes
  MaxHostcalls   \* hostcalls the guest makes

\* What the answers channel carries: which hostcall's, and of which answerer.
Answer == [n : Nat, by : Answerers \cup {None}]

ASSUME ThreadAssumption ==
  /\ None \notin Callers \cup Answerers \cup Answer \cup {"done", "hostcall"}
  /\ MaxCalls \in Nat
  /\ MaxHostcalls \in Nat

VARIABLES
  pc,        \* where each caller is
  want,      \* what it calls for: "run" or "idle"
  calls,     \* history: the calls it has made
  owner,     \* who holds the handoff's lock
  holding,   \* HOLDING, each thread's own: it holds the handoff
  jobs,      \* the jobs channel, of one: whose closure
  back,      \* the back channel, of one: "done", or a hostcall's number
  answers,   \* the answers channel, of one
  gpc,       \* where the guest's thread is
  running,   \* whose closure it runs
  hostcalls, \* history: the hostcalls it has made
  got,       \* what the last hostcall was answered
  answerer,  \* ANSWER
  fn,        \* the answer each caller read there, to run
  inForce,   \* history: what ANSWER has held since the last hostcall was made
  aborted    \* the process is gone

callerVars == <<pc, want, calls, owner, holding, fn>>
guestVars == <<gpc, running, hostcalls, got>>
channels == <<jobs, back, answers>>
answerVars == <<answerer, inForce>>
vars == <<callerVars, guestVars, channels, answerVars, aborted>>

\* "lock" waits for the handoff, "send" has a job to send, "recv" waits for what
\* comes back, "answer" and "answering" read ANSWER and run it, "idle" runs
\* while_idle's closure, "leave" lets the handoff go.
CallerPlaces == {"out", "lock", "send", "recv", "answer", "answering", "idle", "leave"}

\* "job" runs a closure, "asked" waits for its hostcall's answer, "done" has
\* Done to send.  "dying": its closure has unwound and its receiver of jobs is
\* gone; "dead": its senders and its thread-locals are too.
GuestPlaces == {"ready", "job", "asked", "done", "dying", "dead"}
-----------------------------------------------------------------------------
\* Booted: the handoff is made, and boot's own first job has run.
Init ==
  /\ pc = [c \in Callers |-> "out"]
  /\ want = [c \in Callers |-> "run"]
  /\ calls = [c \in Callers |-> 0]
  /\ owner = None
  /\ holding = [c \in Callers |-> FALSE]
  /\ jobs = None
  /\ back = None
  /\ answers = None
  /\ gpc = "ready"
  /\ running = None
  /\ hostcalls = 0
  /\ got = None
  /\ answerer = None
  /\ fn = [c \in Callers |-> None]
  /\ inForce = {None}
  /\ aborted = FALSE

Goto(c, place) == pc' = [pc EXCEPT ![c] = place]

\* The ends of the channels the guest's thread keeps.
TakesJobs == gpc \notin {"dying", "dead"}

\* Mutant of SendsBack: a sender of back is kept where the thread's end does
\* not drop it.
SendsBackKept == TRUE

SendsBack == gpc # "dead"
-----------------------------------------------------------------------------
Call(c, kind) ==
  /\ pc[c] = "out"
  /\ calls[c] < MaxCalls
  /\ calls' = [calls EXCEPT ![c] = @ + 1]
  /\ want' = [want EXCEPT ![c] = kind]
  /\ Goto(c, "lock")
  /\ UNCHANGED <<owner, holding, fn, guestVars, channels, answerVars, aborted>>

\* Mutant of Acquired: the thread forgets to say that it holds the handoff.
AcquiredUnsaid(c) == owner' = c /\ UNCHANGED holding

Acquired(c) == owner' = c /\ holding' = [holding EXCEPT ![c] = TRUE]

\* Mutant of LockFree: the handoff is taken whoever holds it.
LockIgnored == TRUE

LockFree == owner = None

Lock(c) ==
  /\ pc[c] = "lock"
  /\ LockFree
  /\ Acquired(c)
  /\ Goto(c, IF want[c] = "run" THEN "send" ELSE "idle")
  /\ UNCHANGED <<want, calls, fn, guestVars, channels, answerVars, aborted>>

\* A send fails only when the receiver is gone, by a panic.
SendJob(c) ==
  /\ pc[c] = "send"
  /\ \/ TakesJobs /\ jobs = None /\ jobs' = c /\ Goto(c, "recv")
     \/ ~TakesJobs /\ UNCHANGED jobs /\ Goto(c, "leave")
  /\ UNCHANGED <<want, calls, owner, holding, fn, guestVars, back, answers,
                 answerVars, aborted>>

RecvDone(c) ==
  /\ pc[c] = "recv"
  /\ back = "done"
  /\ back' = None
  /\ Goto(c, "leave")
  /\ UNCHANGED <<want, calls, owner, holding, fn, guestVars, jobs, answers,
                 answerVars, aborted>>

RecvHostcall(c) ==
  /\ pc[c] = "recv"
  /\ back = "hostcall"
  /\ back' = None
  /\ Goto(c, "answer")
  /\ UNCHANGED <<want, calls, owner, holding, fn, guestVars, jobs, answers,
                 answerVars, aborted>>

\* Mutant of RecvGone: a caller gives up on a guest that takes its time.
RecvGoneEarly(c) ==
  /\ pc[c] = "recv"
  /\ back = None
  /\ Goto(c, "leave")
  /\ UNCHANGED <<want, calls, owner, holding, fn, guestVars, channels, answerVars,
                 aborted>>

\* The guest's thread is gone: the caller panics.
RecvGone(c) ==
  /\ pc[c] = "recv"
  /\ back = None
  /\ ~SendsBack
  /\ Goto(c, "leave")
  /\ UNCHANGED <<want, calls, owner, holding, fn, guestVars, channels, answerVars,
                 aborted>>

\* Mutant of ReadAnswer: the answer a caller once read is kept.
ReadAnswerOnce(c) ==
  /\ pc[c] = "answer"
  /\ fn' = [fn EXCEPT ![c] = IF @ = None THEN answerer ELSE @]
  /\ Goto(c, "answering")
  /\ UNCHANGED <<want, calls, owner, holding, guestVars, channels, answerVars, aborted>>

\* ANSWER is copied under its own lock, and run outside it.
ReadAnswer(c) ==
  /\ pc[c] = "answer"
  /\ fn' = [fn EXCEPT ![c] = answerer]
  /\ Goto(c, "answering")
  /\ UNCHANGED <<want, calls, owner, holding, guestVars, channels, answerVars, aborted>>

\* Mutant of SendAnswer: what is sent is the answerer, not what it answers.
SendAnswerUnrun(c) ==
  /\ pc[c] = "answering"
  /\ answers = None
  /\ answers' = fn[c]
  /\ Goto(c, "recv")
  /\ UNCHANGED <<want, calls, owner, holding, fn, guestVars, jobs, back, answerVars,
                 aborted>>

SendAnswer(c) ==
  /\ pc[c] = "answering"
  /\ answers = None
  /\ answers' = [n |-> hostcalls, by |-> fn[c]]
  /\ Goto(c, "recv")
  /\ UNCHANGED <<want, calls, owner, holding, fn, guestVars, jobs, back, answerVars,
                 aborted>>

\* A call into the guest from inside an answer or while_idle's closure: refused
\* where the thread holds the handoff, else it waits for it.
Nest(c) ==
  /\ pc[c] \in {"answering", "idle"}
  /\ IF ~holding[c]
       THEN Goto(c, "lock") /\ UNCHANGED aborted
       ELSE IF pc[c] = "idle"
              THEN Goto(c, "leave") /\ UNCHANGED aborted
              ELSE aborted' = TRUE /\ UNCHANGED pc
  /\ UNCHANGED <<want, calls, owner, holding, fn, guestVars, channels, answerVars>>

\* while_idle's closure returns, or unwinds.
EndIdle(c) ==
  /\ pc[c] = "idle"
  /\ Goto(c, "leave")
  /\ UNCHANGED <<want, calls, owner, holding, fn, guestVars, channels, answerVars,
                 aborted>>

\* Held is dropped, by the call's return or its panic.
Leave(c) ==
  /\ pc[c] = "leave"
  /\ holding' = [holding EXCEPT ![c] = FALSE]
  /\ owner' = None
  /\ Goto(c, "out")
  /\ UNCHANGED <<want, calls, fn, guestVars, channels, answerVars, aborted>>

\* From any thread, at any moment.
AnswerWith(a) ==
  /\ answerer' = a
  /\ inForce' = inForce \cup {a}
  /\ UNCHANGED <<callerVars, guestVars, channels, aborted>>
-----------------------------------------------------------------------------
TakeJob ==
  /\ gpc = "ready"
  /\ jobs # None
  /\ running' = jobs
  /\ jobs' = None
  /\ gpc' = "job"
  /\ UNCHANGED <<callerVars, hostcalls, got, back, answers, answerVars, aborted>>

Hostcall ==
  /\ gpc = "job"
  /\ hostcalls < MaxHostcalls
  /\ back = None
  /\ back' = "hostcall"
  /\ hostcalls' = hostcalls + 1
  /\ inForce' = {answerer}
  /\ gpc' = "asked"
  /\ UNCHANGED <<callerVars, running, got, jobs, answers, answerer, aborted>>

RecvAnswer ==
  /\ gpc = "asked"
  /\ answers # None
  /\ got' = answers
  /\ answers' = None
  /\ gpc' = "job"
  /\ UNCHANGED <<callerVars, running, hostcalls, jobs, back, answerVars, aborted>>

EndJob ==
  /\ gpc = "job"
  /\ gpc' = "done"
  /\ UNCHANGED <<callerVars, running, hostcalls, got, channels, answerVars, aborted>>

SendDone ==
  /\ gpc = "done"
  /\ back = None
  /\ back' = "done"
  /\ running' = None
  /\ gpc' = "ready"
  /\ UNCHANGED <<callerVars, hostcalls, got, jobs, answers, answerVars, aborted>>

\* The closure panics, or calls into the guest and is refused on its thread.
Panic ==
  /\ gpc = "job"
  /\ running' = None
  /\ gpc' = "dying"
  /\ UNCHANGED <<callerVars, hostcalls, got, channels, answerVars, aborted>>

Exit ==
  /\ gpc = "dying"
  /\ gpc' = "dead"
  /\ UNCHANGED <<callerVars, running, hostcalls, got, channels, answerVars, aborted>>

CallerStep(c) ==
  \/ Lock(c) \/ SendJob(c) \/ RecvDone(c) \/ RecvHostcall(c) \/ RecvGone(c)
  \/ ReadAnswer(c) \/ SendAnswer(c) \/ EndIdle(c) \/ Leave(c)

GuestStep == TakeJob \/ RecvAnswer \/ EndJob \/ SendDone \/ Exit

Next ==
  /\ ~aborted
  /\ \/ \E c \in Callers :
          \/ \E kind \in {"run", "idle"} : Call(c, kind)
          \/ CallerStep(c)
          \/ Nest(c)
     \/ \E a \in Answerers \cup {None} : AnswerWith(a)
     \/ GuestStep
     \/ Hostcall
     \/ Panic

Spec == Init /\ [][Next]_vars

\* Every thread that can step does, and a closure lent ends; the lock is owed
\* to no one caller, only taken by one of those that wait.
Fairness ==
  /\ \A c \in Callers : WF_vars(~aborted /\ CallerStep(c))
  /\ WF_vars(~aborted /\ GuestStep)

FairSpec == Spec /\ Fairness
-----------------------------------------------------------------------------
TypeOK ==
  /\ pc \in [Callers -> CallerPlaces]
  /\ want \in [Callers -> {"run", "idle"}]
  /\ calls \in [Callers -> 0 .. MaxCalls]
  /\ owner \in Callers \cup {None}
  /\ holding \in [Callers -> BOOLEAN]
  /\ jobs \in Callers \cup {None}
  /\ back \in {"done", "hostcall", None}
  /\ answers \in Answer \cup {None}
  /\ gpc \in GuestPlaces
  /\ running \in Callers \cup {None}
  /\ hostcalls \in 0 .. MaxHostcalls
  /\ got \in Answer \cup {None}
  /\ answerer \in Answerers \cup {None}
  /\ fn \in [Callers -> Answerers \cup {None}]
  /\ inForce \in SUBSET (Answerers \cup {None})
  /\ aborted \in BOOLEAN

(***************************************************************************)
(* Rules 2 and 8 of the contract, of threads: the guest's code, a caller's *)
(* answer to it, and a while_idle never run at once, so each may touch the *)
(* core memory as its own.                                                 *)
(***************************************************************************)
HostSide(c) == pc[c] \in {"answer", "answering", "idle"}

OneSideRuns ==
  /\ \A c, d \in Callers : HostSide(c) /\ HostSide(d) => c = d
  /\ gpc \in {"job", "done"} => \A c \in Callers : ~HostSide(c)

(***************************************************************************)
(* A closure is borrowed from its caller's frame: whatever panics, while   *)
(* the guest's thread has it, in the channel or running, that caller is in *)
(* the call that lent it.                                                  *)
(***************************************************************************)
LentStands ==
  \A c \in Callers :
    jobs = c \/ running = c => owner = c /\ pc[c] \in {"recv", "answer", "answering"}

(***************************************************************************)
(* A hostcall gets its own answer, of an answerer installed no earlier     *)
(* than the one in force when it was made.                                 *)
(***************************************************************************)
OwnAnswer ==
  [][gpc = "asked" /\ gpc' = "job" => got'.n = hostcalls /\ got'.by \in inForce]_vars

(***************************************************************************)
(* No thread waits for what it holds itself.                               *)
(***************************************************************************)
NoSelfWait == \A c \in Callers : pc[c] = "lock" => owner # c

(***************************************************************************)
(* Every call ends, by its return or by a panic that says the guest's      *)
(* thread is gone: none waits on a thread that died, or for a lost answer. *)
(***************************************************************************)
CallsEnd == \A c \in Callers : pc[c] = "lock" ~> (pc[c] = "out" \/ aborted)
=============================================================================
