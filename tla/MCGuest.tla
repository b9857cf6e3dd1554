------------------------------- MODULE MCGuest --------------------------------
(* The guest's parts for TLC, one to a behaviour: each is checked in its   *)
(* own module's terms, on the small instance given here.                   *)
EXTENDS Handle, Records, Files, Edge, Tick, Ring, Answers, Surface

\* The ms of a tick held back from phase 0, for phase 1.
MCHeldBack == [p \in 0 .. 1 |-> IF p = 0 THEN 2 ELSE 0]

VARIABLES
  part,  \* the component the behaviour is of
  m_sent, m_heard

M == INSTANCE Commands WITH
  MostItems <- 2, Lengths <- {0, 5}, sent <- m_sent, heard <- m_heard
ASSUME HandleAssumption
ASSUME RecordsAssumption
ASSUME FilesAssumption
ASSUME EdgeAssumption
ASSUME TickAssumption
ASSUME RingAssumption
ASSUME AnswersAssumption
ASSUME SurfaceAssumption
ASSUME M!CommandsAssumption
-----------------------------------------------------------------------------
commandsVars == <<m_sent, m_heard>>

Init ==
  /\ part \in {"handle", "records", "files", "edge", "tick", "ring", "answers",
              "surface", "commands"}
  /\ HandleInit
  /\ RecordsInit
  /\ part # "records" => stream = "sys"
  /\ FilesInit
  /\ EdgeInit
  /\ TickInit
  /\ RingInit
  /\ part # "ring" => producer = "writer"
  /\ AnswersInit
  /\ SurfaceInit
  /\ part # "surface" => configureAt = "here" /\ size = 1
  /\ M!CommandsInit

Next ==
  /\ UNCHANGED part
  /\ IF part = "handle" THEN HandleNext ELSE UNCHANGED handleVars
  /\ IF part = "records" THEN RecordsNext ELSE UNCHANGED recordsVars
  /\ IF part = "files" THEN FilesNext ELSE UNCHANGED filesVars
  /\ IF part = "edge" THEN EdgeNext ELSE UNCHANGED edgeVars
  /\ IF part = "tick" THEN TickNext ELSE UNCHANGED tickVars
  /\ IF part = "ring" THEN RingNext ELSE UNCHANGED ringVars
  /\ IF part = "answers" THEN AnswersNext ELSE UNCHANGED answersVars
  /\ IF part = "surface" THEN SurfaceNext ELSE UNCHANGED surfaceVars
  /\ IF part = "commands" THEN M!CommandsNext ELSE UNCHANGED commandsVars

mcVars == <<part, handleVars, recordsVars, filesVars, edgeVars, tickVars,
            ringVars, answersVars, surfaceVars, commandsVars>>
Spec == Init /\ [][Next]_mcVars
-----------------------------------------------------------------------------
\* The words counted for a GPU record are those written, and the host
\* reads them to the last, each field as what the guest put there or left
\* out.
CommandsRead == part = "commands" => M!CommandsRead
=============================================================================
