-------------------------------- MODULE Files --------------------------------
(***************************************************************************)
(* A guest's open files (guest ipc/file.hpp over ipc/sys.hpp) and the      *)
(* host's end of them (host ipc/sys.ts): opens answered turns later by a   *)
(* submission, SYS_OPENED; closes that overtake the answer; writes whole   *)
(* in one turn.                                                            *)
(*                                                                         *)
(* A descriptor is a handle of the guest's own table, so none is used      *)
(* twice (Handle says until when): they are numbered as they are taken.    *)
(* The turn's records are the log that Records implements, which the host  *)
(* runs one by one once the turn has returned.                             *)
(***************************************************************************)
EXTENDS Integers, Sequences

CONSTANTS
  MaxOpens,      \* descriptors taken in one behaviour
  RingRoom,      \* submissions the ring holds
  RefusesWrites  \* whether a write may name what the host refuses to write

FilesAssumption ==
  /\ MaxOpens \in Nat
  /\ RingRoom \in Nat \ {0}
  /\ RefusesWrites \in BOOLEAN

VARIABLES
  owners,   \* the guest's files: the descriptors held, and what each is for
  taken,    \* descriptors taken so far
  toRun,    \* the turn's records, then those the host has still to run
  files,    \* the host's files, by descriptor
  sending,  \* the answer the host is sending, while the ring is full
  sq,       \* answers waiting in the submission ring
  told,     \* what the owner of each descriptor was told
  commits,  \* the descriptors whose writes were committed, in order
  threw,    \* a record the host ran threw
  side      \* "host", "guest", "run": whose step it is

filesVars == <<owners, taken, toRun, files, sending, sq, told, commits, threw, side>>

Fds     == 1 .. MaxOpens
Nothing == [fd |-> 0, ok |-> FALSE]
Answer  == [fd : Fds, ok : BOOLEAN]
\* A host file: what it was opened for, and whether what it is for is there,
\* the bytes to read or the list to write to.
File    == [for : {"read", "write"}, ready : BOOLEAN, refused : BOOLEAN, written : Nat]
SysRec  == [op : {"openat", "read", "write", "close"}, fd : Fds, for : {"read", "write"}, refused : BOOLEAN]
-----------------------------------------------------------------------------
FilesInit ==
  /\ owners = << >>
  /\ taken = 0
  /\ toRun = <<>>
  /\ files = << >>
  /\ sending = Nothing
  /\ sq = <<>>
  /\ told = [fd \in Fds |-> <<>>]
  /\ commits = <<>>
  /\ threw = FALSE
  /\ side = "host"

Forgetting(f, fd) == [g \in DOMAIN f \ {fd} |-> f[g]]
With(f, fd, v) == [g \in DOMAIN f \cup {fd} |-> IF g = fd THEN v ELSE f[g]]

Rec(op, fd)  == [op |-> op, fd |-> fd, for |-> "read", refused |-> FALSE]
Opens(fd, for, refused) == [op |-> "openat", fd |-> fd, for |-> for, refused |-> refused]

\* A submission being sent is pushed before anything else runs.
FilesRise ==
  /\ side = "host"
  /\ sending = Nothing
  /\ side' = "guest"
  /\ UNCHANGED <<owners, taken, toRun, files, sending, sq, told, commits, threw>>

\* An open for reading, answered on a later turn.
Open ==
  /\ side = "guest"
  /\ taken < MaxOpens
  /\ taken' = taken + 1
  /\ owners' = With(owners, taken + 1, "read")
  /\ toRun' = Append(toRun, Opens(taken + 1, "read", FALSE))
  /\ UNCHANGED <<files, sending, sq, told, commits, threw, side>>

\* The program reads a file it was told of, once a turn.
ReadFile(fd) ==
  /\ side = "guest"
  /\ fd \in DOMAIN owners
  /\ told[fd] = <<TRUE>>
  /\ \A i \in DOMAIN toRun : toRun[i] # Rec("read", fd)
  /\ toRun' = Append(toRun, Rec("read", fd))
  /\ UNCHANGED <<owners, taken, files, sending, sq, told, commits, threw, side>>

\* A close is recorded whether or not the descriptor is still held.
CloseFile(fd) ==
  /\ side = "guest"
  /\ fd <= taken
  /\ \A i \in DOMAIN toRun : toRun[i] # Rec("close", fd)
  /\ toRun' = Append(toRun, Rec("close", fd))
  /\ owners' = Forgetting(owners, fd)
  /\ UNCHANGED <<taken, files, sending, sq, told, commits, threw, side>>

\* Opened, written and closed in one turn.
WriteWhole(refused) ==
  /\ side = "guest"
  /\ taken < MaxOpens
  /\ refused => RefusesWrites
  /\ taken' = taken + 1
  /\ toRun' = toRun \o <<Opens(taken + 1, "write", refused), Rec("write", taken + 1), Rec("close", taken + 1)>>
  /\ UNCHANGED <<owners, files, sending, sq, told, commits, threw, side>>

\* Mutant of Owned: the descriptor's number is taken for its owner's.
OwnedEver(fd) == fd <= taken

Owned(fd) == fd \in DOMAIN owners

\* The drain hands over an answer: to its owner, if it is still held; a
\* descriptor whose open failed is closed here.
Opened ==
  /\ side = "guest"
  /\ sq # <<>>
  /\ sq' = Tail(sq)
  /\ LET a == Head(sq)
     IN  IF Owned(a.fd)
           THEN /\ told' = [told EXCEPT ![a.fd] = Append(@, a.ok)]
                /\ IF a.ok THEN UNCHANGED <<owners, toRun>>
                   ELSE /\ owners' = Forgetting(owners, a.fd)
                        /\ toRun' = Append(toRun, Rec("close", a.fd))
           ELSE UNCHANGED <<told, owners, toRun>>
  /\ UNCHANGED <<taken, files, sending, commits, threw, side>>

FilesFall ==
  /\ side = "guest"
  /\ side' = "run"
  /\ UNCHANGED <<owners, taken, toRun, files, sending, sq, told, commits, threw>>

\* Mutant of RunClose: what was written is not committed once.
RunCloseKept(fd) ==
  /\ commits' = IF fd \in DOMAIN files /\ files[fd].for = "write" THEN Append(commits, fd) ELSE commits
  /\ UNCHANGED <<files, threw>>

\* A close commits what was written, and drops an open not yet answered.
RunClose(fd) ==
  /\ commits' = IF fd \in DOMAIN files /\ files[fd].for = "write" THEN Append(commits, fd) ELSE commits
  /\ files' = Forgetting(files, fd)
  /\ UNCHANGED threw

\* Mutant of RunOpenat: the list to write to is made with the answer.
RunOpenatLate(rec) ==
  /\ files' = With(files, rec.fd, [for |-> rec.for, ready |-> FALSE, refused |-> rec.refused, written |-> 0])
  /\ UNCHANGED <<commits, threw>>

\* A write refused at its open, by its path or for want of a file service,
\* leaves no list to write to, and its answer for later.
RunOpenat(rec) ==
  /\ files' = With(files, rec.fd, [for |-> IF rec.refused THEN "read" ELSE rec.for,
                                   ready |-> rec.for = "write" /\ ~ rec.refused,
                                   refused |-> rec.refused, written |-> 0])
  /\ UNCHANGED <<commits, threw>>

\* A record that finds no such file throws, EBADF; so the rest are not run.
RunMove(rec) ==
  /\ threw' = ~ (rec.fd \in DOMAIN files /\ files[rec.fd].ready /\ files[rec.fd].for = rec.for)
  /\ files' = IF rec.op = "write" /\ ~ threw' THEN [files EXCEPT ![rec.fd].written = @ + 1] ELSE files
  /\ UNCHANGED commits

RunRecord ==
  /\ side = "run"
  /\ toRun # <<>>
  /\ ~ threw
  /\ LET rec == Head(toRun)
     IN  CASE rec.op = "openat" -> RunOpenat(rec)
           [] rec.op = "close"  -> RunClose(rec.fd)
           [] OTHER -> RunMove([rec EXCEPT !.for = rec.op])
  /\ toRun' = Tail(toRun)
  /\ UNCHANGED <<owners, taken, sending, sq, told, side>>

EndRun ==
  /\ side = "run"
  /\ toRun = <<>>
  /\ ~ threw
  /\ side' = "host"
  /\ UNCHANGED <<owners, taken, toRun, files, sending, sq, told, commits, threw>>

\* Mutant of MayAnswer: an answer is given where the open is run.
MayAnswerInRun == side \in {"host", "run"}

\* Answers are microtasks: none is given while the turn's records are run.
MayAnswer == side = "host"

\* Mutant of Awaits: an open answered is answered again.
AwaitsAnswered(fd) == fd \in DOMAIN files

\* The open's own file is still the descriptor's, and not answered.
Awaits(fd) ==
  /\ fd \in DOMAIN files
  /\ ~ files[fd].ready

\* The file service answers: bytes, or an error that drops the file.
Settle(fd, ok) ==
  /\ MayAnswer
  /\ sending = Nothing
  /\ Awaits(fd)
  /\ ok => ~ files[fd].refused
  /\ files' = IF ok THEN [files EXCEPT ![fd].ready = TRUE] ELSE Forgetting(files, fd)
  /\ sending' = [fd |-> fd, ok |-> ok]
  /\ UNCHANGED <<owners, taken, toRun, sq, told, commits, threw, side>>

\* Mutant of HasRoom: a full ring takes one more.
HasRoomOneMore == Len(sq) <= RingRoom

HasRoom == Len(sq) < RingRoom

\* The answer is a submission; where the ring is full a turn is rung first.
SendAnswer ==
  /\ MayAnswer
  /\ sending # Nothing
  /\ HasRoom
  /\ sq' = Append(sq, sending)
  /\ sending' = Nothing
  /\ UNCHANGED <<owners, taken, toRun, files, told, commits, threw, side>>

RingForRoom ==
  /\ MayAnswer
  /\ sending # Nothing
  /\ ~ HasRoom
  /\ side' = "guest"
  /\ UNCHANGED <<owners, taken, toRun, files, sending, sq, told, commits, threw>>

FilesNext ==
  \/ FilesRise
  \/ Open
  \/ \E fd \in Fds : ReadFile(fd) \/ CloseFile(fd)
  \/ \E refused \in BOOLEAN : WriteWhole(refused)
  \/ Opened
  \/ FilesFall
  \/ RunRecord
  \/ EndRun
  \/ \E fd \in Fds, ok \in BOOLEAN : Settle(fd, ok)
  \/ SendAnswer
  \/ RingForRoom

FilesSpec == FilesInit /\ [][FilesNext]_filesVars
-----------------------------------------------------------------------------
FilesTypeOK ==
  /\ DOMAIN owners \subseteq 1 .. taken
  /\ taken \in 0 .. MaxOpens
  /\ toRun \in Seq(SysRec)
  /\ \A fd \in DOMAIN files : fd \in Fds /\ files[fd] \in File
  /\ sending \in Answer \cup {Nothing}
  /\ sq \in Seq(Answer) /\ Len(sq) <= RingRoom
  /\ side \in {"host", "guest", "run"}

(***************************************************************************)
(* An owner is told once at most how its open went, and only while it      *)
(* holds the descriptor: an answer that a close overtook, in the host or   *)
(* in the ring, reaches no one.                                            *)
(***************************************************************************)
ToldOnce == \A fd \in Fds : Len(told[fd]) <= 1

ToldWhileHeld ==
  [][\A fd \in Fds : told'[fd] # told[fd] => fd \in DOMAIN owners]_filesVars

(***************************************************************************)
(* Once a turn's records are run, the host keeps no file the guest does    *)
(* not hold, and every file it keeps for one is what its owner was told:   *)
(* so a read the guest may make never finds none there.                    *)
(***************************************************************************)
HostAgrees ==
  side = "host" /\ toRun = <<>> =>
    /\ DOMAIN files \subseteq DOMAIN owners
    /\ \A fd \in DOMAIN owners : told[fd] = <<TRUE>> => fd \in DOMAIN files /\ files[fd].ready

\* "A full ring rings a turn that would overwrite the records this run is still
\* reading, so answers wait until it ends" (Sys.openat): no turn begins over them.
RunWhole == [][side # "guest" /\ side' = "guest" => toRun = <<>>]_filesVars

\* A whole write is committed once.
CommittedOnce == \A i, j \in DOMAIN commits : commits[i] = commits[j] => i = j

(***************************************************************************)
(* A part a program leaves out refuses: "an open with ENOENT (a write's    *)
(* with EROFS)" (SysHost).  A refusal is an answer, and not an exception   *)
(* in the turn's records, which stops the guest.                           *)
(***************************************************************************)
NoRecordThrows == ~ threw

(***************************************************************************)
(* Once a turn's records are run the host's files are those the guest      *)
(* holds, an owner was told of its open once at most, a file written whole *)
(* is committed once, by its close, and no record has thrown.              *)
(***************************************************************************)
FilesAgree ==
  /\ FilesTypeOK
  /\ HostAgrees
  /\ ToldOnce
  /\ CommittedOnce
  /\ NoRecordThrows

(***************************************************************************)
(* No answer rings a turn over records still being run, and an owner is    *)
(* told of its open only while it holds the descriptor.                    *)
(***************************************************************************)
AnswersWait ==
  /\ RunWhole
  /\ ToldWhileHeld
=============================================================================
