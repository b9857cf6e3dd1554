------------------------------- MODULE Encoder -------------------------------
(***************************************************************************)
(* A guest's GPU calls (gpu/encode.hpp, Gpu): each object's handle taken   *)
(* from one table, each call a record in one stream, and a transaction     *)
(* over both; and the GPU host (ts gpu/host.ts), which keeps the objects   *)
(* by their handles' slots and runs the stream after the turn.             *)
(*                                                                         *)
(* A view of a surface no canvas is bound to is made of nothing, and a     *)
(* device that goes takes every object along: a record that uses an object *)
(* not there throws out of the turn, which stops the guest.                *)
(*                                                                         *)
(* The table and the stream are what they promise, Names and Log, which    *)
(* Handle and Records implement.  An id is a handle's slot, all that the   *)
(* host reads of one.                                                      *)
(***************************************************************************)
EXTENDS Integers, Sequences, FiniteSets

LOCAL INSTANCE SequencesExt

CONSTANTS
  Slots,       \* the handles' slots
  Lasting,     \* the ops that make what lasts until destroyed
  Passes,      \* those that make what a turn lets go: passes,
  Encoders,    \* encoders,
  Views,       \* and views of a surface's texture
  StreamRoom,  \* words the stream holds
  MakeWords,   \* words of a record that makes
  CallWords    \* words of one that does not

Passing == Passes \cup Encoders \cup Views

EncoderAssumption ==
  /\ IsFiniteSet(Slots)
  /\ Lasting \cap Passing = {}
  /\ (Lasting \cup Passing) \cap {"call", "destroy", "end", "submit"} = {}
  /\ StreamRoom \in Nat
  /\ MakeWords \in Nat \ {0}
  /\ CallWords \in Nat \ {0}

VARIABLES
  held, own,                \* the table: each id's op, and the transaction's own
  log, from, lost, given, gone,  \* the stream
  objects,                  \* the count kept of live objects, by op
  host,                     \* what the host keeps, by slot
  named,                    \* what its records have named to it and not let go
  canvas,                   \* a canvas is bound to the surface
  emptied,                  \* the device went, and what was kept
  ran,                      \* records of those handed it that it has run
  missing,                  \* it was asked for an object that was not named to it
  left,                     \* whether a dropped transaction let go an earlier object
  turn                      \* "guest", "left", "host"; "stopped", once a record threw

encoderVars == <<held, own, log, from, lost, given, gone, objects, host, named, canvas,
                 emptied, ran, missing, left, turn>>
tableVars   == <<held, own>>
streamVars  == <<log, from, lost, given, gone>>
keptVars    == <<host, named, canvas, emptied, ran, missing>>

ObjectKinds == Lasting \cup Passing
GpuRecord == [op : ObjectKinds \cup {"call", "destroy", "end", "submit"}, id : Slots]

RecordSize(rec) == IF rec.op \in ObjectKinds THEN MakeWords ELSE CallWords

T == INSTANCE Names WITH MostHeld <- Cardinality(Slots), Ids <- Slots, Vals <- ObjectKinds
S == INSTANCE Log WITH Room <- StreamRoom, Recs <- GpuRecord, WordsOf <- RecordSize
-----------------------------------------------------------------------------
EncoderInit ==
  /\ T!Init
  /\ S!Init
  /\ objects = [k \in Lasting |-> 0]
  /\ host = << >> /\ named = << >>
  /\ canvas = FALSE /\ emptied = FALSE
  /\ ran = 0
  /\ missing = FALSE
  /\ left = "none"
  /\ turn = "host"

\* `emit` writes the record, or an open transaction no longer fits it.  Outside
\* a transaction a record that does not fit stops the guest: no step here.
Emitted(rec) == S!Put(rec)

Fits(rec) == S!Used + RecordSize(rec) <= StreamRoom

Unsent(rec) ==
  /\ from # -1
  /\ lost \/ ~ Fits(rec)
  /\ lost' = TRUE
  /\ UNCHANGED <<log, from, given, gone>>

\* Mutant of Counted: what is let go stays counted.
CountedOn(id, n) == objects

Counted(id, n) ==
  IF held[id] \in Lasting THEN [objects EXCEPT ![held[id]] = @ + n] ELSE objects

\* Mutant of MakeUnsent: the handle stays taken.
MakeUnsentKept(op, id) ==
  /\ Unsent([op |-> op, id |-> id])
  /\ T!Take(id, op)
  /\ UNCHANGED objects

\* A handle whose record did not fit is given back.
MakeUnsent(op, id) ==
  /\ Unsent([op |-> op, id |-> id])
  /\ id \notin DOMAIN held
  /\ UNCHANGED <<held, own, objects>>

Make(op, id) ==
  /\ turn = "guest"
  /\ \/ /\ Emitted([op |-> op, id |-> id])
        /\ T!Take(id, op)
        /\ objects' = IF op \in Lasting THEN [objects EXCEPT ![op] = @ + 1] ELSE objects
     \/ MakeUnsent(op, id)
  /\ UNCHANGED <<keptVars, left, turn>>

\* A call over objects the program holds (encode.cpp).
Call(id) ==
  /\ turn = "guest"
  /\ id \in DOMAIN held
  /\ Emitted([op |-> "call", id |-> id]) \/ Unsent([op |-> "call", id |-> id])
  /\ UNCHANGED <<tableVars, objects, keptVars, left, turn>>

\* Mutant of LetGo: what its own transaction made is let go without a record.
LetGoUnsaid(op, id) ==
  /\ turn = "guest"
  /\ id \in DOMAIN held
  /\ T!Give(id)
  /\ objects' = Counted(id, -1)
  /\ \/ id \in own /\ UNCHANGED streamVars
     \/ id \notin own /\ Emitted([op |-> op, id |-> id])
  /\ UNCHANGED <<keptVars, turn>>

\* The handle is free whether or not the record was written.
LetGo(op, id) ==
  /\ turn = "guest"
  /\ id \in DOMAIN held
  /\ T!Give(id)
  /\ objects' = Counted(id, -1)
  /\ \/ Emitted([op |-> op, id |-> id])
     \/ Unsent([op |-> op, id |-> id])
  /\ UNCHANGED <<keptVars, turn>>

\* `end` lets a pass go, `submit` an encoder, `destroy` an object or a view.
LetGoBy(kind) ==
  IF kind \in Passes THEN "end" ELSE IF kind \in Encoders THEN "submit" ELSE "destroy"

Release(op, id) ==
  /\ LetGo(op, id)
  /\ op = LetGoBy(held[id])
  /\ left' = IF from # -1 /\ id \notin own /\ left = "none" THEN "perhaps" ELSE left

BeginRecords ==
  /\ turn = "guest"
  /\ S!Open
  /\ T!BeginOwn
  /\ UNCHANGED <<objects, keptVars, left, turn>>

OwnOf(op) == {id \in own : held[id] = op}

\* Mutant of Dropped: the table keeps what the transaction took.
DroppedRecords == S!Drop /\ UNCHANGED <<held, own, objects>>

\* A transaction that did not fit: its records and its handles go.
Dropped ==
  /\ S!Drop
  /\ T!GiveOwn
  /\ objects' = [op \in Lasting |-> objects[op] - Cardinality(OwnOf(op))]

Kept == S!Keep /\ UNCHANGED <<held, own, objects>>

Commit ==
  /\ turn = "guest"
  /\ Dropped \/ Kept
  /\ left' = IF left # "perhaps" THEN left ELSE IF lost THEN "left" ELSE "none"
  /\ UNCHANGED <<keptVars, turn>>

EncoderFall ==
  /\ turn = "guest"
  /\ S!Hand
  /\ turn' = "left"
  /\ UNCHANGED <<tableVars, objects, keptVars, left>>

EncoderRise ==
  /\ turn = "host"
  /\ S!Rise
  /\ ran' = 0
  /\ turn' = "guest"
  /\ UNCHANGED <<tableVars, objects, host, named, canvas, emptied, missing, left>>

\* The program binds and unbinds a canvas, and a device goes, between turns.
BindCanvas ==
  /\ turn = "host" /\ ~ canvas
  /\ canvas' = TRUE
  /\ UNCHANGED <<tableVars, streamVars, objects, host, named, emptied, ran, missing, left, turn>>

UnbindCanvas ==
  /\ turn = "host" /\ canvas
  /\ canvas' = FALSE
  /\ UNCHANGED <<tableVars, streamVars, objects, host, named, emptied, ran, missing, left, turn>>

DeviceGoes ==
  /\ turn = "host" /\ ~ emptied
  /\ emptied' = TRUE
  /\ host' = << >>
  /\ UNCHANGED <<tableVars, streamVars, objects, named, canvas, ran, missing, left, turn>>

\* What is kept, or named, once a record is run: put, get or forget.
Ran(objs, rec) ==
  IF rec.op \in ObjectKinds
    THEN [id \in DOMAIN objs \cup {rec.id} |-> IF id = rec.id THEN rec.op ELSE objs[id]]
  ELSE IF rec.op = "call" THEN objs
  ELSE [id \in DOMAIN objs \ {rec.id} |-> objs[id]]

\* Mutant of IsPut: with no canvas nothing is made.
IsPutOnCanvas(rec) == canvas

\* With no canvas there is no view to put, and what was kept there stays.
IsPut(rec) == rec.op \in Views => canvas

\* What is used has to be there, and be what it is used as; `destroy` looks.
Throws(rec) ==
  /\ rec.op \notin ObjectKinds \cup {"destroy"}
  /\ rec.id \in DOMAIN host => host[rec.id] # named[rec.id]

NextRecord == given[ran + 1]

\* A record that makes nothing is of an object named to the host, or one is missing.
Unnamed(rec) == rec.op \notin ObjectKinds /\ rec.id \notin DOMAIN named

HostRun ==
  /\ turn = "left"
  /\ ran < Len(given)
  /\ ~ Throws(NextRecord)
  /\ host' = IF IsPut(NextRecord) THEN Ran(host, NextRecord) ELSE host
  /\ named' = Ran(named, NextRecord)
  /\ missing' = (missing \/ Unnamed(NextRecord))
  /\ ran' = ran + 1
  /\ UNCHANGED <<tableVars, streamVars, objects, canvas, emptied, left, turn>>

HostThrows ==
  /\ turn = "left"
  /\ ran < Len(given)
  /\ Throws(NextRecord)
  /\ missing' = (missing \/ Unnamed(NextRecord))
  /\ turn' = "stopped"
  /\ UNCHANGED <<tableVars, streamVars, objects, host, named, canvas, emptied, ran, left>>

HostDone ==
  /\ turn = "left"
  /\ ran = Len(given)
  /\ turn' = "host"
  /\ UNCHANGED <<tableVars, streamVars, objects, keptVars, left>>

EncoderNext ==
  \/ \E op \in ObjectKinds, id \in Slots : Make(op, id)
  \/ \E id \in Slots : Call(id)
  \/ \E op \in {"destroy", "end", "submit"}, id \in Slots : Release(op, id)
  \/ BeginRecords
  \/ Commit
  \/ EncoderFall
  \/ EncoderRise
  \/ BindCanvas
  \/ UnbindCanvas
  \/ DeviceGoes
  \/ HostRun
  \/ HostThrows
  \/ HostDone

EncoderSpec == EncoderInit /\ [][EncoderNext]_encoderVars
-----------------------------------------------------------------------------
EncoderTypeOK ==
  /\ DOMAIN held \subseteq Slots /\ own \subseteq DOMAIN held
  /\ \A id \in DOMAIN held : held[id] \in ObjectKinds
  /\ log \in Seq(GpuRecord) /\ given \in Seq(GpuRecord)
  /\ from \in -1 .. Len(log)
  /\ lost \in BOOLEAN /\ missing \in BOOLEAN
  /\ left \in {"none", "perhaps", "left"}
  /\ objects \in [Lasting -> 0 .. Cardinality(Slots)]
  /\ DOMAIN host \subseteq Slots /\ DOMAIN named \subseteq Slots
  /\ canvas \in BOOLEAN /\ emptied \in BOOLEAN
  /\ ran \in 0 .. Len(given)
  /\ turn \in {"guest", "left", "host", "stopped"}

(***************************************************************************)
(* However transactions are dropped, the records of a turn never name an   *)
(* object that was not named to the host, and what the guest holds is,     *)
(* once the turn's records have run, what was named so.  While the device  *)
(* stands, all of it but a view is kept under that name, and a record      *)
(* throws only for a view of a surface that had no canvas.                 *)
(***************************************************************************)
HostKnowsHeld ==
  /\ ~ missing
  /\ turn = "host" => \A id \in DOMAIN held : id \in DOMAIN named /\ named[id] = held[id]
  /\ turn = "host" /\ ~ emptied =>
       \A id \in DOMAIN held : held[id] \notin Views => id \in DOMAIN host /\ host[id] = held[id]
  /\ turn = "stopped" => emptied \/ named[NextRecord.id] \in Views

\* The counts kept beside the table are the table's (`objects`).
CountsAgree ==
  \A op \in Lasting : objects[op] = Cardinality({id \in DOMAIN held : held[id] = op})

\* While a transaction lets go only what it made, the host keeps nothing else:
\* a dropped one leaves it nothing.
HostKeepsOnlyHeld == turn = "host" /\ left = "none" => DOMAIN host \subseteq DOMAIN held

\* "One dropped with its transaction left nothing on the host" (Gpu::end).
DroppedLeavesNothing == turn = "host" => DOMAIN host \subseteq DOMAIN held

(***************************************************************************)
(* Over dropped transactions, unbound canvases and a lost device, the host *)
(* is asked only for objects named to it, keeps those the guest holds and  *)
(* none it has let go but for a record still to run, and the counts of     *)
(* live objects are of the handles held.                                   *)
(***************************************************************************)
HostKeepsPace ==
  /\ EncoderTypeOK
  /\ HostKnowsHeld
  /\ HostKeepsOnlyHeld
  /\ CountsAgree
=============================================================================
