--------------------------------- MODULE Log ---------------------------------
(***************************************************************************)
(* What a stream promises the program that records in it: a turn's records *)
(* end to end, within a room they share, handed to the host together as    *)
(* the turn ends; and a transaction whose records are all there or none.   *)
(* Encoder keeps its stream as such a sequence; Records shows that the     *)
(* words in the shared range implement this module.                        *)
(***************************************************************************)
EXTENDS Integers, Sequences

CONSTANTS
  Room,         \* words the records share
  Recs,         \* records
  WordsOf(_)    \* the words of one

VARIABLES
  log,    \* the turn's records so far
  from,   \* where the open transaction began, -1 where none is
  lost,   \* a record of that transaction found no room
  given,  \* the records the host has been handed, until the guest runs again
  gone    \* the guest has stopped, and the turn's records with it

\* The words of a sequence of records.
WordsIn(recs) ==
  LET To[i \in 0 .. Len(recs)] == IF i = 0 THEN 0 ELSE To[i - 1] + WordsOf(recs[i])
  IN  To[Len(recs)]

Used == WordsIn(log)

Init == log = <<>> /\ from = -1 /\ lost = FALSE /\ given = <<>> /\ gone = FALSE

Put(rec) ==
  /\ ~ lost
  /\ Used + WordsOf(rec) <= Room
  /\ log' = Append(log, rec)
  /\ UNCHANGED <<from, lost, given, gone>>

\* In a transaction, a record with no room is for `Drop` to answer.
Refuse(rec) ==
  /\ from # -1
  /\ Used + WordsOf(rec) > Room
  /\ lost' = TRUE
  /\ UNCHANGED <<log, from, given, gone>>

Open == from = -1 /\ from' = Len(log) /\ UNCHANGED <<log, lost, given, gone>>

\* Each of the transaction's records fits, and they are kept.
Keep == from # -1 /\ ~ lost /\ from' = -1 /\ UNCHANGED <<log, lost, given, gone>>

Drop ==
  /\ lost
  /\ log' = SubSeq(log, 1, from)
  /\ from' = -1
  /\ lost' = FALSE
  /\ UNCHANGED <<given, gone>>

Hand == from = -1 /\ given' = log /\ log' = <<>> /\ UNCHANGED <<from, lost, gone>>

Rise == given' = <<>> /\ UNCHANGED <<log, from, lost, gone>>

Stop == gone' = TRUE /\ log' = <<>> /\ from' = -1 /\ lost' = FALSE /\ given' = <<>>

Next ==
  /\ ~ gone
  /\ \/ \E rec \in Recs : Put(rec) \/ Refuse(rec)
     \/ Open
     \/ Keep
     \/ Drop
     \/ Hand
     \/ Rise
     \/ Stop

Spec == Init /\ [][Next]_<<log, from, lost, given, gone>>
=============================================================================
