-------------------------------- MODULE Fifo --------------------------------
(***************************************************************************)
(* What a ring of frames promises the two ends that share it: a bounded    *)
(* first-in first-out queue, one producer and one consumer.  A push on a   *)
(* full queue is refused and changes nothing (EAGAIN), so it is a          *)
(* stuttering step here.  The models of the two ends (Door, Doorbell) keep *)
(* their rings as such sequences; Ring shows that the words and slots in   *)
(* the shared memory implement this module.                                *)
(***************************************************************************)
EXTENDS Naturals, Sequences

CONSTANTS
  Cap,    \* frames the queue holds
  Items   \* what a frame carries, its packet included

VARIABLE queue

Init == queue = <<>>

Enqueue(item) ==
  /\ Len(queue) < Cap
  /\ queue' = Append(queue, item)

Dequeue ==
  /\ queue # <<>>
  /\ queue' = Tail(queue)

Next == Dequeue \/ \E item \in Items : Enqueue(item)

Spec == Init /\ [][Next]_queue
=============================================================================
