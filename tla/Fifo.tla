-------------------------------- MODULE Fifo --------------------------------
(***************************************************************************)
(* What InOut/circularbuffer.c promises to its two users: a bounded queue  *)
(* of numbered elements.  A write appends a batch, a read or a flush       *)
(* removes a prefix, and the queue never holds more than Size elements.    *)
(***************************************************************************)
EXTENDS Naturals, Sequences

CONSTANT Size

VARIABLES
    queue,   \* the elements held, oldest first
    last     \* the number of the newest element ever put

Init == queue = <<>> /\ last = 0

Put == \E n \in 1..(Size - Len(queue)) :
          /\ queue' = queue \o [m \in 1..n |-> last + m]
          /\ last' = last + n

Get == /\ \E n \in 1..Len(queue) : queue' = SubSeq(queue, n + 1, Len(queue))
       /\ UNCHANGED last

Next == Put \/ Get

Spec == Init /\ [][Next]_<<queue, last>>

=============================================================================
