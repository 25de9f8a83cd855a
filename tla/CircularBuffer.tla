--------------------------- MODULE CircularBuffer ---------------------------
(***************************************************************************)
(* The single-producer single-consumer ring of InOut/circularbuffer.c.     *)
(*                                                                         *)
(* The buffer has one slot more than the requested size, so that equal     *)
(* cursors mean empty.  Only the producer stores wp and only the consumer  *)
(* stores rp; each operation loads both cursors, copies element by element *)
(* and then stores its own cursor once.  The n-th element ever accepted is *)
(* represented by its number n.                                            *)
(***************************************************************************)
EXTENDS Integers

CONSTANTS
    Size,      \* the requested number of elements
    MaxItems,  \* largest number of items one call asks for
    MaxTotal   \* bound: elements ever accepted

ASSUME SizeAssumption  == Size \in Nat \ {0}
ASSUME ItemsAssumption == MaxItems \in Nat \ {0} /\ MaxTotal \in Nat

numelem == Size + 1
Slot    == 0..Size

VARIABLES
    buffer,         \* contents of the slots
    wp, rp,         \* the shared cursors
    put_pc, put_wp, \* producer: where it is and its private cursor
    put_left,       \* producer: elements still to copy in this call
    get_pc, get_rp, \* consumer: likewise
    get_left,
    get_op,         \* consumer: "read", "peek" or "flush"
    accepted,       \* history: elements whose write has been published
    copied,         \* history: elements copied in by the call under way
    released,       \* history: elements whose slots were given back
    taken,          \* history: elements passed by the call under way
    out             \* history: what the last copy of a read or peek returned

putVars == <<put_pc, put_wp, put_left, copied>>
getVars == <<get_pc, get_rp, get_left, get_op, taken, out>>
vars == <<buffer, wp, rp, putVars, getVars, accepted, released>>

\* Mutant of WriteSpace: the spare slot is given away too.
WriteSpace_NoSpare(w, r) == IF w > r THEN r - w + numelem
                            ELSE IF w < r THEN r - w
                            ELSE numelem

\* checkspace
WriteSpace(w, r) == IF w > r THEN r - w + numelem - 1
                    ELSE IF w < r THEN r - w - 1
                    ELSE numelem - 1
ReadSpace(w, r)  == IF w > r THEN w - r
                    ELSE IF w < r THEN w - r + numelem
                    ELSE 0

AtMost(items, remaining) == IF items > remaining THEN remaining ELSE items
Advance(p) == IF p + 1 = numelem THEN 0 ELSE p + 1

\* csoundCreateCircularBuffer
Init ==
    /\ buffer = [s \in Slot |-> 0]
    /\ wp = 0 /\ rp = 0
    /\ put_pc = "idle" /\ put_wp = 0 /\ put_left = 0
    /\ get_pc = "idle" /\ get_rp = 0 /\ get_left = 0 /\ get_op = "read"
    /\ accepted = 0 /\ copied = 0 /\ released = 0 /\ taken = 0
    /\ out = 0

(***************************************************************************)
(* The producer: csoundWriteCircularBuffer                                 *)
(***************************************************************************)

WriteBegin(items) ==
    /\ put_pc = "idle" /\ accepted + items <= MaxTotal
    /\ WriteSpace(wp, rp) # 0
    /\ put_pc' = "copy"
    /\ put_wp' = wp
    /\ put_left' = AtMost(items, WriteSpace(wp, rp))
    /\ copied' = 0
    /\ UNCHANGED <<buffer, wp, rp, getVars, accepted, released>>

\* Mutant of WriteCopy: the cursor is advanced before the store.
WriteCopy_PreIncrement ==
    /\ put_pc = "copy" /\ put_left > 0
    /\ buffer' = [buffer EXCEPT ![Advance(put_wp)] = accepted + copied + 1]
    /\ put_wp' = Advance(put_wp)
    /\ put_left' = put_left - 1
    /\ copied' = copied + 1
    /\ UNCHANGED <<wp, rp, put_pc, getVars, accepted, released>>

WriteCopy ==
    /\ put_pc = "copy" /\ put_left > 0
    /\ buffer' = [buffer EXCEPT ![put_wp] = accepted + copied + 1]
    /\ put_wp' = Advance(put_wp)
    /\ put_left' = put_left - 1
    /\ copied' = copied + 1
    /\ UNCHANGED <<wp, rp, put_pc, getVars, accepted, released>>

\* Mutant of WritePublish: the cursor is published although nothing is copied yet.
WritePublish_Early ==
    /\ put_pc = "copy"
    /\ wp' = Advance(put_wp)
    /\ accepted' = accepted + copied
    /\ copied' = 0
    /\ put_pc' = "idle"
    /\ UNCHANGED <<buffer, rp, put_wp, put_left, getVars, released>>

WritePublish ==
    /\ put_pc = "copy" /\ put_left = 0
    /\ wp' = put_wp
    /\ accepted' = accepted + copied
    /\ copied' = 0
    /\ put_pc' = "idle"
    /\ UNCHANGED <<buffer, rp, put_wp, put_left, getVars, released>>

(***************************************************************************)
(* The consumer: csoundReadCircularBuffer, csoundPeekCircularBuffer and    *)
(* csoundFlushCircularBuffer                                               *)
(***************************************************************************)

GetBegin(op, items) ==
    /\ get_pc = "idle"
    /\ ReadSpace(wp, rp) # 0
    /\ get_pc' = "copy"
    /\ get_op' = op
    /\ get_rp' = rp
    /\ get_left' = AtMost(items, ReadSpace(wp, rp))
    /\ taken' = 0
    /\ UNCHANGED <<buffer, wp, rp, putVars, accepted, released, out>>

ReadBegin(items) == GetBegin("read", items)
PeekBegin(items) == GetBegin("peek", items)
FlushBegin       == GetBegin("flush", numelem)

GetCopy ==
    /\ get_pc = "copy" /\ get_left > 0
    /\ out' = IF get_op = "flush" THEN out ELSE buffer[get_rp]
    /\ get_rp' = Advance(get_rp)
    /\ get_left' = get_left - 1
    /\ taken' = taken + 1
    /\ UNCHANGED <<buffer, wp, rp, putVars, get_pc, get_op, accepted, released>>

\* A read or a flush gives its slots back; a peek leaves rp alone.
GetEnd ==
    /\ get_pc = "copy" /\ get_left = 0
    /\ IF get_op = "peek"
       THEN UNCHANGED <<rp, released>>
       ELSE rp' = get_rp /\ released' = released + taken
    /\ taken' = 0
    /\ get_pc' = "idle"
    /\ UNCHANGED <<buffer, wp, putVars, get_rp, get_left, get_op, accepted, out>>

-----------------------------------------------------------------------------

ProducerStep == WriteCopy \/ WritePublish
ConsumerStep == GetCopy \/ GetEnd

Next ==
    \/ \E items \in 1..MaxItems : WriteBegin(items) \/ ReadBegin(items) \/ PeekBegin(items)
    \/ FlushBegin
    \/ ProducerStep
    \/ ConsumerStep

Spec == Init /\ [][Next]_vars

-----------------------------------------------------------------------------
(***************************************************************************)
(* Properties                                                              *)
(***************************************************************************)

\* Cursors stay inside the buffer of csoundCreateCircularBuffer.
TypeOK ==
    /\ buffer \in [Slot -> Nat]
    /\ wp \in Slot /\ rp \in Slot /\ put_wp \in Slot /\ get_rp \in Slot
    /\ put_pc \in {"idle", "copy"} /\ get_pc \in {"idle", "copy"}
    /\ put_left \in 0..Size /\ get_left \in 0..Size
    /\ get_op \in {"read", "peek", "flush"}
    /\ accepted \in Nat /\ copied \in 0..Size
    /\ released \in Nat /\ taken \in 0..Size
    /\ out \in Nat

\* The slot that is dist places after slot p.
Ahead(p, dist) == IF p + dist >= numelem THEN p + dist - numelem ELSE p + dist

\* The elements that are accepted and not released are in the slots from rp on,
\* in order: a producer never overwrites an element the consumer may still read
\* ("reads finish before a slot can be reused"), at any fill level.
ContentsIntact ==
    \A d \in 0..(accepted - released - 1) : buffer[Ahead(rp, d)] = released + d + 1

\* A read or a peek delivers the elements in the order they were written, none
\* twice and none skipped, whatever the producer does meanwhile.
DeliveredInOrder ==
    get_pc = "copy" /\ get_op # "flush" /\ taken > 0 => out = released + taken

\* What csoundCheckCircularBuffer tells either side is safe to rely on: the free
\* and the filled slots are those of the queue, and never more than requested.
SpaceIsExact ==
    /\ ReadSpace(wp, rp) = accepted - released
    /\ WriteSpace(wp, rp) = Size - (accepted - released)

\* The producer and the consumer are never inside the same slot.
NoSlotRace ==
    put_pc = "copy" /\ put_left > 0 /\ get_pc = "copy" /\ get_left > 0 => put_wp # get_rp

\* The ring implements a bounded queue.
Queue == INSTANCE Fifo WITH
           queue <- [m \in 1..ReadSpace(wp, rp) |-> buffer[Ahead(rp, m - 1)]],
           last  <- accepted
ImplementsFifo == Queue!Spec

=============================================================================
