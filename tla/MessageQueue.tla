---------------------------- MODULE MessageQueue ----------------------------
(***************************************************************************)
(* The queue of asynchronous API calls of Top/threadsafe.c: many host      *)
(* threads enqueue, kperf dequeues at the start of a control period.       *)
(*                                                                         *)
(* A producer reserves a position by advancing msg_queue_write, fills the  *)
(* slot and sets its ready flag; the consumer runs ready slots from        *)
(* msg_queue_read up to a snapshot of msg_queue_write.  The positions are  *)
(* unsigned long, so they wrap at Modulus.  A request is represented by    *)
(* the thread that makes it and its number.                                *)
(***************************************************************************)
EXTENDS Integers, Sequences, FiniteSets

CONSTANTS
    Producer,     \* host threads
    Audio,        \* the audio thread, which may enqueue from a host callback
    Capacity,     \* API_MAX_QUEUE
    Modulus,      \* one more than the largest unsigned long
    Start,        \* positions used up before the run begins
    MaxRequests   \* bound: requests of each thread

ASSUME CapacityAssumption == Capacity \in Nat \ {0}
ASSUME ModulusAssumption  == Modulus \in Nat /\ Modulus % Capacity = 0 /\ Modulus > Capacity
ASSUME StartAssumption    == Start \in 0..(Modulus - 1)
ASSUME ProducerAssumption == Audio \notin Producer /\ MaxRequests \in [Producer \cup {Audio} -> Nat]

Caller   == Producer \cup {Audio}
Request  == UNION {{p} \X (1..MaxRequests[p]) : p \in Caller}
Position == 0..(Modulus - 1)
Slot     == 0..(Capacity - 1)

CSOUND_SUCCESS == 0
CSOUND_ERROR   == -1
NoArgs         == <<>>

VARIABLES
    allocated,        \* msg_queue # NULL
    args, ready,      \* the slots
    msg_queue_write, msg_queue_read,
    msg_queue_status, msg_queue_warned,
    pc, snap_read, snap_write, attempt, issued,  \* the callers
    c_pc, c_read, c_end,                         \* message_dequeue
    order,            \* history: requests in the order of their positions
    delivered,        \* history: payloads run by the consumer
    limit,            \* history: length of order when the drain began
    sawFull,          \* history: the queue was full at some time in this call
    setter            \* history: who stored msg_queue_status last

queueVars  == <<allocated, args, ready, msg_queue_write, msg_queue_read>>
statusVars == <<msg_queue_status, msg_queue_warned, setter>>
callVars   == <<pc, snap_read, snap_write, attempt, issued, sawFull>>
drainVars  == <<c_pc, c_read, c_end, delivered, limit>>
vars == <<queueVars, statusVars, callVars, drainVars, order>>

\* Mutant of FullAt: one request too many.
FullAt_OneMore(w, r) == ((w - r) % Modulus) > Capacity

SlotOf(position) == position % Capacity
Minus(a, b)      == (a - b) % Modulus
Plus1(a)         == (a + 1) % Modulus
FullAt(w, r)     == Minus(w, r) >= Capacity

Goto(p, label) == pc' = [pc EXCEPT ![p] = label]
Payload(p)     == <<p, issued[p]>>

\* A queue that csoundStart allocated, after Start requests came and went.
Init ==
    /\ allocated = TRUE
    /\ args = [s \in Slot |-> NoArgs] /\ ready = [s \in Slot |-> FALSE]
    /\ msg_queue_write = Start /\ msg_queue_read = Start
    /\ msg_queue_status = CSOUND_SUCCESS /\ msg_queue_warned = 0
    /\ pc = [p \in Caller |-> "idle"]
    /\ snap_read = [p \in Caller |-> 0] /\ snap_write = [p \in Caller |-> 0]
    /\ attempt = [p \in Caller |-> 0] /\ issued = [p \in Caller |-> 0]
    /\ c_pc = "idle" /\ c_read = 0 /\ c_end = 0
    /\ order = <<>> /\ delivered = <<>> /\ limit = 0
    /\ sawFull = [p \in Caller |-> FALSE]
    /\ setter = Audio

(***************************************************************************)
(* A caller: message_enqueue, message_enqueue_owned and queued             *)
(***************************************************************************)

\* An async API call.  The audio thread makes one inside a host callback that
\* a request it is running reaches.
Call(p) ==
    /\ pc[p] = "idle" /\ issued[p] < MaxRequests[p]
    /\ p = Audio => c_pc = "dispatch"
    /\ issued' = [issued EXCEPT ![p] = @ + 1]
    /\ sawFull' = [sawFull EXCEPT ![p] = FullAt(msg_queue_write, msg_queue_read)]
    /\ Goto(p, IF allocated THEN "full_read" ELSE "reject")
    /\ UNCHANGED <<queueVars, statusVars, snap_read, snap_write, attempt, drainVars, order>>

\* async_refused: a malformed request is dropped before the queue is asked.
Refuse(p) ==
    /\ p \in Producer /\ pc[p] = "idle" /\ issued[p] < MaxRequests[p]
    /\ issued' = [issued EXCEPT ![p] = @ + 1]
    /\ msg_queue_status' = CSOUND_ERROR /\ setter' = p
    /\ Goto(p, "error")
    /\ UNCHANGED <<queueVars, msg_queue_warned, snap_read, snap_write, attempt,
                   sawFull, drainVars, order>>

\* message_queue_full loads the consumer's position ...
FullRead(p) ==
    /\ pc[p] = "full_read"
    /\ snap_read' = [snap_read EXCEPT ![p] = msg_queue_read]
    /\ Goto(p, "full_write")
    /\ UNCHANGED <<queueVars, statusVars, snap_write, attempt, issued, sawFull, drainVars, order>>

\* ... and then the producers' position; a request that passes is copied.
FullWrite(p) ==
    /\ pc[p] = "full_write"
    /\ attempt' = [attempt EXCEPT ![p] = 0]
    /\ Goto(p, IF FullAt(msg_queue_write, snap_read[p])
               THEN "reject" ELSE "reserve_read")
    /\ UNCHANGED <<queueVars, statusVars, snap_read, snap_write, issued, sawFull, drainVars, order>>

\* One attempt of message_enqueue_owned: both positions and a compare-and-swap.
ReserveRead(p) ==
    /\ pc[p] = "reserve_read"
    /\ snap_read' = [snap_read EXCEPT ![p] = msg_queue_read]
    /\ Goto(p, "reserve_write")
    /\ UNCHANGED <<queueVars, statusVars, snap_write, attempt, issued, sawFull, drainVars, order>>

ReserveWrite(p) ==
    /\ pc[p] = "reserve_write"
    /\ snap_write' = [snap_write EXCEPT ![p] = msg_queue_write]
    /\ Goto(p, IF FullAt(msg_queue_write, snap_read[p])
               THEN "reject" ELSE "cas")
    /\ UNCHANGED <<queueVars, statusVars, snap_read, attempt, issued, sawFull, drainVars, order>>

Reserve(p) ==
    /\ pc[p] = "cas" /\ msg_queue_write = snap_write[p]
    /\ msg_queue_write' = Plus1(msg_queue_write)
    /\ order' = Append(order, Payload(p))
    /\ sawFull' = [q \in Caller |-> sawFull[q] \/ FullAt(msg_queue_write', msg_queue_read)]
    /\ Goto(p, "fill")
    /\ UNCHANGED <<allocated, args, ready, msg_queue_read, statusVars, snap_read,
                   snap_write, attempt, issued, drainVars>>

\* Another producer took the position; contention is bounded like capacity.
LoseRace(p) ==
    /\ pc[p] = "cas" /\ msg_queue_write # snap_write[p]
    /\ attempt' = [attempt EXCEPT ![p] = @ + 1]
    /\ Goto(p, IF attempt[p] + 1 < Capacity THEN "reserve_read" ELSE "reject")
    /\ UNCHANGED <<queueVars, statusVars, snap_read, snap_write, issued, sawFull, drainVars, order>>

\* Free the old arguments of the slot and store the new ones.
Fill(p) ==
    /\ pc[p] = "fill"
    /\ args' = [args EXCEPT ![SlotOf(snap_write[p])] = Payload(p)]
    /\ Goto(p, "publish")
    /\ UNCHANGED <<allocated, ready, msg_queue_write, msg_queue_read, statusVars, snap_read,
                   snap_write, attempt, issued, sawFull, drainVars, order>>

\* Mutant of Publish: the flag of the slot that is next to be reserved is set.
Publish_WrongSlot(p) ==
    /\ pc[p] = "publish"
    /\ ready' = [ready EXCEPT ![SlotOf(msg_queue_write)] = TRUE]
    /\ Goto(p, "accepted")
    /\ UNCHANGED <<allocated, args, msg_queue_write, msg_queue_read, statusVars, snap_read,
                   snap_write, attempt, issued, sawFull, drainVars, order>>

Publish(p) ==
    /\ pc[p] = "publish"
    /\ ready' = [ready EXCEPT ![SlotOf(snap_write[p])] = TRUE]
    /\ Goto(p, "accepted")
    /\ UNCHANGED <<allocated, args, msg_queue_write, msg_queue_read, statusVars, snap_read,
                   snap_write, attempt, issued, sawFull, drainVars, order>>

SetStatus(p, status) == msg_queue_status' = status /\ setter' = p

QueuedOk(p) ==
    /\ pc[p] = "accepted"
    /\ SetStatus(p, CSOUND_SUCCESS)
    /\ Goto(p, "ok")
    /\ UNCHANGED <<queueVars, msg_queue_warned, snap_read, snap_write, attempt,
                   issued, sawFull, drainVars, order>>

QueuedError(p) ==
    /\ pc[p] = "reject"
    /\ SetStatus(p, CSOUND_ERROR)
    /\ Goto(p, "report")
    /\ UNCHANGED <<queueVars, msg_queue_warned, snap_read, snap_write, attempt,
                   issued, sawFull, drainVars, order>>

\* report_api_queue_rejection: unless the message level suppresses it, the first
\* rejection since a reset reaches the host's message callback, which may itself
\* make a request, with any outcome.
Report(p) ==
    /\ pc[p] = "report"
    /\ \/ UNCHANGED statusVars
       \/ /\ msg_queue_warned = 0
          /\ msg_queue_warned' = 1
          /\ \/ UNCHANGED <<msg_queue_status, setter>>
             \/ \E s \in {CSOUND_SUCCESS, CSOUND_ERROR} : SetStatus(p, s)
    /\ Goto(p, "restore")
    /\ UNCHANGED <<queueVars, snap_read, snap_write, attempt, issued, sawFull, drainVars, order>>

\* Mutant of QueuedErrorAgain: the status is not stored again after the callback.
QueuedErrorAgain_Skipped(p) ==
    /\ pc[p] = "restore"
    /\ Goto(p, "error")
    /\ UNCHANGED <<queueVars, statusVars, snap_read, snap_write, attempt, issued, sawFull,
                   drainVars, order>>

QueuedErrorAgain(p) ==
    /\ pc[p] = "restore"
    /\ SetStatus(p, CSOUND_ERROR)
    /\ Goto(p, "error")
    /\ UNCHANGED <<queueVars, msg_queue_warned, snap_read, snap_write, attempt,
                   issued, sawFull, drainVars, order>>

\* The call returns to the host, which may read the status.
Return(p) ==
    /\ pc[p] \in {"ok", "error"}
    /\ Goto(p, "idle")
    /\ UNCHANGED <<queueVars, statusVars, snap_read, snap_write, attempt, issued, sawFull,
                   drainVars, order>>

(***************************************************************************)
(* The audio thread: message_dequeue                                       *)
(***************************************************************************)

Snapshot ==
    /\ c_pc = "idle" /\ allocated
    /\ c_read' = msg_queue_read /\ c_end' = msg_queue_write
    /\ limit' = Len(order)
    /\ c_pc' = "check"
    /\ UNCHANGED <<queueVars, statusVars, callVars, delivered, order>>

\* The loop condition and the break: drained, or the head is not published.
DrainEnds ==
    /\ c_pc = "check"
    /\ c_read = c_end \/ ~ready[SlotOf(c_read)]
    /\ c_pc' = "idle"
    /\ UNCHANGED <<queueVars, statusVars, callVars, c_read, c_end, delivered, limit, order>>

\* Mutant of Dispatch: the loop tests msg_queue_write in place of the snapshot.
Dispatch_NoSnapshot ==
    /\ c_pc = "check" /\ c_read # msg_queue_write /\ ready[SlotOf(c_read)]
    /\ delivered' = Append(delivered, args[SlotOf(c_read)])
    /\ c_pc' = "dispatch"
    /\ UNCHANGED <<queueVars, statusVars, callVars, c_read, c_end, limit, order>>

\* Mutant of Dispatch: the next slot's arguments are run.
Dispatch_NextSlot ==
    /\ c_pc = "check" /\ c_read # c_end /\ ready[SlotOf(c_read)]
    /\ delivered' = Append(delivered, args[SlotOf(Plus1(c_read))])
    /\ c_pc' = "dispatch"
    /\ UNCHANGED <<queueVars, statusVars, callVars, c_read, c_end, limit, order>>

\* Run the request at the head.
Dispatch ==
    /\ c_pc = "check" /\ c_read # c_end /\ ready[SlotOf(c_read)]
    /\ delivered' = Append(delivered, args[SlotOf(c_read)])
    /\ c_pc' = "dispatch"
    /\ UNCHANGED <<queueVars, statusVars, callVars, c_read, c_end, limit, order>>

\* The request has run; the slot is cleared ...
ClearSlot ==
    /\ c_pc = "dispatch" /\ pc[Audio] = "idle"
    /\ ready' = [ready EXCEPT ![SlotOf(c_read)] = FALSE]
    /\ c_pc' = "advance"
    /\ UNCHANGED <<allocated, args, msg_queue_write, msg_queue_read, statusVars, callVars,
                   c_read, c_end, delivered, limit, order>>

\* ... and given back.
AdvanceRead ==
    /\ c_pc = "advance"
    /\ c_read' = Plus1(c_read) /\ msg_queue_read' = Plus1(c_read)
    /\ c_pc' = "check"
    /\ UNCHANGED <<allocated, args, ready, msg_queue_write, statusVars, callVars, c_end,
                   delivered, limit, order>>

(***************************************************************************)
(* csoundReset frees the queue; csoundStart allocates it again             *)
(***************************************************************************)

Reset ==
    /\ allocated /\ c_pc = "idle" /\ \A p \in Caller : pc[p] = "idle"
    /\ allocated' = FALSE
    /\ args' = [s \in Slot |-> NoArgs] /\ ready' = [s \in Slot |-> FALSE]
    /\ msg_queue_write' = 0 /\ msg_queue_read' = 0
    /\ msg_queue_status' = CSOUND_SUCCESS /\ msg_queue_warned' = 0
    /\ order' = <<>> /\ delivered' = <<>>
    /\ UNCHANGED <<callVars, c_pc, c_read, c_end, limit, setter>>

\* allocate_message_queue
Allocate ==
    /\ ~allocated
    /\ \A p \in Caller : pc[p] = "idle"
    /\ allocated' = TRUE
    /\ msg_queue_write' = 0 /\ msg_queue_read' = 0
    /\ UNCHANGED <<args, ready, statusVars, callVars, drainVars, order>>

-----------------------------------------------------------------------------

CallerStep(p) ==
    \/ FullRead(p) \/ FullWrite(p) \/ ReserveRead(p) \/ ReserveWrite(p)
    \/ Reserve(p) \/ LoseRace(p) \/ Fill(p) \/ Publish(p)
    \/ QueuedOk(p) \/ QueuedError(p) \/ Report(p) \/ QueuedErrorAgain(p) \/ Return(p)

DrainStep == Snapshot \/ DrainEnds \/ Dispatch \/ ClearSlot \/ AdvanceRead

Next ==
    \/ \E p \in Caller : Call(p) \/ Refuse(p) \/ CallerStep(p)
    \/ DrainStep
    \/ Reset \/ Allocate

Spec == Init /\ [][Next]_vars

\* A call that has begun goes on (no caller ever waits for another thread), and
\* the host keeps performing control periods.
FairSpec == Spec /\ WF_vars(DrainStep) /\ \A p \in Caller : WF_vars(CallerStep(p))

-----------------------------------------------------------------------------
(***************************************************************************)
(* Properties                                                              *)
(***************************************************************************)

Label == {"idle", "full_read", "full_write", "reserve_read", "reserve_write", "cas", "fill",
          "publish", "accepted", "reject", "report", "restore", "ok", "error"}

\* Every variable has its type, and no caller retries more than Capacity times.
TypeOK ==
    /\ allocated \in BOOLEAN
    /\ args \in [Slot -> Request \cup {NoArgs}] /\ ready \in [Slot -> BOOLEAN]
    /\ msg_queue_write \in Position /\ msg_queue_read \in Position
    /\ msg_queue_status \in {CSOUND_SUCCESS, CSOUND_ERROR} /\ msg_queue_warned \in {0, 1}
    /\ pc \in [Caller -> Label]
    /\ snap_read \in [Caller -> Position] /\ snap_write \in [Caller -> Position]
    /\ attempt \in [Caller -> 0..Capacity] /\ issued \in [Caller -> Nat]
    /\ c_pc \in {"idle", "check", "dispatch", "advance"}
    /\ c_read \in Position /\ c_end \in Position
    /\ order \in Seq(Request) /\ delivered \in Seq(Request)
    /\ limit \in Nat /\ sawFull \in [Caller -> BOOLEAN]
    /\ setter \in Caller

\* "Each slot has one producer and the single kperf consumer": while a producer
\* stores into a slot no other thread stores into it and the consumer, which may
\* be reading its arguments, is at another one, also when the positions wrap.
OneOwnerPerSlot ==
    \A p \in Caller : pc[p] \in {"fill", "publish"} =>
        /\ ~ready[SlotOf(snap_write[p])]
        /\ \A q \in Caller \ {p} :
              pc[q] \in {"fill", "publish"} => SlotOf(snap_write[q]) # SlotOf(snap_write[p])
        /\ c_pc \in {"dispatch", "advance"} => SlotOf(c_read) # SlotOf(snap_write[p])

\* "Snapshot the end so nested API calls wait until the next audio block": a
\* control period runs no request that was reserved after its drain began.
DrainIsBounded == c_pc # "idle" => Len(delivered) <= limit

\* "the rejected call's caller reads its own status when it returns", whatever
\* the message callback did, unless another thread made a request since.
CallerReadsOwnStatus ==
    \A p \in Caller :
        /\ pc[p] = "ok" /\ setter = p => msg_queue_status = CSOUND_SUCCESS
        /\ pc[p] = "error" /\ setter = p => msg_queue_status = CSOUND_ERROR

\* The queue never refuses a request unless it had no room at some time during
\* the call (csoundGetAsyncStatus: "the queue had no room for it, there was none
\* yet, or the request was malformed").
RejectedOnlyWhenFull ==
    \A p \in Caller : pc[p] = "reject" => ~allocated \/ sawFull[p]

\* Every accepted request is run, unless a reset drops it.
AcceptedIsRun ==
    \A r \in Request :
        (\E n \in 1..Len(order) : order[n] = r)
          ~> ((\E n \in 1..Len(delivered) : delivered[n] = r) \/ ~allocated)

\* The ring implements the queue that a host relies on.
Pending == SubSeq(order, Len(delivered) + 1, Len(order))
Host == INSTANCE ApiQueue WITH
    queue   <- Pending,
    ready   <- {Pending[n] : n \in {m \in 1..Len(Pending) :
                  ready[SlotOf(msg_queue_read + m - 1 +
                        (IF c_pc \in {"dispatch", "advance"} THEN 1 ELSE 0))]}},
    running <- IF delivered = <<>> THEN NoArgs ELSE delivered[Len(delivered)]
ImplementsApiQueue == Host!Spec

=============================================================================
