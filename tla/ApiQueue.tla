------------------------------ MODULE ApiQueue ------------------------------
(***************************************************************************)
(* What the asynchronous API promises to a host: a request that is         *)
(* accepted gets a place in one queue, is run by the audio thread exactly  *)
(* once, with its own arguments and in the order of the places, and at     *)
(* most Capacity requests wait.  A reset drops the requests that wait.     *)
(***************************************************************************)
EXTENDS Naturals, Sequences

CONSTANTS Capacity, Request

VARIABLES
    queue,    \* requests that hold a place, oldest first
    ready,    \* those among them whose arguments are complete
    running   \* the request run last

vars == <<queue, ready, running>>

NoRequest == <<>>

Init == queue = <<>> /\ ready = {} /\ running = NoRequest

Reserve(r) ==
    /\ Len(queue) < Capacity
    /\ \A n \in 1..Len(queue) : queue[n] # r
    /\ queue' = Append(queue, r)
    /\ UNCHANGED <<ready, running>>

Complete(r) ==
    /\ \E n \in 1..Len(queue) : queue[n] = r
    /\ ready' = ready \cup {r}
    /\ UNCHANGED <<queue, running>>

Run ==
    /\ queue # <<>> /\ Head(queue) \in ready
    /\ running' = Head(queue)
    /\ queue' = Tail(queue)
    /\ ready' = ready \ {Head(queue)}

Drop == queue' = <<>> /\ ready' = {} /\ running' = NoRequest

Next == Run \/ Drop \/ \E r \in Request : Reserve(r) \/ Complete(r)

Spec == Init /\ [][Next]_vars

=============================================================================
