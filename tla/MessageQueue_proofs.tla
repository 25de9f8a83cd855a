------------------------ MODULE MessageQueue_proofs ------------------------
(***************************************************************************)
(* Proofs about MessageQueue, for every capacity, every wrap of the        *)
(* positions and every number of callers.                                  *)
(*                                                                         *)
(* The argument counts positions instead of wrapping them: the n-th request *)
(* since the queue was allocated has position Pos(b, n - 1), where b is the *)
(* position at which the count begins, and lives in slot Home(b, n).       *)
(***************************************************************************)
EXTENDS MessageQueue, FunctionTheorems, FiniteSetTheorems, SequenceTheorems, TLAPS

\* The positions do not come round while a call is under way: the compare-and-
\* swap of message_enqueue_owned cannot tell a position from the same one
\* Modulus requests later, and Modulus is 2^64.
FewRequests == IsFiniteSet(Request) /\ Cardinality(Request) < Modulus

Pos(b, n)  == (b + n) % Modulus
Home(b, n) == SlotOf(Pos(b, n - 1))

\* The request that runs still has its slot.
Busy == IF c_pc \in {"dispatch", "advance"} THEN 1 ELSE 0
Done == Len(delivered) - Busy

Asking  == {"full_read", "full_write", "reserve_read", "reserve_write", "cas"}
Storing == {"fill", "publish"}
Bidding == {"reserve_read", "reserve_write", "cas"}

\* A call has a number, retries fewer times than there are slots, and asks only
\* a queue that exists.
CallInv ==
    /\ \A p \in Caller : /\ issued[p] <= MaxRequests[p]
                         /\ pc[p] # "idle" => issued[p] > 0
                         /\ pc[p] \in Bidding => attempt[p] < Capacity
                         /\ ~allocated => pc[p] \notin Asking \cup Storing
    /\ ~allocated => order = <<>> /\ delivered = <<>> /\ c_pc = "idle"

\* A request has at most one position, and none before it is reserved.
OrderInv ==
    /\ \A m \in 1..Len(order) :
          /\ order[m][2] <= issued[order[m][1]]
          /\ pc[order[m][1]] \in Asking => order[m][2] < issued[order[m][1]]
    /\ \A m, n \in 1..Len(order) : order[m] = order[n] => m = n

\* The cursors count the requests, and a drain stays inside its snapshot.
CursorInv(b) ==
    /\ Done \in Nat /\ Len(delivered) <= Len(order)
    /\ Len(order) - Done <= Capacity
    /\ msg_queue_write = Pos(b, Len(order)) /\ msg_queue_read = Pos(b, Done)
    /\ c_pc # "idle" => /\ c_read = msg_queue_read /\ c_end = Pos(b, limit)
                        /\ Len(delivered) <= limit /\ limit <= Len(order)

\* What a caller has read of the cursors is old, never ahead; a caller that is
\* about to swap saw room behind the position it wants.
SnapInv(b) ==
    \A p \in Caller :
        /\ pc[p] = "reserve_write" => \E k \in 0..Done : snap_read[p] = Pos(b, k)
        /\ pc[p] = "cas" => \E m \in 0..Len(order) : m < Done + Capacity /\ snap_write[p] = Pos(b, m)

\* A caller that stores holds the position of its request, which is not ready.
StoreInv(b) ==
    \A p \in Caller : pc[p] \in Storing =>
        \E m \in (Len(delivered) + 1)..Len(order) :
            /\ order[m] = Payload(p) /\ snap_write[p] = Pos(b, m - 1)
            /\ ~ready[Home(b, m)]
            /\ pc[p] = "publish" => args[Home(b, m)] = Payload(p)

\* A slot that is ready holds the request of a position that is not given back.
ReadyInv(b) ==
    \A s \in Slot : ready[s] =>
        \E m \in (Done + 1)..Len(order) :
            s = Home(b, m) /\ args[s] = order[m] /\ (c_pc = "advance" => m # Done + 1)

Ring(b) == CursorInv(b) /\ SnapInv(b) /\ StoreInv(b) /\ ReadyInv(b)

\* The inductive invariant.
IInv == TypeOK /\ CallInv /\ OrderInv /\ \E b \in Position : Ring(b)

-----------------------------------------------------------------------------
(* Remainders and positions.                                               *)

\* Division with remainder.
LEMMA DivMod ==
    ASSUME NEW M \in Nat \ {0}, NEW a \in Int
    PROVE  a % M \in 0..(M - 1) /\ a = M * (a \div M) + (a % M) /\ a \div M \in Int
OBVIOUS

\* The remainder is unique.
LEMMA ModUnique ==
    ASSUME NEW M \in Nat \ {0}, NEW q \in Int, NEW r \in 0..(M - 1)
    PROVE  (M * q + r) % M = r
OBVIOUS

\* A multiple of the modulus does not change a remainder.
LEMMA ModShift ==
    ASSUME NEW M \in Nat \ {0}, NEW a \in Int, NEW k \in Int
    PROVE  (a + M * k) % M = a % M
<1>1. PICK q \in Int, r \in 0..(M - 1) : a = M * q + r
  BY DivMod
<1>2. a + M * k = M * (q + k) + r
  BY <1>1
<1>3. a % M = r
  BY <1>1, ModUnique
<1>4. (M * (q + k) + r) % M = r
  <2>. DEFINE s == q + k
  <2>1. s \in Int
    OBVIOUS
  <2>. HIDE DEF s
  <2>2. (M * s + r) % M = r
    BY <2>1, ModUnique
  <2>. QED
    BY <2>2 DEF s
<1>. QED
  BY <1>2, <1>3, <1>4

\* A sum may be reduced before or after.
LEMMA ModAdd ==
    ASSUME NEW M \in Nat \ {0}, NEW a \in Int, NEW d \in Int
    PROVE  ((a % M) + d) % M = (a + d) % M
<1>1. PICK q \in Int, r \in 0..(M - 1) : a = M * q + r /\ a % M = r
  BY DivMod
<1>2. a + d = (r + d) + M * q
  BY <1>1
<1>3. ((r + d) + M * q) % M = (r + d) % M
  <2>. DEFINE s == r + d
  <2>1. s \in Int
    OBVIOUS
  <2>. HIDE DEF s
  <2>2. (s + M * q) % M = s % M
    BY <2>1, ModShift
  <2>. QED
    BY <2>2 DEF s
<1>. QED
  BY <1>1, <1>2, <1>3

\* Numbers less than the modulus apart have different remainders.
LEMMA ModApart ==
    ASSUME NEW M \in Nat \ {0}, NEW a \in Int, NEW b \in Int, -M < a - b, a - b < M,
           a % M = b % M
    PROVE  a = b
<1>1. PICK q \in Int, r \in 0..(M - 1) : a = M * q + r /\ a % M = r
  BY DivMod
<1>2. PICK s \in Int : b = M * s + r
  BY <1>1, DivMod
<1>3. a - b = M * (q - s)
  BY <1>1, <1>2
<1>4. q - s > -1 /\ q - s < 1
  BY <1>3
<1>. QED
  BY <1>1, <1>2, <1>4

\* Reducing by a multiple first changes nothing.
LEMMA ModMod ==
    ASSUME NEW M \in Nat \ {0}, NEW C \in Nat \ {0}, M % C = 0, NEW a \in Int
    PROVE  (a % M) % C = a % C
<1>1. PICK q \in Int, r \in 0..(M - 1) : a = M * q + r /\ a % M = r
  BY DivMod
<1>2. PICK k \in Int : M = C * k
  BY DivMod
<1>3. a = r + C * (k * q)
  <2>1. a = r + (C * k) * q
    BY <1>1, <1>2
  <2>. QED
    BY <2>1
<1>4. PICK j \in Int : j = k * q
  OBVIOUS
<1>5. (r + C * j) % C = r % C
  <2>1. r \in Int
    OBVIOUS
  <2>. QED
    BY <2>1, ModShift, Zenon
<1>. QED
  BY <1>1, <1>3, <1>4, <1>5

\* The capacity and the modulus can be divided by.
LEMMA Sizes == Capacity \in Nat \ {0} /\ Modulus \in Nat \ {0} /\ Capacity < Modulus
BY CapacityAssumption, ModulusAssumption

\* A count is a position.
LEMMA PosType ==
    ASSUME NEW b \in Position, NEW n \in Int
    PROVE  Pos(b, n) \in Position
BY Sizes, DivMod DEF Pos, Position

\* The count starts at the base.
LEMMA PosZero ==
    ASSUME NEW b \in Position
    PROVE  Pos(b, 0) = b
BY Sizes, ModUnique DEF Pos, Position

\* The next position is one more.
LEMMA PosNext ==
    ASSUME NEW b \in Position, NEW n \in Int
    PROVE  Plus1(Pos(b, n)) = Pos(b, n + 1)
<1>1. PICK x \in Int : x = b + n
  BY DEF Position
<1>2. ((x % Modulus) + 1) % Modulus = (x + 1) % Modulus
  <2>1. 1 \in Int
    OBVIOUS
  <2>. QED
    BY <2>1, Sizes, ModAdd, Zenon
<1>3. x + 1 = b + (n + 1)
  BY <1>1 DEF Position
<1>. QED
  BY <1>1, <1>2, <1>3 DEF Plus1, Pos

\* Counts less than the modulus apart have different positions.
LEMMA PosApart ==
    ASSUME NEW b \in Position, NEW m \in Nat, NEW n \in Nat, m < Modulus, n < Modulus,
           Pos(b, m) = Pos(b, n)
    PROVE  m = n
<1>1. /\ b + m \in Int /\ b + n \in Int
      /\ -Modulus < (b + m) - (b + n) /\ (b + m) - (b + n) < Modulus
  BY Sizes DEF Position
<1>2. b + m = b + n
  BY <1>1, Sizes, ModApart DEF Pos
<1>. QED
  BY <1>2 DEF Position

\* The difference of positions is the difference of counts.
LEMMA PosMinus ==
    ASSUME NEW b \in Position, NEW m \in Nat, NEW n \in Nat, m <= n, n < Modulus
    PROVE  Minus(Pos(b, n), Pos(b, m)) = n - m
<1>1. PICK x \in Int, y \in Int : x = b + n /\ y = b + m /\ x - y = n - m
  BY DEF Position
<1>2. PICK q \in Int, r \in Int : x = Modulus * q + r /\ x % Modulus = r
  <2>1. x = Modulus * (x \div Modulus) + (x % Modulus) /\ x \div Modulus \in Int
    BY Sizes, DivMod, Zenon
  <2>2. x % Modulus \in Int
    BY Sizes, DivMod
  <2>. QED
    BY <2>1, <2>2, Zenon
<1>3. PICK s \in Int, t \in Int : y = Modulus * s + t /\ y % Modulus = t
  <2>1. y = Modulus * (y \div Modulus) + (y % Modulus) /\ y \div Modulus \in Int
    BY Sizes, DivMod, Zenon
  <2>2. y % Modulus \in Int
    BY Sizes, DivMod
  <2>. QED
    BY <2>1, <2>2, Zenon
<1>4. PICK d \in 0..(Modulus - 1) : d = n - m
  BY Sizes
<1>5. r - t = d + Modulus * (s - q)
  BY <1>1, <1>2, <1>3, <1>4, Sizes
<1>6. PICK k \in Int : k = s - q
  OBVIOUS
<1>7. (d + Modulus * k) % Modulus = d % Modulus
  <2>1. d \in Int
    BY Sizes
  <2>. QED
    BY <2>1, Sizes, ModShift, Zenon
<1>8. d % Modulus = d
  BY Sizes
<1>. QED
  BY <1>1, <1>2, <1>3, <1>4, <1>5, <1>6, <1>7, <1>8 DEF Minus, Pos

\* The slot of a request.
LEMMA HomeSlot ==
    ASSUME NEW b \in Position, NEW n \in Int
    PROVE  Home(b, n) \in Slot /\ Home(b, n) = (b + (n - 1)) % Capacity
<1>1. PICK x \in Int : x = b + (n - 1)
  BY DEF Position
<1>2. (x % Modulus) % Capacity = x % Capacity
  BY Sizes, ModulusAssumption, ModMod
<1>3. x % Capacity \in 0..(Capacity - 1)
  BY Sizes, DivMod
<1>. QED
  BY <1>1, <1>2, <1>3 DEF Home, SlotOf, Pos, Slot

\* Requests less than the capacity apart have different slots.
LEMMA HomeApart ==
    ASSUME NEW b \in Position, NEW m \in Int, NEW n \in Int,
           m - n < Capacity, n - m < Capacity, Home(b, m) = Home(b, n)
    PROVE  m = n
<1>1. PICK x \in Int, y \in Int : x = b + (m - 1) /\ y = b + (n - 1)
  BY DEF Position
<1>2. x % Capacity = y % Capacity
  BY <1>1, HomeSlot
<1>3. -Capacity < x - y /\ x - y < Capacity
  BY <1>1, Sizes DEF Position
<1>4. x = y
  BY <1>2, <1>3, Sizes, ModApart
<1>. QED
  BY <1>1, <1>4 DEF Position

-----------------------------------------------------------------------------
(* Requests.                                                               *)

\* A request is a caller and a number.
LEMMA RequestPair ==
    /\ \A p \in Caller : \A n \in 1..MaxRequests[p] : <<p, n>> \in Request
    /\ \A r \in Request : r[1] \in Caller /\ r[2] \in 1..MaxRequests[r[1]]
                          /\ r = <<r[1], r[2]>>
BY DEF Request

\* The number of requests of a caller is bounded by a natural number.
LEMMA Bounds == MaxRequests \in [Caller -> Nat] /\ Audio \in Caller
BY ProducerAssumption DEF Caller

\* Fewer requests than positions ever get one.
LEMMA OrderShort ==
    ASSUME FewRequests, order \in Seq(Request), OrderInv
    PROVE  Len(order) \in Nat /\ Len(order) < Modulus
<1>1. PICK L \in Nat : L = Len(order)
  BY LenProperties
<1>2. order \in [1..L -> Request]
  BY <1>1, LenProperties
<1>3. order \in Injection(1..L, Request)
  BY <1>1, <1>2, Fun_IsInj DEF OrderInv
<1>4. Cardinality(1..L) <= Cardinality(Request)
  BY <1>3, FS_Injection DEF FewRequests
<1>5. Cardinality(1..L) = L
  BY FS_Interval
<1>6. Cardinality(Request) \in Nat
  BY FS_CardinalityType DEF FewRequests
<1>. QED
  BY <1>1, <1>4, <1>5, <1>6, Sizes DEF FewRequests

-----------------------------------------------------------------------------
(* Types, numbers and places in the order.                                 *)

\* A position has a successor and a slot.
LEMMA Wraps ==
    /\ \A a \in Position : Plus1(a) \in Position /\ SlotOf(a) \in Slot
    /\ 0 \in Position /\ Start \in Position
BY Sizes, DivMod, StartAssumption DEF Plus1, SlotOf, Position, Slot

\* A fresh queue.
LEMMA CallsInit == Init => TypeOK /\ CallInv /\ OrderInv
<1>. SUFFICES ASSUME Init PROVE TypeOK /\ CallInv /\ OrderInv
  OBVIOUS
<1>1. TypeOK
  BY Wraps, Sizes, Bounds DEF Init, TypeOK, Label, Slot
<1>2. CallInv /\ OrderInv
  BY Sizes, Bounds DEF Init, CallInv, OrderInv, Asking, Storing, Bidding
<1>. QED
  BY <1>1, <1>2

\* What one caller does to the state of the calls.
Elsewhere(p) ==
    \A q \in Caller \ {p} : /\ pc'[q] = pc[q] /\ issued'[q] = issued[q] /\ attempt'[q] = attempt[q]
                            /\ snap_read'[q] = snap_read[q] /\ snap_write'[q] = snap_write[q]

\* The steps of a caller that touch neither slots nor cursors.
Talk(p) ==
    \/ Call(p) \/ Refuse(p) \/ FullRead(p) \/ FullWrite(p) \/ LoseRace(p)
    \/ QueuedOk(p) \/ QueuedError(p) \/ Report(p) \/ QueuedErrorAgain(p) \/ Return(p)

\* They keep the types.
LEMMA TalkTypes ==
    ASSUME TypeOK, CallInv, NEW p \in Caller, Talk(p) \/ ReserveRead(p) \/ ReserveWrite(p)
    PROVE  TypeOK'
<1>. USE Sizes, Wraps DEF TypeOK, Label, queueVars, statusVars, drainVars, Goto
<1>1. CASE Call(p)
  BY <1>1, Bounds DEF Call, FullAt
<1>2. CASE Refuse(p)
  BY <1>2 DEF Refuse
<1>3. CASE FullRead(p)
  BY <1>3 DEF FullRead
<1>4. CASE FullWrite(p)
  BY <1>4 DEF FullWrite
<1>5. CASE LoseRace(p)
  BY <1>5 DEF LoseRace, CallInv, Bidding
<1>6. CASE QueuedOk(p)
  BY <1>6 DEF QueuedOk, SetStatus
<1>7. CASE QueuedError(p)
  BY <1>7 DEF QueuedError, SetStatus
<1>8. CASE Report(p)
  BY <1>8 DEF Report, SetStatus
<1>9. CASE QueuedErrorAgain(p)
  BY <1>9 DEF QueuedErrorAgain, SetStatus
<1>10. CASE Return(p)
  BY <1>10 DEF Return
<1>11. CASE ReserveRead(p)
  BY <1>11 DEF ReserveRead
<1>12. CASE ReserveWrite(p)
  BY <1>12 DEF ReserveWrite
<1>. QED
  BY <1>1, <1>2, <1>3, <1>4, <1>5, <1>6, <1>7, <1>8, <1>9, <1>10, <1>11, <1>12 DEF Talk

\* They keep queue and drain, and the call goes on from where it was.
LEMMA TalkKeeps ==
    ASSUME TypeOK, CallInv, NEW p \in Caller, Talk(p) \/ ReserveRead(p) \/ ReserveWrite(p)
    PROVE  /\ UNCHANGED <<queueVars, drainVars, order>> /\ Elsewhere(p)
           /\ \/ issued'[p] = issued[p] /\ pc[p] # "idle"
              \/ issued'[p] = issued[p] + 1 /\ issued[p] < MaxRequests[p]
           /\ pc'[p] \in Asking => issued'[p] = issued[p] + 1 \/ pc[p] \in Asking
           /\ pc'[p] \in Bidding => attempt'[p] < Capacity
           /\ ~allocated => pc'[p] \notin Asking
           /\ pc'[p] \notin Storing
           /\ Talk(p) => pc'[p] \notin {"reserve_write", "cas"}
<1>. USE Sizes, Bounds DEF TypeOK, CallInv, queueVars, statusVars, drainVars, Goto, Elsewhere,
         Asking, Storing, Bidding
<1>1. CASE Call(p)
  BY <1>1 DEF Call
<1>2. CASE Refuse(p)
  BY <1>2 DEF Refuse
<1>3. CASE FullRead(p)
  BY <1>3 DEF FullRead
<1>4. CASE FullWrite(p)
  BY <1>4 DEF FullWrite
<1>5. CASE LoseRace(p)
  BY <1>5 DEF LoseRace
<1>6. CASE QueuedOk(p)
  BY <1>6 DEF QueuedOk
<1>7. CASE QueuedError(p)
  BY <1>7 DEF QueuedError
<1>8. CASE Report(p)
  BY <1>8 DEF Report
<1>9. CASE QueuedErrorAgain(p)
  BY <1>9 DEF QueuedErrorAgain
<1>10. CASE Return(p)
  BY <1>10 DEF Return
<1>11. CASE ReserveRead(p)
  BY <1>11 DEF ReserveRead, Talk, Call, Refuse, FullRead, FullWrite, LoseRace, QueuedOk,
                QueuedError, Report, QueuedErrorAgain, Return
<1>12. CASE ReserveWrite(p)
  BY <1>12 DEF ReserveWrite, Talk, Call, Refuse, FullRead, FullWrite, LoseRace, QueuedOk,
                QueuedError, Report, QueuedErrorAgain, Return
<1>. QED
  BY <1>1, <1>2, <1>3, <1>4, <1>5, <1>6, <1>7, <1>8, <1>9, <1>10, <1>11, <1>12 DEF Talk

\* They keep the numbers and the order.
LEMMA TalkCalls ==
    ASSUME TypeOK, CallInv, OrderInv, NEW p \in Caller,
           Talk(p) \/ ReserveRead(p) \/ ReserveWrite(p)
    PROVE  TypeOK' /\ CallInv' /\ OrderInv'
<1>1. TypeOK'
  BY TalkTypes
<1>2. /\ UNCHANGED <<queueVars, drainVars, order>> /\ Elsewhere(p)
      /\ \/ issued'[p] = issued[p] /\ pc[p] # "idle"
         \/ issued'[p] = issued[p] + 1 /\ issued[p] < MaxRequests[p]
      /\ pc'[p] \in Asking => issued'[p] = issued[p] + 1 \/ pc[p] \in Asking
      /\ pc'[p] \in Bidding => attempt'[p] < Capacity
      /\ ~allocated => pc'[p] \notin Asking
      /\ pc'[p] \notin Storing
  BY TalkKeeps
<1>3. issued \in [Caller -> Nat] /\ MaxRequests \in [Caller -> Nat]
  BY Bounds DEF TypeOK
<1>4. CallInv'
  <2>1. ASSUME NEW q \in Caller
        PROVE  /\ issued'[q] <= MaxRequests[q]
               /\ pc'[q] # "idle" => issued'[q] > 0
               /\ pc'[q] \in Bidding => attempt'[q] < Capacity
               /\ ~allocated' => pc'[q] \notin Asking \cup Storing
    <3>1. CASE q = p
      BY <1>2, <1>3, <3>1 DEF CallInv, queueVars
    <3>2. CASE q # p
      BY <1>2, <1>3, <3>2 DEF CallInv, queueVars, Elsewhere
    <3>. QED
      BY <3>1, <3>2
  <2>. QED
    BY <1>2, <2>1 DEF CallInv, queueVars, drainVars
<1>5. OrderInv'
  <2>1. ASSUME NEW m \in 1..Len(order)
        PROVE  /\ order[m][2] <= issued'[order[m][1]]
               /\ pc'[order[m][1]] \in Asking => order[m][2] < issued'[order[m][1]]
    <3>0. order[m] \in Request
      BY ElementOfSeq DEF TypeOK
    <3>1. PICK q \in Caller, k \in Nat : q = order[m][1] /\ k = order[m][2]
      <4>1. order[m][1] \in Caller /\ order[m][2] \in 1..MaxRequests[order[m][1]]
        BY <3>0, RequestPair
      <4>2. order[m][2] \in Nat
        BY <1>3, <4>1
      <4>. QED
        BY <4>1, <4>2, Zenon
    <3>2. k <= issued[q] /\ (pc[q] \in Asking => k < issued[q])
      BY <3>1 DEF OrderInv
    <3>3. k <= issued'[q] /\ (pc'[q] \in Asking => k < issued'[q])
      <4>1. CASE q = p
        BY <1>2, <1>3, <3>2, <4>1
      <4>2. CASE q # p
        BY <1>2, <3>2, <4>2 DEF Elsewhere
      <4>. QED
        BY <4>1, <4>2
    <3>. QED
      BY <3>1, <3>3
  <2>. QED
    BY <1>2, <2>1 DEF OrderInv
<1>. QED
  BY <1>1, <1>4, <1>5

\* A reservation gives the request its place.
LEMMA ReserveCalls ==
    ASSUME TypeOK, CallInv, OrderInv, NEW p \in Caller, Reserve(p)
    PROVE  /\ TypeOK' /\ CallInv' /\ OrderInv'
           /\ Payload(p) \in Request /\ order' = Append(order, Payload(p))
           /\ \A m \in 1..Len(order) : order[m] # Payload(p)
<1>1. /\ pc[p] = "cas" /\ order' = Append(order, Payload(p))
      /\ issued' = issued /\ pc' = [pc EXCEPT ![p] = "fill"] /\ attempt' = attempt
      /\ allocated' = allocated /\ c_pc' = c_pc /\ delivered' = delivered
  BY DEF Reserve, Goto, drainVars
<1>2. issued[p] \in 1..MaxRequests[p] /\ allocated /\ issued \in [Caller -> Nat]
  <2>1. issued[p] \in 1..MaxRequests[p] /\ issued \in [Caller -> Nat]
    <3>1. issued[p] <= MaxRequests[p] /\ issued[p] > 0
      BY <1>1 DEF CallInv
    <3>2. issued \in [Caller -> Nat] /\ MaxRequests \in [Caller -> Nat]
      BY Bounds DEF TypeOK
    <3>. QED
      BY <3>1, <3>2
  <2>2. pc[p] \in Asking
    BY <1>1 DEF Asking
  <2>3. allocated
    BY <2>2, Zenon DEF CallInv
  <2>. QED
    BY <2>1, <2>3
<1>3. Payload(p) \in Request
  BY <1>2, RequestPair DEF Payload
<1>4. /\ order' \in Seq(Request) /\ Len(order') = Len(order) + 1
      /\ \A m \in 1..Len(order) : order'[m] = order[m]
      /\ order'[Len(order) + 1] = Payload(p) /\ Len(order) \in Nat
  BY <1>1, <1>3, AppendProperties, LenProperties DEF TypeOK
<1>5. TypeOK'
  <2>1. sawFull' \in [Caller -> BOOLEAN]
    BY DEF Reserve, TypeOK, FullAt
  <2>2. msg_queue_write' \in Position
    BY Wraps DEF Reserve, TypeOK
  <2>. QED
    BY <1>4, <2>1, <2>2 DEF Reserve, TypeOK, Goto, Label, statusVars, drainVars
<1>6. CallInv'
  BY <1>1, <1>2 DEF CallInv, TypeOK, Asking, Storing, Bidding
<1>7. ASSUME NEW m \in 1..Len(order)
      PROVE  /\ order[m][1] \in Caller /\ order[m][2] \in Nat
             /\ order[m][2] <= issued[order[m][1]]
             /\ pc[order[m][1]] \in Asking => order[m][2] < issued[order[m][1]]
  <2>1. order[m] \in Request
    BY ElementOfSeq DEF TypeOK
  <2>2. order[m][1] \in Caller /\ order[m][2] \in 1..MaxRequests[order[m][1]]
    BY <2>1, RequestPair
  <2>. QED
    BY <2>2, Bounds DEF OrderInv
<1>8. ASSUME NEW m \in 1..Len(order) PROVE order[m] # Payload(p)
  <2>1. SUFFICES ASSUME order[m] = Payload(p) PROVE FALSE
    OBVIOUS
  <2>2. order[m][1] = p /\ order[m][2] = issued[p]
    BY <2>1 DEF Payload
  <2>. QED
    BY <1>1, <1>2, <1>7, <2>2 DEF Asking
<1>9. OrderInv'
  <2>1. ASSUME NEW m \in 1..Len(order')
        PROVE  /\ order'[m][2] <= issued'[order'[m][1]]
               /\ pc'[order'[m][1]] \in Asking => order'[m][2] < issued'[order'[m][1]]
    <3>1. CASE m \in 1..Len(order)
      <4>1. PICK q \in Caller, k \in Nat : q = order[m][1] /\ k = order[m][2]
        BY <1>7, <3>1
      <4>2. k <= issued[q] /\ (pc[q] \in Asking => k < issued[q])
        BY <1>7, <3>1, <4>1
      <4>3. pc'[q] \in Asking => pc[q] \in Asking
        BY <1>1 DEF TypeOK, Asking
      <4>. QED
        BY <1>1, <1>4, <3>1, <4>1, <4>2, <4>3
    <3>2. CASE m = Len(order) + 1
      <4>1. order'[m][1] = p /\ order'[m][2] = issued[p]
        BY <1>4, <3>2 DEF Payload
      <4>2. pc'[p] \notin Asking
        BY <1>1 DEF TypeOK, Asking
      <4>. QED
        BY <1>1, <1>2, <4>1, <4>2
    <3>. QED
      BY <1>4, <3>1, <3>2
  <2>2. ASSUME NEW m \in 1..Len(order'), NEW n \in 1..Len(order'), order'[m] = order'[n]
        PROVE  m = n
    BY <1>4, <1>8, <2>2 DEF OrderInv
  <2>. QED
    BY <2>1, <2>2 DEF OrderInv
<1>. QED
  BY <1>1, <1>3, <1>5, <1>6, <1>8, <1>9

\* Storing into a slot.
LEMMA StoreCalls ==
    ASSUME TypeOK, CallInv, OrderInv, NEW p \in Caller, Fill(p) \/ Publish(p)
    PROVE  TypeOK' /\ CallInv' /\ OrderInv'
<1>1. pc[p] \in Storing
  BY DEF Fill, Publish, Storing
<1>2. Payload(p) \in Request
  <2>1. issued[p] \in 1..MaxRequests[p]
    BY <1>1, Bounds DEF TypeOK, CallInv, Storing
  <2>. QED
    BY <2>1, RequestPair DEF Payload
<1>3. TypeOK'
  BY <1>2, Wraps DEF Fill, Publish, TypeOK, Goto, Label, statusVars, drainVars
<1>4. /\ order' = order /\ issued' = issued /\ attempt' = attempt /\ allocated' = allocated
      /\ delivered' = delivered /\ c_pc' = c_pc
      /\ \A q \in Caller : pc'[q] = pc[q] \/ (q = p /\ pc'[q] \in {"publish", "accepted"})
  BY DEF Fill, Publish, Goto, TypeOK, drainVars
<1>5. CallInv'
  BY <1>1, <1>4 DEF CallInv, Asking, Storing, Bidding
<1>6. OrderInv'
  <2>1. ASSUME NEW m \in 1..Len(order)
        PROVE  pc'[order[m][1]] \in Asking => pc[order[m][1]] \in Asking
    <3>1. order[m][1] \in Caller
      BY ElementOfSeq, RequestPair DEF TypeOK
    <3>. QED
      BY <1>4, <3>1 DEF Asking
  <2>. QED
    BY <1>4, <2>1 DEF OrderInv
<1>. QED
  BY <1>3, <1>5, <1>6

\* The drain.
LEMMA DrainCalls ==
    ASSUME TypeOK, CallInv, OrderInv, DrainStep, Dispatch => args[SlotOf(c_read)] \in Request
    PROVE  TypeOK' /\ CallInv' /\ OrderInv'
<1>. USE DEF TypeOK, queueVars, statusVars, callVars
<1>0. Len(order) \in Nat
  BY LenProperties
<1>1. CASE Snapshot
  BY <1>0, <1>1 DEF Snapshot, CallInv, OrderInv
<1>2. CASE DrainEnds
  BY <1>2 DEF DrainEnds, CallInv, OrderInv
<1>3. CASE Dispatch
  <2>1. delivered' \in Seq(Request)
    BY <1>3, AppendProperties DEF Dispatch
  <2>2. allocated
    BY <1>3 DEF Dispatch, CallInv
  <2>. QED
    BY <1>3, <2>1, <2>2 DEF Dispatch, CallInv, OrderInv
<1>4. CASE ClearSlot
  BY <1>4, Wraps DEF ClearSlot, CallInv, OrderInv
<1>5. CASE AdvanceRead
  BY <1>5, Wraps DEF AdvanceRead, CallInv, OrderInv
<1>. QED
  BY <1>1, <1>2, <1>3, <1>4, <1>5 DEF DrainStep

\* Reset and start.
LEMMA ResetCalls ==
    ASSUME TypeOK, CallInv, OrderInv, Reset \/ Allocate
    PROVE  TypeOK' /\ CallInv' /\ OrderInv'
<1>. USE DEF TypeOK, statusVars, callVars, drainVars
<1>1. CASE Reset
  <2>1. TypeOK'
    BY <1>1, Wraps, EmptySeq DEF Reset
  <2>2. Len(order') = 0
    BY <1>1, EmptySeq DEF Reset
  <2>3. CallInv'
    BY <1>1 DEF Reset, CallInv, Asking, Storing, Bidding
  <2>. QED
    BY <2>1, <2>2, <2>3 DEF OrderInv
<1>2. CASE Allocate
  BY <1>2, Wraps DEF Allocate, CallInv, OrderInv, Asking, Storing, Bidding
<1>. QED
  BY <1>1, <1>2

-----------------------------------------------------------------------------
(* The ring.                                                               *)

\* The lengths are numbers.
LEMMA Lengths ==
    ASSUME TypeOK
    PROVE  /\ Len(order) \in Nat /\ Len(delivered) \in Nat
           /\ Busy \in {0, 1} /\ Done \in Int /\ limit \in Nat
BY LenProperties DEF TypeOK, Busy, Done

\* A call that stays away from slots and cursors leaves the ring alone.
LEMMA RingTalk ==
    ASSUME TypeOK, CallInv, NEW b \in Position, Ring(b), NEW p \in Caller, Talk(p)
    PROVE  Ring(b)'
<1>1. /\ UNCHANGED <<queueVars, drainVars, order>> /\ Elsewhere(p)
      /\ pc'[p] \notin Storing /\ pc'[p] \notin {"reserve_write", "cas"}
  BY TalkKeeps
<1>2. Done' = Done /\ Busy' = Busy
  BY <1>1 DEF Done, Busy, drainVars
<1>3. CursorInv(b)'
  BY <1>1, <1>2 DEF Ring, CursorInv, queueVars, drainVars
<1>4. SnapInv(b)'
  BY <1>1, <1>2 DEF Ring, SnapInv, Elsewhere
<1>5. StoreInv(b)'
  <2>1. ASSUME NEW q \in Caller, pc'[q] \in Storing
        PROVE  q # p /\ pc'[q] = pc[q] /\ snap_write'[q] = snap_write[q] /\ Payload(q)' = Payload(q)
    BY <1>1, <2>1 DEF Elsewhere, Payload
  <2>. QED
    BY <1>1, <2>1 DEF Ring, StoreInv, queueVars, drainVars
<1>6. ReadyInv(b)'
  BY <1>1, <1>2 DEF Ring, ReadyInv, queueVars, drainVars
<1>. QED
  BY <1>3, <1>4, <1>5, <1>6 DEF Ring

\* Both cursors are read before the swap: msg_queue_read first ...
LEMMA RingReserveRead ==
    ASSUME TypeOK, CallInv, NEW b \in Position, Ring(b), NEW p \in Caller, ReserveRead(p)
    PROVE  Ring(b)'
<1>1. /\ UNCHANGED <<queueVars, drainVars, order>> /\ Elsewhere(p)
      /\ pc'[p] = "reserve_write" /\ snap_read'[p] = msg_queue_read
  BY TalkKeeps DEF ReserveRead, Goto, TypeOK
<1>2. Done' = Done /\ Busy' = Busy
  BY <1>1 DEF Done, Busy, drainVars
<1>3. CursorInv(b)'
  BY <1>1, <1>2 DEF Ring, CursorInv, queueVars, drainVars
<1>4. SnapInv(b)'
  <2>1. Done \in 0..Done /\ msg_queue_read = Pos(b, Done)
    BY DEF Ring, CursorInv
  <2>. QED
    BY <1>1, <1>2, <2>1 DEF Ring, SnapInv, Elsewhere
<1>5. StoreInv(b)'
  <2>1. ASSUME NEW q \in Caller, pc'[q] \in Storing
        PROVE  q # p /\ pc'[q] = pc[q] /\ snap_write'[q] = snap_write[q] /\ Payload(q)' = Payload(q)
    BY <1>1, <2>1 DEF Elsewhere, Payload, Storing
  <2>. QED
    BY <1>1, <2>1 DEF Ring, StoreInv, queueVars, drainVars
<1>6. ReadyInv(b)'
  BY <1>1, <1>2 DEF Ring, ReadyInv, queueVars, drainVars
<1>. QED
  BY <1>3, <1>4, <1>5, <1>6 DEF Ring

\* ... and msg_queue_write second, so that the room it finds is there.
LEMMA RingReserveWrite ==
    ASSUME FewRequests, TypeOK, CallInv, OrderInv, NEW b \in Position, Ring(b),
           NEW p \in Caller, ReserveWrite(p)
    PROVE  Ring(b)'
<1>1. /\ UNCHANGED <<queueVars, drainVars, order>> /\ Elsewhere(p)
      /\ pc[p] = "reserve_write" /\ pc'[p] \in {"reject", "cas"}
      /\ snap_write'[p] = msg_queue_write
      /\ pc'[p] = "cas" => ~FullAt(msg_queue_write, snap_read[p])
  BY TalkKeeps DEF ReserveWrite, Goto, TypeOK
<1>2. Done' = Done /\ Busy' = Busy
  BY <1>1 DEF Done, Busy, drainVars
<1>3. CursorInv(b)'
  BY <1>1, <1>2 DEF Ring, CursorInv, queueVars, drainVars
<1>4. SnapInv(b)'
  <2>1. ASSUME pc'[p] = "cas"
        PROVE  \E m \in 0..Len(order) : m < Done + Capacity /\ msg_queue_write = Pos(b, m)
    <3>1. PICK L \in Nat : L = Len(order) /\ L < Modulus
      BY OrderShort DEF TypeOK
    <3>2. PICK D \in Nat : D = Done /\ D <= L
      BY <3>1, Lengths DEF Ring, CursorInv, Done
    <3>3. PICK k \in 0..D : snap_read[p] = Pos(b, k)
      BY <1>1, <3>2 DEF Ring, SnapInv
    <3>4. Minus(Pos(b, L), Pos(b, k)) = L - k
      BY <3>1, <3>2, PosMinus
    <3>5. msg_queue_write = Pos(b, L)
      BY <3>1 DEF Ring, CursorInv
    <3>6. L - k < Capacity
      BY <1>1, <2>1, <3>3, <3>4, <3>5, Sizes DEF FullAt
    <3>7. L < D + Capacity
      BY <3>6, Sizes
    <3>. QED
      BY <3>1, <3>2, <3>5, <3>7
  <2>2. ASSUME NEW q \in Caller
        PROVE  /\ pc'[q] = "reserve_write" => \E k \in 0..Done : snap_read'[q] = Pos(b, k)
               /\ pc'[q] = "cas" => \E m \in 0..Len(order) :
                                       m < Done + Capacity /\ snap_write'[q] = Pos(b, m)
    BY <1>1, <2>1 DEF Ring, SnapInv, Elsewhere
  <2>. QED
    BY <1>1, <1>2, <2>2 DEF SnapInv
<1>5. StoreInv(b)'
  <2>1. ASSUME NEW q \in Caller, pc'[q] \in Storing
        PROVE  q # p /\ pc'[q] = pc[q] /\ snap_write'[q] = snap_write[q] /\ Payload(q)' = Payload(q)
    BY <1>1, <2>1 DEF Elsewhere, Payload, Storing
  <2>. QED
    BY <1>1, <2>1 DEF Ring, StoreInv, queueVars, drainVars
<1>6. ReadyInv(b)'
  BY <1>1, <1>2 DEF Ring, ReadyInv, queueVars, drainVars
<1>. QED
  BY <1>3, <1>4, <1>5, <1>6 DEF Ring

\* A swap that succeeds finds the position it read, not one that came round,
\* and there is still room behind it.
LEMMA RingRoom ==
    ASSUME FewRequests, TypeOK, OrderInv, NEW b \in Position, Ring(b), NEW p \in Caller,
           pc[p] = "cas", msg_queue_write = snap_write[p]
    PROVE  Len(order) < Done + Capacity
<1>1. PICK L \in Nat : L = Len(order) /\ L < Modulus
  BY OrderShort DEF TypeOK
<1>2. PICK m \in 0..L : m < Done + Capacity /\ snap_write[p] = Pos(b, m)
  BY <1>1 DEF Ring, SnapInv
<1>3. Pos(b, L) = Pos(b, m)
  BY <1>1, <1>2 DEF Ring, CursorInv
<1>4. m = L
  <2>1. m \in Nat /\ m < Modulus
    BY <1>1, Sizes
  <2>. QED
    BY <1>1, <1>3, <2>1, PosApart
<1>. QED
  BY <1>1, <1>2, <1>4

\* The position after the last one is reserved.
LEMMA RingReserve ==
    ASSUME FewRequests, TypeOK, CallInv, OrderInv, NEW b \in Position, Ring(b),
           NEW p \in Caller, Reserve(p)
    PROVE  Ring(b)'
<1>1. /\ pc[p] = "cas" /\ msg_queue_write = snap_write[p]
      /\ msg_queue_write' = Plus1(msg_queue_write)
      /\ UNCHANGED <<args, ready, msg_queue_read, drainVars, snap_read, snap_write, issued>>
      /\ pc' = [pc EXCEPT ![p] = "fill"] /\ pc \in [Caller -> Label]
  BY DEF Reserve, Goto, TypeOK
<1>2. Payload(p) \in Request /\ order' = Append(order, Payload(p))
  BY ReserveCalls
<1>3. PICK L \in Nat : L = Len(order)
  BY Lengths
<1>4. /\ Len(order') = L + 1 /\ order'[L + 1] = Payload(p)
      /\ \A m \in 1..L : order'[m] = order[m]
  BY <1>2, <1>3, AppendProperties DEF TypeOK
<1>5. PICK D \in Nat, V \in Nat : D = Done /\ V = Len(delivered) /\ V <= L /\ D <= V
  BY <1>3, Lengths DEF Ring, CursorInv, Done
<1>6. L < D + Capacity
  BY <1>1, <1>3, <1>5, RingRoom
<1>7. Done' = D /\ Busy' = Busy /\ Len(delivered') = V
  BY <1>1, <1>5 DEF Done, Busy, drainVars
<1>8. CursorInv(b)'
  <2>1. msg_queue_write' = Pos(b, L + 1)
    <3>1. msg_queue_write = Pos(b, L)
      BY <1>3 DEF Ring, CursorInv
    <3>2. Plus1(Pos(b, L)) = Pos(b, L + 1)
      BY PosNext
    <3>. QED
      BY <1>1, <3>1, <3>2
  <2>2. (L + 1) - D <= Capacity
    BY <1>6, Sizes
  <2>. QED
    BY <1>1, <1>3, <1>4, <1>5, <1>7, <2>1, <2>2, Lengths DEF Ring, CursorInv, drainVars
<1>9. SnapInv(b)'
  <2>1. ASSUME NEW q \in Caller, pc'[q] \in {"reserve_write", "cas"} PROVE pc'[q] = pc[q]
    BY <1>1, <2>1
  <2>. QED
    BY <1>1, <1>3, <1>4, <1>5, <1>7, <2>1 DEF Ring, SnapInv
<1>10. ~ready[Home(b, L + 1)]
  <2>1. SUFFICES ASSUME ready[Home(b, L + 1)] PROVE FALSE
    OBVIOUS
  <2>2. PICK m \in (D + 1)..L : Home(b, L + 1) = Home(b, m)
    <3>1. PICK h \in Slot : h = Home(b, L + 1)
      BY HomeSlot
    <3>. QED
      BY <1>3, <1>5, <2>1, <3>1 DEF Ring, ReadyInv
  <2>3. (L + 1) - m < Capacity /\ m - (L + 1) < Capacity
    BY <1>6, Sizes
  <2>4. m = L + 1
    BY <2>2, <2>3, HomeApart
  <2>. QED
    BY <2>4
<1>11. StoreInv(b)'
  <2>1. ASSUME NEW q \in Caller, pc'[q] \in Storing
        PROVE  \E m \in (V + 1)..(L + 1) :
                  /\ order'[m] = Payload(q) /\ snap_write[q] = Pos(b, m - 1)
                  /\ ~ready[Home(b, m)]
                  /\ pc'[q] = "publish" => args[Home(b, m)] = Payload(q)
    <3>1. CASE q = p
      <4>1. snap_write[p] = Pos(b, (L + 1) - 1)
        <5>1. snap_write[p] = Pos(b, L)
          BY <1>1, <1>3 DEF Ring, CursorInv
        <5>2. L = (L + 1) - 1
          OBVIOUS
        <5>. QED
          BY <5>1, <5>2
      <4>2. pc'[p] # "publish"
        BY <1>1
      <4>3. L + 1 \in (V + 1)..(L + 1)
        BY <1>5
      <4>. QED
        BY <1>4, <1>10, <3>1, <4>1, <4>2, <4>3
    <3>2. CASE q # p
      <4>1. pc'[q] = pc[q]
        BY <1>1, <3>2
      <4>2. PICK m \in (V + 1)..L :
                  /\ order[m] = Payload(q) /\ snap_write[q] = Pos(b, m - 1)
                  /\ ~ready[Home(b, m)]
                  /\ pc[q] = "publish" => args[Home(b, m)] = Payload(q)
        BY <1>3, <1>5, <2>1, <4>1 DEF Ring, StoreInv
      <4>3. m \in (V + 1)..(L + 1) /\ order'[m] = order[m]
        BY <1>4, <1>5
      <4>. QED
        BY <4>1, <4>2, <4>3
    <3>. QED
      BY <3>1, <3>2
  <2>2. ASSUME NEW q \in Caller PROVE Payload(q)' = Payload(q)
    BY <1>1 DEF Payload
  <2>. QED
    BY <1>1, <1>4, <1>7, <2>1, <2>2 DEF StoreInv
<1>12. ReadyInv(b)'
  <2>1. ASSUME NEW s \in Slot, ready[s]
        PROVE  \E m \in (D + 1)..(L + 1) :
                  s = Home(b, m) /\ args[s] = order'[m] /\ (c_pc = "advance" => m # D + 1)
    <3>1. PICK m \in (D + 1)..L :
              s = Home(b, m) /\ args[s] = order[m] /\ (c_pc = "advance" => m # D + 1)
      BY <1>3, <1>5, <2>1 DEF Ring, ReadyInv
    <3>2. m \in (D + 1)..(L + 1) /\ order'[m] = order[m]
      BY <1>4
    <3>. QED
      BY <3>1, <3>2
  <2>. QED
    BY <1>1, <1>4, <1>7, <2>1 DEF ReadyInv, drainVars
<1>. QED
  BY <1>8, <1>9, <1>11, <1>12 DEF Ring

\* Two callers that store, and a caller and the consumer, are in different slots:
\* what the slots are, in terms of the order.
LEMMA StoresApart ==
    ASSUME TypeOK, OrderInv, NEW b \in Position, Ring(b),
           NEW m \in (Done + 1)..Len(order), NEW n \in (Done + 1)..Len(order),
           Home(b, m) = Home(b, n)
    PROVE  m = n
<1>1. PICK L \in Nat, D \in Nat : L = Len(order) /\ D = Done /\ L - D <= Capacity
  BY Lengths DEF Ring, CursorInv
<1>2. m - n < Capacity /\ n - m < Capacity
  BY <1>1, Sizes
<1>3. m \in Int /\ n \in Int
  BY <1>1
<1>. QED
  BY <1>2, <1>3, HomeApart

\* Filling and publishing happen in the caller's own slot.
LEMMA RingStore ==
    ASSUME TypeOK, CallInv, OrderInv, NEW b \in Position, Ring(b), NEW p \in Caller,
           Fill(p) \/ Publish(p)
    PROVE  Ring(b)'
<1>1. /\ UNCHANGED <<msg_queue_read, msg_queue_write, drainVars, snap_read, snap_write, issued, order>>
      /\ \A q \in Caller \ {p} : pc'[q] = pc[q]
      /\ pc[p] \in Storing /\ pc'[p] \in {"publish", "accepted"}
      /\ pc'[p] = "publish" => Fill(p)
  BY DEF Fill, Publish, Goto, TypeOK, Storing
<1>2. PICK L \in Nat, D \in Nat, V \in Nat :
          /\ L = Len(order) /\ D = Done /\ V = Len(delivered) /\ D <= V /\ V <= L
          /\ L - D <= Capacity
  BY Lengths DEF Ring, CursorInv, Done
<1>3. PICK m \in (V + 1)..L :
          /\ order[m] = Payload(p) /\ snap_write[p] = Pos(b, m - 1)
          /\ ~ready[Home(b, m)]
          /\ pc[p] = "publish" => args[Home(b, m)] = Payload(p)
  BY <1>1, <1>2 DEF Ring, StoreInv
<1>4. PICK h \in Slot : h = Home(b, m) /\ SlotOf(snap_write[p]) = h
  BY <1>2, <1>3, HomeSlot DEF Home
<1>5. Done' = D /\ Busy' = Busy /\ Len(delivered') = V /\ Len(order') = L
  BY <1>1, <1>2 DEF Done, Busy, drainVars
<1>6. \A s \in Slot \ {h} : args'[s] = args[s] /\ ready'[s] = ready[s]
  BY <1>4 DEF Fill, Publish, TypeOK
<1>7. ASSUME NEW q \in Caller PROVE Payload(q)' = Payload(q)
  BY <1>1 DEF Payload
<1>8. CursorInv(b)'
  BY <1>1, <1>2, <1>5 DEF Ring, CursorInv, drainVars
<1>9. SnapInv(b)'
  <2>1. ASSUME NEW q \in Caller, pc'[q] \in {"reserve_write", "cas"} PROVE pc'[q] = pc[q]
    BY <1>1, <2>1
  <2>. QED
    BY <1>1, <1>2, <1>5, <2>1 DEF Ring, SnapInv
<1>10. StoreInv(b)'
  <2>1. ASSUME NEW q \in Caller, pc'[q] \in Storing
        PROVE  \E n \in (V + 1)..L :
                  /\ order[n] = Payload(q) /\ snap_write[q] = Pos(b, n - 1)
                  /\ ~ready'[Home(b, n)]
                  /\ pc'[q] = "publish" => args'[Home(b, n)] = Payload(q)
    <3>1. CASE q = p
      <4>1. Fill(p)
        BY <1>1, <2>1, <3>1 DEF Storing
      <4>2. ready'[h] = ready[h] /\ args'[h] = Payload(p)
        BY <1>4, <4>1 DEF Fill, TypeOK
      <4>. QED
        BY <1>3, <1>4, <3>1, <4>2
    <3>2. CASE q # p
      <4>1. pc'[q] = pc[q]
        BY <1>1, <3>2
      <4>2. PICK n \in (V + 1)..L :
                  /\ order[n] = Payload(q) /\ snap_write[q] = Pos(b, n - 1)
                  /\ ~ready[Home(b, n)]
                  /\ pc[q] = "publish" => args[Home(b, n)] = Payload(q)
        BY <1>2, <2>1, <4>1 DEF Ring, StoreInv
      <4>3. n # m
        BY <1>3, <3>2, <4>2 DEF Payload
      <4>4. Home(b, n) # h
        <5>1. m \in (Done + 1)..Len(order) /\ n \in (Done + 1)..Len(order)
          BY <1>2
        <5>. QED
          BY <1>4, <4>3, <5>1, StoresApart
      <4>5. Home(b, n) \in Slot
        BY <1>2, HomeSlot
      <4>. QED
        BY <1>6, <4>1, <4>2, <4>4, <4>5
    <3>. QED
      BY <3>1, <3>2
  <2>. QED
    BY <1>1, <1>5, <1>7, <2>1 DEF StoreInv
<1>11. ReadyInv(b)'
  <2>1. ASSUME NEW s \in Slot, ready'[s]
        PROVE  \E n \in (D + 1)..L :
                  s = Home(b, n) /\ args'[s] = order[n] /\ (c_pc = "advance" => n # D + 1)
    <3>1. CASE s = h
      <4>1. pc[p] = "publish" /\ args' = args
        BY <1>3, <1>4, <2>1, <3>1 DEF Fill, Publish
      <4>2. m \in (D + 1)..L
        BY <1>2
      <4>3. c_pc = "advance" => D + 1 = V
        BY <1>2, Lengths DEF Done, Busy
      <4>4. c_pc = "advance" => m # D + 1
        BY <1>2, <4>3
      <4>. QED
        BY <1>3, <1>4, <3>1, <4>1, <4>2, <4>4
    <3>2. CASE s # h
      BY <1>2, <1>6, <2>1, <3>2 DEF Ring, ReadyInv
    <3>. QED
      BY <3>1, <3>2
  <2>. QED
    BY <1>1, <1>5, <2>1 DEF ReadyInv, drainVars
<1>. QED
  BY <1>8, <1>9, <1>10, <1>11 DEF Ring

\* The head of the drain, when it is ready, holds the oldest request that has
\* not been run.
LEMMA HeadIsOldest ==
    ASSUME TypeOK, OrderInv, NEW b \in Position, Ring(b), c_pc = "check", ready[SlotOf(c_read)]
    PROVE  /\ Len(delivered) + 1 <= Len(order)
           /\ SlotOf(c_read) = Home(b, Len(delivered) + 1)
           /\ args[SlotOf(c_read)] = order[Len(delivered) + 1]
<1>1. PICK L \in Nat, D \in Nat :
          /\ L = Len(order) /\ D = Done /\ D = Len(delivered) /\ D <= L /\ L - D <= Capacity
  BY Lengths DEF Ring, CursorInv, Done, Busy
<1>2. SlotOf(c_read) = Home(b, D + 1)
  <2>1. c_read = Pos(b, D)
    BY <1>1 DEF Ring, CursorInv
  <2>2. D = (D + 1) - 1
    OBVIOUS
  <2>. QED
    BY <2>1, <2>2 DEF Home
<1>3. PICK h \in Slot : h = Home(b, D + 1)
  BY HomeSlot
<1>4. PICK m \in (D + 1)..L : h = Home(b, m) /\ args[h] = order[m]
  BY <1>1, <1>2, <1>3 DEF Ring, ReadyInv
<1>5. m - (D + 1) < Capacity /\ (D + 1) - m < Capacity
  BY <1>1, Sizes
<1>6. m = D + 1
  <2>1. m \in Int /\ D + 1 \in Int
    OBVIOUS
  <2>. QED
    BY <1>3, <1>4, <1>5, <2>1, HomeApart
<1>. QED
  BY <1>1, <1>2, <1>3, <1>4, <1>6

\* A drain begins at the reader's position and ends at the writers' of the time.
LEMMA RingSnapshot ==
    ASSUME TypeOK, NEW b \in Position, Ring(b), Snapshot \/ DrainEnds
    PROVE  Ring(b)'
<1>1. /\ UNCHANGED <<queueVars, callVars, delivered, order>>
      /\ c_pc \in {"idle", "check"} /\ c_pc' \in {"idle", "check"}
  BY DEF Snapshot, DrainEnds
<1>2. Busy' = Busy /\ Done' = Done
  BY <1>1 DEF Busy, Done
<1>3. CursorInv(b)'
  BY <1>1, <1>2, Lengths DEF Ring, CursorInv, Snapshot, DrainEnds, queueVars
<1>4. SnapInv(b)' /\ StoreInv(b)'
  <2>1. ASSUME NEW q \in Caller PROVE Payload(q)' = Payload(q)
    BY <1>1 DEF Payload, callVars
  <2>. QED
    BY <1>1, <1>2, <2>1 DEF Ring, SnapInv, StoreInv, queueVars, callVars
<1>5. ReadyInv(b)'
  BY <1>1, <1>2 DEF Ring, ReadyInv, queueVars
<1>. QED
  BY <1>3, <1>4, <1>5 DEF Ring

\* A request that is run keeps its slot.
LEMMA RingDispatch ==
    ASSUME FewRequests, TypeOK, OrderInv, NEW b \in Position, Ring(b), Dispatch
    PROVE  /\ Ring(b)' /\ args[SlotOf(c_read)] \in Request
           /\ delivered' = Append(delivered, order[Len(delivered) + 1])
<1>1. /\ UNCHANGED <<queueVars, callVars, c_read, c_end, limit, order>>
      /\ c_pc = "check" /\ c_pc' = "dispatch" /\ c_read # c_end /\ ready[SlotOf(c_read)]
      /\ delivered' = Append(delivered, args[SlotOf(c_read)])
  BY DEF Dispatch
<1>2. PICK L \in Nat, D \in Nat :
          /\ L = Len(order) /\ D = Done /\ D = Len(delivered) /\ D <= L /\ L - D <= Capacity
  BY <1>1, Lengths DEF Ring, CursorInv, Done, Busy
<1>3. /\ D + 1 <= L /\ SlotOf(c_read) = Home(b, D + 1)
      /\ args[SlotOf(c_read)] = order[D + 1]
  BY <1>1, <1>2, HeadIsOldest
<1>4. order[D + 1] \in Request
  BY <1>2, <1>3, ElementOfSeq DEF TypeOK
<1>5. Len(delivered') = D + 1
  BY <1>1, <1>2, <1>3, <1>4, AppendProperties DEF TypeOK
<1>6. Busy' = 1 /\ Done' = D
  BY <1>1, <1>2, <1>5 DEF Busy, Done
<1>7. CursorInv(b)'
  <2>1. D < limit
    <3>1. PICK l \in Nat : l = limit /\ D <= l /\ l <= L /\ c_end = Pos(b, l)
      BY <1>1, <1>2, Lengths DEF Ring, CursorInv
    <3>2. c_read = Pos(b, D)
      BY <1>1, <1>2 DEF Ring, CursorInv
    <3>3. D # l
      BY <1>1, <3>1, <3>2
    <3>. QED
      BY <3>1, <3>3
  <2>. QED
    BY <1>1, <1>2, <1>3, <1>5, <1>6, <2>1, Lengths DEF Ring, CursorInv, queueVars
<1>8. SnapInv(b)'
  BY <1>1, <1>2, <1>6 DEF Ring, SnapInv, callVars
<1>9. StoreInv(b)'
  <2>1. ASSUME NEW q \in Caller, pc[q] \in Storing
        PROVE  \E n \in (D + 2)..L :
                  /\ order[n] = Payload(q) /\ snap_write[q] = Pos(b, n - 1)
                  /\ ~ready[Home(b, n)]
                  /\ pc[q] = "publish" => args[Home(b, n)] = Payload(q)
    <3>1. PICK n \in (D + 1)..L :
                  /\ order[n] = Payload(q) /\ snap_write[q] = Pos(b, n - 1)
                  /\ ~ready[Home(b, n)]
                  /\ pc[q] = "publish" => args[Home(b, n)] = Payload(q)
      BY <1>2, <2>1 DEF Ring, StoreInv
    <3>2. n # D + 1
      BY <1>1, <1>3, <3>1
    <3>3. n \in (D + 2)..L
      BY <3>2
    <3>. QED
      BY <3>1, <3>3
  <2>2. ASSUME NEW q \in Caller PROVE Payload(q)' = Payload(q)
    BY <1>1 DEF Payload, callVars
  <2>3. Len(delivered') + 1 = D + 2 /\ Len(order') = L
    BY <1>1, <1>2, <1>5
  <2>. QED
    BY <1>1, <2>1, <2>2, <2>3 DEF StoreInv, queueVars, callVars
<1>10. ReadyInv(b)'
  BY <1>1, <1>2, <1>6 DEF Ring, ReadyInv, queueVars
<1>. QED
  BY <1>1, <1>2, <1>3, <1>4, <1>7, <1>8, <1>9, <1>10 DEF Ring

\* The slot is cleared before it is given back.
LEMMA RingClear ==
    ASSUME TypeOK, OrderInv, NEW b \in Position, Ring(b), ClearSlot
    PROVE  Ring(b)'
<1>1. /\ UNCHANGED <<args, msg_queue_write, msg_queue_read, callVars, c_read, c_end, delivered,
                     limit, order>>
      /\ c_pc = "dispatch" /\ c_pc' = "advance"
      /\ ready' = [ready EXCEPT ![SlotOf(c_read)] = FALSE]
  BY DEF ClearSlot
<1>2. PICK L \in Nat, D \in Nat :
          /\ L = Len(order) /\ D = Done /\ D + 1 = Len(delivered) /\ D + 1 <= L
          /\ L - D <= Capacity
  <2>1. Busy = 1 /\ Done = Len(delivered) - 1
    BY <1>1 DEF Busy, Done
  <2>2. Done \in Nat /\ Len(order) \in Nat /\ Len(delivered) \in Nat
        /\ Len(delivered) <= Len(order) /\ Len(order) - Done <= Capacity
    BY Lengths DEF Ring, CursorInv
  <2>. QED
    BY <2>1, <2>2
<1>3. Busy' = Busy /\ Done' = D
  BY <1>1, <1>2 DEF Busy, Done
<1>4. PICK h \in Slot : h = SlotOf(c_read) /\ h = Home(b, D + 1)
  <2>1. c_read = Pos(b, D)
    BY <1>1, <1>2 DEF Ring, CursorInv
  <2>2. D = (D + 1) - 1
    OBVIOUS
  <2>3. Home(b, D + 1) = SlotOf(c_read)
    BY <2>1, <2>2 DEF Home
  <2>4. Home(b, D + 1) \in Slot
    BY HomeSlot
  <2>. QED
    BY <2>3, <2>4
<1>5. ready'[h] = FALSE /\ \A s \in Slot \ {h} : ready'[s] = ready[s]
  BY <1>1, <1>4 DEF TypeOK
<1>6. CursorInv(b)'
  BY <1>1, <1>2, <1>3 DEF Ring, CursorInv
<1>7. SnapInv(b)'
  BY <1>1, <1>2, <1>3 DEF Ring, SnapInv, callVars
<1>8. StoreInv(b)'
  <2>1. ASSUME NEW n \in (Len(delivered) + 1)..Len(order), ~ready[Home(b, n)]
        PROVE  ~ready'[Home(b, n)]
    <3>1. Home(b, n) \in Slot
      BY <1>2, HomeSlot
    <3>. QED
      BY <1>5, <2>1, <3>1
  <2>2. ASSUME NEW q \in Caller PROVE Payload(q)' = Payload(q)
    BY <1>1 DEF Payload, callVars
  <2>. QED
    BY <1>1, <2>1, <2>2 DEF Ring, StoreInv, callVars
<1>9. ReadyInv(b)'
  <2>1. ASSUME NEW s \in Slot, ready'[s]
        PROVE  \E n \in (D + 1)..L : s = Home(b, n) /\ args[s] = order[n] /\ n # D + 1
    <3>1. s # h /\ ready[s]
      BY <1>5, <2>1
    <3>2. PICK n \in (D + 1)..L : s = Home(b, n) /\ args[s] = order[n]
      BY <1>2, <3>1 DEF Ring, ReadyInv
    <3>3. n # D + 1
      BY <1>4, <3>1, <3>2
    <3>. QED
      BY <3>2, <3>3
  <2>. QED
    BY <1>1, <1>2, <1>3, <2>1 DEF ReadyInv
<1>. QED
  BY <1>6, <1>7, <1>8, <1>9 DEF Ring

\* Giving the slot back moves the reader's position by one.
LEMMA RingAdvance ==
    ASSUME TypeOK, OrderInv, NEW b \in Position, Ring(b), AdvanceRead
    PROVE  Ring(b)'
<1>1. /\ UNCHANGED <<args, ready, msg_queue_write, callVars, c_end, delivered, limit, order>>
      /\ c_pc = "advance" /\ c_pc' = "check"
      /\ c_read' = Plus1(c_read) /\ msg_queue_read' = Plus1(c_read)
  BY DEF AdvanceRead
<1>2. PICK L \in Nat, D \in Nat :
          /\ L = Len(order) /\ D = Done /\ D + 1 = Len(delivered) /\ D + 1 <= L
          /\ L - D <= Capacity
  <2>1. Busy = 1 /\ Done = Len(delivered) - 1
    BY <1>1 DEF Busy, Done
  <2>2. Done \in Nat /\ Len(order) \in Nat /\ Len(delivered) \in Nat
        /\ Len(delivered) <= Len(order) /\ Len(order) - Done <= Capacity
    BY Lengths DEF Ring, CursorInv
  <2>. QED
    BY <2>1, <2>2
<1>3. Busy' = 0 /\ Done' = D + 1
  BY <1>1, <1>2 DEF Busy, Done
<1>4. Plus1(c_read) = Pos(b, D + 1)
  <2>1. c_read = Pos(b, D)
    BY <1>1, <1>2 DEF Ring, CursorInv
  <2>2. Plus1(Pos(b, D)) = Pos(b, D + 1)
    BY PosNext
  <2>. QED
    BY <2>1, <2>2
<1>5. CursorInv(b)'
  <2>1. L - (D + 1) <= Capacity
    BY <1>2, Sizes
  <2>. QED
    BY <1>1, <1>2, <1>3, <1>4, <2>1 DEF Ring, CursorInv
<1>6. SnapInv(b)'
  <2>1. ASSUME NEW q \in Caller, pc[q] = "reserve_write"
        PROVE  \E k \in 0..(D + 1) : snap_read[q] = Pos(b, k)
    <3>1. PICK k \in 0..D : snap_read[q] = Pos(b, k)
      BY <1>2, <2>1 DEF Ring, SnapInv
    <3>. QED
      BY <3>1
  <2>2. ASSUME NEW q \in Caller, pc[q] = "cas"
        PROVE  \E m \in 0..L : m < (D + 1) + Capacity /\ snap_write[q] = Pos(b, m)
    <3>1. PICK m \in 0..L : m < D + Capacity /\ snap_write[q] = Pos(b, m)
      BY <1>2, <2>2 DEF Ring, SnapInv
    <3>2. m < (D + 1) + Capacity
      BY <3>1, Sizes
    <3>. QED
      BY <3>1, <3>2
  <2>. QED
    BY <1>1, <1>2, <1>3, <2>1, <2>2 DEF SnapInv, callVars
<1>7. StoreInv(b)'
  <2>2. ASSUME NEW q \in Caller PROVE Payload(q)' = Payload(q)
    BY <1>1 DEF Payload, callVars
  <2>. QED
    BY <1>1, <2>2 DEF Ring, StoreInv, callVars
<1>8. ReadyInv(b)'
  <2>1. ASSUME NEW s \in Slot, ready[s]
        PROVE  \E n \in ((D + 1) + 1)..L : s = Home(b, n) /\ args[s] = order[n]
    <3>1. PICK n \in (D + 1)..L : s = Home(b, n) /\ args[s] = order[n] /\ n # D + 1
      BY <1>1, <1>2, <2>1 DEF Ring, ReadyInv
    <3>2. n \in ((D + 1) + 1)..L
      BY <3>1
    <3>. QED
      BY <3>1, <3>2
  <2>. QED
    BY <1>1, <1>2, <1>3, <2>1 DEF ReadyInv
<1>. QED
  BY <1>5, <1>6, <1>7, <1>8 DEF Ring

\* After csoundReset, and after csoundStart, the count begins at 0.
LEMMA RingReset ==
    ASSUME TypeOK, CallInv, NEW b \in Position, Ring(b), Reset \/ Allocate
    PROVE  Ring(0)'
<1>1. /\ order' = <<>> /\ delivered' = <<>> /\ c_pc' = "idle"
      /\ msg_queue_write' = 0 /\ msg_queue_read' = 0
      /\ \A p \in Caller : pc'[p] = "idle"
  BY DEF Reset, Allocate, CallInv, callVars, drainVars
<1>2. Len(order') = 0 /\ Len(delivered') = 0
  BY <1>1
<1>3. Busy' = 0 /\ Done' = 0
  BY <1>1, <1>2 DEF Busy, Done
<1>4. \A s \in Slot : ~ready'[s]
  <2>1. CASE Reset
    BY <2>1 DEF Reset
  <2>2. CASE Allocate
    <3>1. Len(order) = 0 /\ Done = 0 /\ ready' = ready
      BY <2>2 DEF Allocate, CallInv, Done, Busy
    <3>2. ASSUME NEW s \in Slot, ready[s] PROVE FALSE
      <4>1. \E m \in 1..0 : s = Home(b, m)
        BY <3>1, <3>2 DEF Ring, ReadyInv
      <4>. QED
        BY <4>1
    <3>. QED
      BY <3>1, <3>2
  <2>. QED
    BY <2>1, <2>2
<1>5. CursorInv(0)'
  <2>1. Pos(0, 0) = 0
    BY PosZero, Wraps
  <2>. QED
    BY <1>1, <1>2, <1>3, <2>1, Sizes DEF CursorInv
<1>6. SnapInv(0)' /\ StoreInv(0)'
  BY <1>1 DEF SnapInv, StoreInv, Storing
<1>7. ReadyInv(0)'
  BY <1>4 DEF ReadyInv
<1>. QED
  BY <1>5, <1>6, <1>7 DEF Ring

\* The queue that csoundStart allocated.
LEMMA RingInit == Init => Ring(Start)
<1>. SUFFICES ASSUME Init PROVE Ring(Start)
  OBVIOUS
<1>1. Len(order) = 0 /\ Len(delivered) = 0 /\ Busy = 0 /\ Done = 0
  BY DEF Init, Busy, Done
<1>2. CursorInv(Start)
  <2>1. Pos(Start, 0) = Start
    BY PosZero, Wraps
  <2>. QED
    BY <1>1, <2>1, Sizes DEF CursorInv, Init
<1>3. SnapInv(Start) /\ StoreInv(Start) /\ ReadyInv(Start)
  BY DEF Init, SnapInv, StoreInv, ReadyInv, Storing
<1>. QED
  BY <1>2, <1>3 DEF Ring

\* A step in which nothing happens.
LEMMA RingStutter ==
    ASSUME TypeOK, CallInv, OrderInv, NEW b \in Position, Ring(b), UNCHANGED vars
    PROVE  TypeOK' /\ CallInv' /\ OrderInv' /\ Ring(b)'
<1>. USE DEF vars, queueVars, statusVars, callVars, drainVars
<1>1. TypeOK' /\ CallInv' /\ OrderInv'
  BY DEF TypeOK, CallInv, OrderInv
<1>2. Busy' = Busy /\ Done' = Done /\ \A q \in Caller : Payload(q)' = Payload(q)
  BY DEF Busy, Done, Payload
<1>3. Ring(b)'
  BY <1>2 DEF Ring, CursorInv, SnapInv, StoreInv, ReadyInv
<1>. QED
  BY <1>1, <1>3

\* Every step keeps the invariant; only a reset moves the base of the count.
LEMMA NextRing ==
    ASSUME FewRequests, TypeOK, CallInv, OrderInv, NEW b \in Position, Ring(b), [Next]_vars
    PROVE  /\ TypeOK' /\ CallInv' /\ OrderInv'
           /\ Ring(b)' \/ ((Reset \/ Allocate) /\ Ring(0)')
<1>1. ASSUME NEW p \in Caller, Talk(p) PROVE TypeOK' /\ CallInv' /\ OrderInv' /\ Ring(b)'
  BY <1>1, TalkCalls, RingTalk
<1>2. ASSUME NEW p \in Caller, ReserveRead(p) PROVE TypeOK' /\ CallInv' /\ OrderInv' /\ Ring(b)'
  BY <1>2, TalkCalls, RingReserveRead
<1>3. ASSUME NEW p \in Caller, ReserveWrite(p) PROVE TypeOK' /\ CallInv' /\ OrderInv' /\ Ring(b)'
  BY <1>3, TalkCalls, RingReserveWrite
<1>4. ASSUME NEW p \in Caller, Reserve(p) PROVE TypeOK' /\ CallInv' /\ OrderInv' /\ Ring(b)'
  BY <1>4, ReserveCalls, RingReserve
<1>5. ASSUME NEW p \in Caller, Fill(p) \/ Publish(p)
      PROVE  TypeOK' /\ CallInv' /\ OrderInv' /\ Ring(b)'
  BY <1>5, StoreCalls, RingStore
<1>6. ASSUME DrainStep PROVE TypeOK' /\ CallInv' /\ OrderInv' /\ Ring(b)'
  <2>1. Dispatch => args[SlotOf(c_read)] \in Request
    BY RingDispatch
  <2>2. TypeOK' /\ CallInv' /\ OrderInv'
    BY <1>6, <2>1, DrainCalls
  <2>3. Ring(b)'
    BY <1>6, RingSnapshot, RingDispatch, RingClear, RingAdvance DEF DrainStep
  <2>. QED
    BY <2>2, <2>3
<1>7. ASSUME Reset \/ Allocate PROVE TypeOK' /\ CallInv' /\ OrderInv' /\ Ring(0)'
  BY <1>7, ResetCalls, RingReset
<1>8. ASSUME UNCHANGED vars PROVE TypeOK' /\ CallInv' /\ OrderInv' /\ Ring(b)'
  BY <1>8, RingStutter
<1>. QED
  BY <1>1, <1>2, <1>3, <1>4, <1>5, <1>6, <1>7, <1>8 DEF Next, CallerStep, Talk

\* The invariant holds, for every capacity, start, number of callers and calls.
THEOREM Invariance == ASSUME FewRequests PROVE Spec => []IInv
<1>1. Init => IInv
  BY CallsInit, RingInit, Wraps DEF IInv
<1>2. IInv /\ [Next]_vars => IInv'
  BY NextRing, Wraps DEF IInv
<1>. QED
  BY <1>1, <1>2, PTL DEF Spec

\* For every capacity and wrap of the positions, while a producer stores into a
\* slot nobody else is in it: no other producer, and not the consumer.
THEOREM SlotsOwned == ASSUME FewRequests PROVE Spec => []OneOwnerPerSlot
<1>1. ASSUME IInv PROVE OneOwnerPerSlot
  <2>1. PICK b \in Position : Ring(b)
    BY <1>1 DEF IInv
  <2>2. PICK L \in Nat, D \in Nat, V \in Nat :
            /\ L = Len(order) /\ D = Done /\ V = Len(delivered) /\ D <= V /\ V <= L
            /\ L - D <= Capacity
    BY <1>1, <2>1, Lengths DEF IInv, Ring, CursorInv, Done
  <2>3. ASSUME NEW p \in Caller, pc[p] \in Storing
        PROVE  \E m \in (V + 1)..L : /\ order[m] = Payload(p) /\ ~ready[Home(b, m)]
                                     /\ SlotOf(snap_write[p]) = Home(b, m)
    BY <2>1, <2>2, <2>3 DEF Ring, StoreInv, Home
  <2>4. ASSUME NEW m \in (D + 1)..L, NEW n \in (D + 1)..L, Home(b, m) = Home(b, n)
        PROVE  m = n
    BY <1>1, <2>1, <2>2, <2>4, StoresApart DEF IInv
  <2>5. ASSUME NEW p \in Caller, pc[p] \in Storing
        PROVE  /\ ~ready[SlotOf(snap_write[p])]
               /\ \A q \in Caller \ {p} :
                     pc[q] \in Storing => SlotOf(snap_write[q]) # SlotOf(snap_write[p])
               /\ c_pc \in {"dispatch", "advance"} => SlotOf(c_read) # SlotOf(snap_write[p])
    <3>1. PICK m \in (V + 1)..L : /\ order[m] = Payload(p) /\ ~ready[Home(b, m)]
                                  /\ SlotOf(snap_write[p]) = Home(b, m)
      BY <2>3, <2>5
    <3>2. m \in (D + 1)..L
      BY <2>2
    <3>3. ASSUME NEW q \in Caller \ {p}, pc[q] \in Storing
          PROVE  SlotOf(snap_write[q]) # SlotOf(snap_write[p])
      <4>1. PICK n \in (V + 1)..L : order[n] = Payload(q) /\ SlotOf(snap_write[q]) = Home(b, n)
        BY <2>3, <3>3
      <4>2. n \in (D + 1)..L /\ n # m
        BY <2>2, <3>1, <4>1 DEF Payload
      <4>. QED
        BY <2>4, <3>1, <3>2, <4>1, <4>2
    <3>4. ASSUME c_pc \in {"dispatch", "advance"}
          PROVE  SlotOf(c_read) # SlotOf(snap_write[p])
      <4>1. V = D + 1
        BY <2>2, <3>4, <1>1, Lengths DEF Done, Busy, IInv
      <4>2. SlotOf(c_read) = Home(b, D + 1)
        <5>1. c_read = Pos(b, D)
          BY <2>1, <2>2, <3>4 DEF Ring, CursorInv
        <5>2. D = (D + 1) - 1
          OBVIOUS
        <5>. QED
          BY <5>1, <5>2 DEF Home
      <4>3. D + 1 \in (D + 1)..L /\ m # D + 1
        BY <2>2, <4>1
      <4>. QED
        BY <2>4, <3>1, <3>2, <4>2, <4>3
    <3>. QED
      BY <3>1, <3>3, <3>4
  <2>. QED
    BY <2>5 DEF OneOwnerPerSlot, Storing
<1>. QED
  BY <1>1, Invariance, PTL

\* For every capacity, a drain runs no request that was reserved after it began,
\* although the requests it runs may enqueue others.
THEOREM DrainBounded == ASSUME FewRequests PROVE Spec => []DrainIsBounded
<1>1. IInv => DrainIsBounded
  BY DEF IInv, Ring, CursorInv, DrainIsBounded
<1>. QED
  BY <1>1, Invariance, PTL


\* The invariant without which the statuses cannot be told apart.
StatusInv == pc \in [Caller -> Label] /\ CallerReadsOwnStatus

\* A caller whose status nobody has overwritten reads the outcome of its own
\* call, whatever the message callback did in between.
THEOREM OwnStatus == Spec => []CallerReadsOwnStatus
<1>1. Init => StatusInv
  BY DEF Init, StatusInv, CallerReadsOwnStatus, Label
<1>2. StatusInv /\ [Next]_vars => StatusInv'
  <2>. SUFFICES ASSUME StatusInv, [Next]_vars PROVE StatusInv'
    OBVIOUS
  <2>. USE DEF StatusInv, Label, CallerReadsOwnStatus, Goto
  <2>1. ASSUME NEW p \in Caller, Call(p) \/ Refuse(p) PROVE StatusInv'
    BY <2>1 DEF Call, Refuse, statusVars
  <2>2. ASSUME NEW p \in Caller, FullRead(p) \/ FullWrite(p) \/ ReserveRead(p) \/ ReserveWrite(p)
        PROVE  StatusInv'
    BY <2>2 DEF FullRead, FullWrite, ReserveRead, ReserveWrite, statusVars
  <2>3. ASSUME NEW p \in Caller, Reserve(p) \/ LoseRace(p) \/ Fill(p) \/ Publish(p)
        PROVE  StatusInv'
    BY <2>3 DEF Reserve, LoseRace, Fill, Publish, statusVars
  <2>4. ASSUME NEW p \in Caller, QueuedOk(p) PROVE StatusInv'
    BY <2>4 DEF QueuedOk, SetStatus
  <2>5. ASSUME NEW p \in Caller, QueuedError(p) \/ QueuedErrorAgain(p) PROVE StatusInv'
    BY <2>5 DEF QueuedError, QueuedErrorAgain, SetStatus
  <2>6. ASSUME NEW p \in Caller, Report(p) PROVE StatusInv'
    BY <2>6 DEF Report, SetStatus, statusVars
  <2>7. ASSUME NEW p \in Caller, Return(p) PROVE StatusInv'
    BY <2>7 DEF Return, statusVars
  <2>8. ASSUME DrainStep PROVE StatusInv'
    BY <2>8 DEF DrainStep, Snapshot, DrainEnds, Dispatch, ClearSlot, AdvanceRead, statusVars,
                callVars
  <2>9. ASSUME Reset PROVE StatusInv'
    BY <2>9 DEF Reset, callVars
  <2>10. ASSUME Allocate \/ UNCHANGED vars PROVE StatusInv'
    BY <2>10 DEF Allocate, vars, statusVars, callVars
  <2>. HIDE DEF StatusInv, Label, CallerReadsOwnStatus, Goto
  <2>. QED
    BY <2>1, <2>2, <2>3, <2>4, <2>5, <2>6, <2>7, <2>8, <2>9, <2>10 DEF Next, CallerStep
<1>3. StatusInv => CallerReadsOwnStatus
  BY DEF StatusInv
<1>. QED
  BY <1>1, <1>2, <1>3, PTL DEF Spec

-----------------------------------------------------------------------------
(* The ring implements the queue of ApiQueue.                              *)

\* The mapping, and what it is in terms of the order.
ReadySet == {Pending[n] : n \in {m \in 1..Len(Pending) :
                ready[SlotOf(msg_queue_read + m - 1 +
                      (IF c_pc \in {"dispatch", "advance"} THEN 1 ELSE 0))]}}
Running == IF delivered = <<>> THEN NoArgs ELSE delivered[Len(delivered)]
Live(b) == {order[m] : m \in {k \in (Len(delivered) + 1)..Len(order) : ready[Home(b, k)]}}
hostVars == <<Pending, ReadySet, Running>>

\* The requests that wait, counted from the oldest.
LEMMA PendingIs ==
    ASSUME TypeOK, Len(delivered) <= Len(order)
    PROVE  /\ Pending \in Seq(Request) /\ Len(Pending) = Len(order) - Len(delivered)
           /\ \A n \in 1..(Len(order) - Len(delivered)) : Pending[n] = order[Len(delivered) + n]
<1>1. PICK L \in Nat, V \in Nat : L = Len(order) /\ V = Len(delivered) /\ V <= L
  BY Lengths
<1>2. \A i \in (V + 1)..L : order[i] \in Request
  BY <1>1, ElementOfSeq DEF TypeOK
<1>3. /\ SubSeq(order, V + 1, L) \in Seq(Request)
      /\ Len(SubSeq(order, V + 1, L)) = IF V + 1 <= L THEN L - (V + 1) + 1 ELSE 0
      /\ \A i \in 1..(L - (V + 1) + 1) : SubSeq(order, V + 1, L)[i] = order[(V + 1) + i - 1]
  BY <1>2, SubSeqProperties
<1>4. Len(Pending) = L - V
  BY <1>1, <1>3 DEF Pending
<1>5. \A n \in 1..(L - V) : Pending[n] = order[V + n]
  BY <1>1, <1>3 DEF Pending
<1>. QED
  BY <1>1, <1>3, <1>4, <1>5 DEF Pending

\* The slot of the n-th request that waits, seen from msg_queue_read.
LEMMA SlotAhead ==
    ASSUME NEW b \in Position, NEW d \in Int, NEW x \in Int
    PROVE  SlotOf(Pos(b, d) + x) = Home(b, (d + x) + 1)
<1>1. PICK a \in Int : a = b + d
  BY DEF Position
<1>2. PICK q \in Int, r \in Int : a = Modulus * q + r /\ a % Modulus = r
  <2>1. a = Modulus * (a \div Modulus) + (a % Modulus) /\ a \div Modulus \in Int
    BY Sizes, DivMod, Zenon
  <2>2. a % Modulus \in Int
    BY Sizes, DivMod
  <2>. QED
    BY <2>1, <2>2, Zenon
<1>3. PICK k \in Int : Modulus = Capacity * k
  <2>1. Modulus \in Int
    BY Sizes
  <2>2. Modulus = Capacity * (Modulus \div Capacity) + (Modulus % Capacity) /\ Modulus \div Capacity \in Int
    BY <2>1, Sizes, DivMod, Zenon
  <2>3. PICK j \in Int : j = Modulus \div Capacity
    BY <2>2
  <2>4. Capacity * j \in Int
    BY Sizes
  <2>. QED
    BY <2>2, <2>3, <2>4, ModulusAssumption
<1>4. PICK y \in Int, j \in Int : y = r + x /\ j = k * q
  OBVIOUS
<1>5. (y + Capacity * j) % Capacity = y % Capacity
  BY Sizes, ModShift, Zenon
<1>6. a + x = y + Capacity * j
  <2>1. a = (Capacity * k) * q + r
    BY <1>2, <1>3
  <2>2. (Capacity * k) * q = Capacity * j
    BY <1>4, Sizes
  <2>. QED
    BY <1>4, <2>1, <2>2, Sizes
<1>7. SlotOf(Pos(b, d) + x) = y % Capacity
  BY <1>1, <1>2, <1>4 DEF SlotOf, Pos
<1>8. Home(b, (d + x) + 1) = (b + (((d + x) + 1) - 1)) % Capacity
  BY HomeSlot
<1>9. b + (((d + x) + 1) - 1) = a + x
  BY <1>1 DEF Position
<1>. QED
  BY <1>5, <1>6, <1>7, <1>8, <1>9

\* What the mapping calls ready are the waiting requests whose slot is ready.
LEMMA ReadyIs == \A b \in Position : TypeOK /\ Ring(b) => ReadySet = Live(b)
<1>. SUFFICES ASSUME NEW b \in Position, TypeOK, Ring(b) PROVE ReadySet = Live(b)
  OBVIOUS
<1>1. PICK L \in Nat, V \in Nat, D \in Nat, B \in {0, 1} :
         /\ L = Len(order) /\ V = Len(delivered) /\ V <= L /\ D = Done /\ B = Busy /\ V = D + B
  <2>1. /\ Len(order) \in Nat /\ Len(delivered) \in Nat /\ Busy \in {0, 1} /\ Done \in Nat
        /\ Len(delivered) <= Len(order) /\ Done = Len(delivered) - Busy
    BY Lengths DEF Ring, CursorInv, Done
  <2>2. Len(delivered) = Done + Busy
    BY <2>1
  <2>. QED
    BY <2>1, <2>2, Zenon
<1>2. Len(Pending) = L - V /\ \A n \in 1..(L - V) : Pending[n] = order[V + n]
  BY <1>1, PendingIs
<1>3. ASSUME NEW n \in 1..(L - V)
      PROVE  SlotOf(msg_queue_read + n - 1 +
                    (IF c_pc \in {"dispatch", "advance"} THEN 1 ELSE 0)) = Home(b, V + n)
  <2>1. msg_queue_read = Pos(b, D) /\ Pos(b, D) \in Int
    BY <1>1, PosType DEF Ring, CursorInv, Position
  <2>2. PICK x \in Int : x = (n - 1) + B
    OBVIOUS
  <2>3. msg_queue_read + n - 1 + (IF c_pc \in {"dispatch", "advance"} THEN 1 ELSE 0)
           = Pos(b, D) + x
    BY <1>1, <2>1, <2>2 DEF Busy
  <2>4. (D + x) + 1 = V + n
    BY <1>1, <2>2
  <2>5. SlotOf(Pos(b, D) + x) = Home(b, (D + x) + 1)
    BY SlotAhead
  <2>. QED
    BY <2>3, <2>4, <2>5
<1>4. ReadySet = {Pending[n] : n \in {m \in 1..(L - V) : ready[Home(b, V + m)]}}
  BY <1>2, <1>3 DEF ReadySet
<1>5. ASSUME NEW r \in ReadySet PROVE r \in Live(b)
  <2>1. PICK n \in 1..(L - V) : r = Pending[n] /\ ready[Home(b, V + n)]
    BY <1>4
  <2>2. V + n \in (V + 1)..L /\ r = order[V + n]
    BY <1>2, <2>1
  <2>. QED
    BY <1>1, <2>1, <2>2 DEF Live
<1>6. ASSUME NEW r \in Live(b) PROVE r \in ReadySet
  <2>1. PICK m \in (V + 1)..L : r = order[m] /\ ready[Home(b, m)]
    BY <1>1 DEF Live
  <2>2. PICK n \in 1..(L - V) : m = V + n
    <3>1. m - V \in 1..(L - V) /\ m = V + (m - V)
      OBVIOUS
    <3>. QED
      BY <3>1
  <2>. QED
    BY <1>2, <1>4, <2>1, <2>2
<1>. QED
  BY <1>5, <1>6

\* The same of the next state.
LEMMA ReadyIsNext == (\A b \in Position : TypeOK /\ Ring(b) => ReadySet = Live(b))'
BY ReadyIs, PTL

\* The mapping of a step that begins and ends in the ring.
LEMMA ReadyStep ==
    ASSUME NEW b \in Position, TypeOK, Ring(b), TypeOK', Ring(b)'
    PROVE  ReadySet = Live(b) /\ ReadySet' = Live(b)'
BY ReadyIs, ReadyIsNext

\* A step that keeps the order, what was run, and the flags of what waits is
\* nothing to a host.
LEMMA HostStutter ==
    ASSUME NEW b \in Position, TypeOK, Ring(b), TypeOK', Ring(b)',
           order' = order, delivered' = delivered,
           \A m \in (Len(delivered) + 1)..Len(order) : ready'[Home(b, m)] = ready[Home(b, m)]
    PROVE  UNCHANGED hostVars
<1>1. ReadySet = Live(b) /\ ReadySet' = Live(b)'
  BY ReadyStep
<1>2. Live(b)' = Live(b)
  BY DEF Live
<1>3. Pending' = Pending /\ Running' = Running
  BY DEF Pending, Running
<1>. QED
  BY <1>1, <1>2, <1>3 DEF hostVars

\* A reservation gives a request the last place of a queue that has room.
LEMMA HostReserve ==
    ASSUME FewRequests, NEW b \in Position, TypeOK, CallInv, OrderInv, Ring(b), TypeOK', Ring(b)',
           NEW p \in Caller, Reserve(p)
    PROVE  \E r \in Request : Host!Reserve(r)
<1>1. PICK L \in Nat, V \in Nat, D \in Nat :
         /\ L = Len(order) /\ V = Len(delivered) /\ V <= L /\ D = Done /\ D <= V
  BY Lengths DEF Ring, CursorInv, Done
<1>2. PICK r \in Request : r = Payload(p)
  BY ReserveCalls
<1>3. /\ order' = Append(order, r) /\ \A m \in 1..L : order[m] # r
      /\ delivered' = delivered /\ ready' = ready
  BY <1>1, <1>2, ReserveCalls DEF Reserve, drainVars
<1>4. Len(order') = L + 1 /\ order'[L + 1] = r /\ \A m \in 1..L : order'[m] = order[m]
  BY <1>1, <1>3, AppendProperties DEF TypeOK
<1>5. L < D + Capacity
  BY <1>1, RingRoom DEF Reserve
<1>6. /\ Pending \in Seq(Request) /\ Len(Pending) = L - V
      /\ \A n \in 1..(L - V) : Pending[n] = order[V + n]
  BY <1>1, PendingIs
<1>7. Len(Pending) < Capacity
  BY <1>1, <1>5, <1>6, Sizes
<1>8. \A n \in 1..Len(Pending) : Pending[n] # r
  <2>1. ASSUME NEW n \in 1..(L - V) PROVE V + n \in 1..L
    BY <1>1
  <2>. QED
    BY <1>3, <1>6, <2>1
<1>9. Pending' = Append(Pending, r)
  <2>1. Pending' = SubSeq(order', V + 1, L + 1)
    BY <1>1, <1>3, <1>4 DEF Pending
  <2>2. Pending = SubSeq(order, V + 1, L)
    BY <1>1 DEF Pending
  <2>3. order \in Seq(Request)
    BY DEF TypeOK
  <2>4. ASSUME NEW i \in (V + 1)..(L + 1) PROVE order'[i] \in Request
    <3>1. CASE i \in 1..L
      BY <1>1, <1>4, <2>3, <3>1, ElementOfSeq
    <3>2. CASE i = L + 1
      BY <1>4, <3>2
    <3>. QED
      BY <1>1, <3>1, <3>2
  <2>5. /\ Pending' \in Seq(Request) /\ Len(Pending') = (L + 1) - V
        /\ \A i \in 1..((L + 1) - V) : Pending'[i] = order'[V + i]
    <3>1. /\ SubSeq(order', V + 1, L + 1) \in Seq(Request)
          /\ Len(SubSeq(order', V + 1, L + 1)) =
                IF V + 1 <= L + 1 THEN (L + 1) - (V + 1) + 1 ELSE 0
          /\ \A i \in 1..((L + 1) - (V + 1) + 1) :
                SubSeq(order', V + 1, L + 1)[i] = order'[(V + 1) + i - 1]
      BY <2>4, SubSeqProperties
    <3>. QED
      BY <1>1, <2>1, <3>1
  <2>6. PICK s : s = Append(Pending, r)
    OBVIOUS
  <2>7. /\ s \in Seq(Request) /\ Len(s) = (L - V) + 1
        /\ (\A i \in 1..(L - V) : s[i] = Pending[i]) /\ s[(L - V) + 1] = r
    BY <1>6, <2>6, AppendProperties
  <2>8. ASSUME NEW i \in 1..((L + 1) - V) PROVE Pending'[i] = s[i]
    <3>1. CASE i \in 1..(L - V)
      <4>1. V + i \in 1..L
        BY <1>1, <3>1
      <4>. QED
        BY <1>4, <1>6, <2>5, <2>7, <3>1, <4>1
    <3>2. CASE i = (L - V) + 1
      <4>1. V + i = L + 1
        BY <1>1, <3>2
      <4>. QED
        BY <1>4, <2>5, <2>7, <3>2, <4>1
    <3>. QED
      BY <1>1, <3>1, <3>2
  <2>9. Pending' = s
    <3>1. Len(s) = Len(Pending')
      BY <1>1, <2>5, <2>7
    <3>. QED
      BY <2>5, <2>7, <2>8, <3>1, SeqEqual
  <2>. QED
    BY <2>6, <2>9
<1>10. ReadySet' = ReadySet
  <2>1. ~ready[Home(b, L + 1)]
    <3>1. SUFFICES ASSUME ready[Home(b, L + 1)] PROVE FALSE
      OBVIOUS
    <3>2. PICK h \in Slot : h = Home(b, L + 1)
      BY HomeSlot
    <3>3. PICK m \in (D + 1)..L : h = Home(b, m)
      BY <1>1, <3>1, <3>2 DEF Ring, ReadyInv
    <3>4. (L + 1) - m < Capacity /\ m - (L + 1) < Capacity
      BY <1>5, Sizes
    <3>5. m = L + 1
      BY <3>2, <3>3, <3>4, HomeApart
    <3>. QED
      BY <3>5
  <2>2. Live(b)' = Live(b)
    <3>1. {k \in (V + 1)..(L + 1) : ready[Home(b, k)]} = {k \in (V + 1)..L : ready[Home(b, k)]}
      BY <1>1, <2>1
    <3>2. \A k \in (V + 1)..L : order'[k] = order[k]
      BY <1>1, <1>4
    <3>3. Live(b)' = {order'[m] : m \in {k \in (V + 1)..(L + 1) : ready[Home(b, k)]}}
      BY <1>1, <1>3, <1>4 DEF Live
    <3>4. Live(b) = {order[m] : m \in {k \in (V + 1)..L : ready[Home(b, k)]}}
      BY <1>1 DEF Live
    <3>. QED
      BY <3>1, <3>2, <3>3, <3>4
  <2>. QED
    BY <2>2, ReadyStep
<1>11. Running' = Running
  BY <1>3 DEF Running
<1>12. Host!Reserve(r)
  BY <1>7, <1>8, <1>9, <1>10, <1>11 DEF Host!Reserve, ReadySet, Running
<1>. QED
  BY <1>12

\* The flag completes the request of the caller that sets it.
LEMMA HostComplete ==
    ASSUME NEW b \in Position, TypeOK, CallInv, OrderInv, Ring(b), TypeOK', Ring(b)',
           NEW p \in Caller, Publish(p)
    PROVE  \E r \in Request : Host!Complete(r)
<1>1. PICK L \in Nat, V \in Nat, D \in Nat :
         /\ L = Len(order) /\ V = Len(delivered) /\ V <= L /\ D = Done /\ D <= V
  BY Lengths DEF Ring, CursorInv, Done
<1>2. PICK m \in (V + 1)..L : order[m] = Payload(p) /\ snap_write[p] = Pos(b, m - 1)
  BY <1>1 DEF Ring, StoreInv, Publish, Storing
<1>3. PICK r \in Request : r = order[m]
  <2>1. m \in 1..Len(order)
    BY <1>1
  <2>. QED
    BY <2>1, ElementOfSeq DEF TypeOK
<1>4. PICK h \in Slot : h = Home(b, m) /\ SlotOf(snap_write[p]) = h
  BY <1>1, <1>2, HomeSlot DEF Home
<1>5. /\ order' = order /\ delivered' = delivered
      /\ ready' = [ready EXCEPT ![h] = TRUE] /\ ready \in [Slot -> BOOLEAN]
  BY <1>4 DEF Publish, drainVars, TypeOK
<1>6. /\ Len(Pending) = L - V /\ \A n \in 1..(L - V) : Pending[n] = order[V + n]
  BY <1>1, PendingIs
<1>7. \E n \in 1..Len(Pending) : Pending[n] = r
  <2>1. m - V \in 1..(L - V) /\ V + (m - V) = m
    BY <1>1
  <2>2. Pending[m - V] = r
    BY <1>3, <1>6, <2>1
  <2>. QED
    BY <1>6, <2>1, <2>2
<1>8. ASSUME NEW k \in (V + 1)..L PROVE ready'[Home(b, k)] <=> (ready[Home(b, k)] \/ k = m)
  <2>1. Home(b, k) \in Slot
    BY <1>1, HomeSlot
  <2>2. k # m => Home(b, k) # h
    <3>1. k \in (Done + 1)..Len(order) /\ m \in (Done + 1)..Len(order)
      BY <1>1
    <3>. QED
      BY <1>4, <3>1, StoresApart
  <2>3. CASE k = m
    BY <1>4, <1>5, <2>3
  <2>4. CASE k # m
    BY <1>5, <2>1, <2>2, <2>4
  <2>. QED
    BY <2>3, <2>4
<1>9. ReadySet' = ReadySet \cup {r}
  <2>1. Live(b)' = Live(b) \cup {r}
    <3>1. Live(b)' = {order[i] : i \in {k \in (V + 1)..L : ready'[Home(b, k)]}}
      BY <1>1, <1>5 DEF Live
    <3>2. {k \in (V + 1)..L : ready'[Home(b, k)]} = {k \in (V + 1)..L : ready[Home(b, k)]} \cup {m}
      BY <1>8
    <3>3. Live(b) = {order[i] : i \in {k \in (V + 1)..L : ready[Home(b, k)]}}
      BY <1>1 DEF Live
    <3>. QED
      BY <1>3, <3>1, <3>2, <3>3
  <2>. QED
    BY <2>1, ReadyStep
<1>10. Pending' = Pending /\ Running' = Running
  BY <1>5 DEF Pending, Running
<1>11. Host!Complete(r)
  BY <1>7, <1>9, <1>10 DEF Host!Complete, ReadySet, Running
<1>. QED
  BY <1>11

\* What is run is the oldest request, with its own arguments.
LEMMA HostRun ==
    ASSUME FewRequests, NEW b \in Position, TypeOK, OrderInv, Ring(b), TypeOK', Ring(b)', Dispatch
    PROVE  Host!Run
<1>1. PICK L \in Nat, V \in Nat, D \in Nat :
         /\ L = Len(order) /\ V = Len(delivered) /\ V <= L /\ D = Done /\ D <= V
  BY Lengths DEF Ring, CursorInv, Done
<1>2. /\ V + 1 <= L /\ ready[Home(b, V + 1)] /\ order' = order /\ ready' = ready
      /\ delivered' = Append(delivered, order[V + 1])
  BY <1>1, HeadIsOldest, RingDispatch DEF Dispatch, queueVars
<1>3. PICK r \in Request : r = order[V + 1]
  BY <1>1, <1>2, ElementOfSeq DEF TypeOK
<1>4. Len(delivered') = V + 1 /\ delivered'[V + 1] = r /\ delivered' # <<>>
  BY <1>1, <1>2, <1>3, AppendProperties DEF TypeOK
<1>5. /\ Pending \in Seq(Request) /\ Len(Pending) = L - V
      /\ \A n \in 1..(L - V) : Pending[n] = order[V + n]
  BY <1>1, PendingIs
<1>6. Pending # <<>> /\ Head(Pending) = r
  <2>1. Len(Pending) > 0 /\ Pending[1] = r
    BY <1>2, <1>3, <1>5
  <2>. QED
    BY <1>5, <2>1
<1>7. Pending' = Tail(Pending)
  <2>1. Pending = SubSeq(order, V + 1, L) /\ Pending' = SubSeq(order, (V + 1) + 1, L)
    BY <1>1, <1>2, <1>4 DEF Pending
  <2>2. \A i \in (V + 2)..L : order[i] \in Request
    BY <1>1, ElementOfSeq DEF TypeOK
  <2>3. /\ Pending' \in Seq(Request) /\ Len(Pending') = L - (V + 1)
        /\ \A i \in 1..(L - (V + 1)) : Pending'[i] = order[(V + 1) + i]
    <3>1. /\ SubSeq(order, V + 2, L) \in Seq(Request)
          /\ Len(SubSeq(order, V + 2, L)) = IF V + 2 <= L THEN L - (V + 2) + 1 ELSE 0
          /\ \A i \in 1..(L - (V + 2) + 1) :
                SubSeq(order, V + 2, L)[i] = order[(V + 2) + i - 1]
      BY <2>2, SubSeqProperties
    <3>2. Pending' = SubSeq(order, V + 2, L)
      BY <2>1
    <3>3. Len(Pending') = L - (V + 1)
      BY <1>2, <3>1, <3>2
    <3>4. ASSUME NEW i \in 1..(L - (V + 1)) PROVE Pending'[i] = order[(V + 1) + i]
      <4>1. i \in 1..(L - (V + 2) + 1) /\ (V + 2) + i - 1 = (V + 1) + i
        BY <1>2
      <4>. QED
        BY <3>1, <3>2, <4>1
    <3>. QED
      BY <3>1, <3>2, <3>3, <3>4
  <2>4. PICK s : s = Tail(Pending)
    OBVIOUS
  <2>5. s \in Seq(Request) /\ Len(s) = (L - V) - 1 /\ \A i \in 1..Len(s) : s[i] = Pending[i + 1]
    BY <1>5, <1>6, <2>4, HeadTailProperties
  <2>6. Len(s) = Len(Pending')
    BY <1>1, <2>3, <2>5
  <2>7. ASSUME NEW i \in 1..Len(s) PROVE Pending'[i] = s[i]
    <3>1. i \in 1..(L - (V + 1)) /\ i + 1 \in 1..(L - V) /\ V + (i + 1) = (V + 1) + i
      BY <1>2, <2>5
    <3>. QED
      BY <1>5, <2>3, <2>5, <3>1
  <2>8. Pending' = s
    BY <2>3, <2>5, <2>6, <2>7, SeqEqual
  <2>. QED
    BY <2>4, <2>8
<1>8. r \in ReadySet /\ ReadySet' = ReadySet \ {r}
  <2>1. Live(b) = {order[i] : i \in {k \in (V + 1)..L : ready[Home(b, k)]}}
    BY <1>1 DEF Live
  <2>2. Live(b)' = {order[i] : i \in {k \in ((V + 1) + 1)..L : ready[Home(b, k)]}}
    BY <1>1, <1>2, <1>4 DEF Live
  <2>3. \A i \in (V + 1)..L : order[i] = r => i = V + 1
    BY <1>1, <1>2, <1>3 DEF OrderInv
  <2>4. r \in Live(b)
    BY <1>2, <1>3, <2>1
  <2>5. Live(b)' = Live(b) \ {r}
    BY <1>2, <1>3, <2>1, <2>2, <2>3
  <2>. QED
    BY <2>4, <2>5, ReadyStep
<1>9. Running' = r
  BY <1>4 DEF Running
<1>. QED
  BY <1>6, <1>7, <1>8, <1>9 DEF Host!Run, ReadySet, Running

\* A reset drops what waits; an allocation finds nothing.
LEMMA HostDrop ==
    ASSUME NEW b \in Position, TypeOK, CallInv, Ring(b), Reset \/ Allocate
    PROVE  Host!Drop \/ UNCHANGED hostVars
<1>1. order' = <<>> /\ delivered' = <<>>
  BY DEF Reset, Allocate, CallInv, callVars, drainVars
<1>2. Len(<<>>) = 0 /\ SubSeq(<<>>, 1, 0) = <<>>
  OBVIOUS
<1>3. Pending' = <<>>
  BY <1>1, <1>2 DEF Pending
<1>4. ReadySet' = {}
  BY <1>2, <1>3 DEF ReadySet
<1>5. Running' = NoArgs
  BY <1>1 DEF Running
<1>. QED
  BY <1>3, <1>4, <1>5 DEF Host!Drop, ReadySet, Running, Host!NoRequest, NoArgs

\* Every step is a step of the queue that a host relies on, or nothing to it.
LEMMA HostNext ==
    ASSUME FewRequests, IInv, [Next]_vars
    PROVE  [Host!Next]_hostVars
<1>1. PICK b \in Position : Ring(b)
  BY DEF IInv
<1>2. TypeOK /\ CallInv /\ OrderInv
  BY DEF IInv
<1>3. TypeOK' /\ (Ring(b)' \/ ((Reset \/ Allocate) /\ Ring(0)'))
  BY <1>1, <1>2, NextRing
<1>4. CASE Reset \/ Allocate
  BY <1>1, <1>2, <1>4, HostDrop DEF Host!Next
<1>5. CASE ~(Reset \/ Allocate)
  <2>1. Ring(b)'
    BY <1>3, <1>5
  <2>2. ASSUME NEW p \in Caller, Talk(p) \/ ReserveRead(p) \/ ReserveWrite(p)
        PROVE  UNCHANGED hostVars
    <3>1. UNCHANGED <<queueVars, drainVars, order>>
      BY <1>2, <2>2, TalkKeeps
    <3>. QED
      BY <1>1, <1>2, <1>3, <2>1, <3>1, HostStutter DEF queueVars, drainVars
  <2>3. ASSUME NEW p \in Caller, Reserve(p) PROVE \E r \in Request : Host!Reserve(r)
    BY <1>1, <1>2, <1>3, <2>1, <2>3, HostReserve
  <2>4. ASSUME NEW p \in Caller, Fill(p) PROVE UNCHANGED hostVars
    <3>1. order' = order /\ delivered' = delivered /\ ready' = ready
      BY <2>4 DEF Fill, drainVars
    <3>. QED
      BY <1>1, <1>2, <1>3, <2>1, <3>1, HostStutter
  <2>5. ASSUME NEW p \in Caller, Publish(p) PROVE \E r \in Request : Host!Complete(r)
    BY <1>1, <1>2, <1>3, <2>1, <2>5, HostComplete
  <2>6. ASSUME Snapshot \/ DrainEnds \/ AdvanceRead \/ UNCHANGED vars PROVE UNCHANGED hostVars
    <3>1. order' = order /\ delivered' = delivered /\ ready' = ready
      BY <2>6 DEF Snapshot, DrainEnds, AdvanceRead, vars, queueVars, drainVars
    <3>. QED
      BY <1>1, <1>2, <1>3, <2>1, <3>1, HostStutter
  <2>7. ASSUME Dispatch PROVE Host!Run
    BY <1>1, <1>2, <1>3, <2>1, <2>7, HostRun
  <2>8. ASSUME ClearSlot PROVE UNCHANGED hostVars
    <3>1. /\ order' = order /\ delivered' = delivered /\ c_pc = "dispatch"
          /\ ready' = [ready EXCEPT ![SlotOf(c_read)] = FALSE] /\ ready \in [Slot -> BOOLEAN]
      BY <1>2, <2>8 DEF ClearSlot, TypeOK
    <3>2. PICK L \in Nat, D \in Nat :
              /\ L = Len(order) /\ D = Done /\ D + 1 = Len(delivered) /\ D + 1 <= L
      <4>1. Busy = 1 /\ Done = Len(delivered) - 1
        BY <3>1 DEF Busy, Done
      <4>2. Done \in Nat /\ Len(order) \in Nat /\ Len(delivered) \in Nat
            /\ Len(delivered) <= Len(order)
        BY <1>1, <1>2, Lengths DEF Ring, CursorInv
      <4>. QED
        BY <4>1, <4>2
    <3>3. SlotOf(c_read) = Home(b, D + 1)
      <4>1. c_read = Pos(b, D)
        BY <1>1, <3>1, <3>2 DEF Ring, CursorInv
      <4>2. D = (D + 1) - 1
        OBVIOUS
      <4>. QED
        BY <4>1, <4>2 DEF Home
    <3>4. ASSUME NEW m \in (Len(delivered) + 1)..Len(order)
          PROVE  ready'[Home(b, m)] = ready[Home(b, m)]
      <4>1. /\ m \in (Done + 1)..Len(order) /\ D + 1 \in (Done + 1)..Len(order)
            /\ m # D + 1 /\ m \in Int
        BY <3>2
      <4>2. Home(b, m) # Home(b, D + 1)
        BY <1>1, <1>2, <4>1, StoresApart
      <4>3. Home(b, m) \in Slot /\ Home(b, D + 1) \in Slot
        BY <4>1, HomeSlot
      <4>. QED
        BY <3>1, <3>3, <4>2, <4>3
    <3>. QED
      BY <1>1, <1>2, <1>3, <2>1, <3>1, <3>4, HostStutter
  <2>. QED
    BY <1>5, <2>2, <2>3, <2>4, <2>5, <2>6, <2>7, <2>8
       DEF Host!Next, Next, CallerStep, DrainStep, Talk
<1>. QED
  BY <1>4, <1>5

\* For every capacity, wrap of the positions and interleaving of the callers,
\* the slots and cursors of threadsafe.c are the queue of ApiQueue: an accepted
\* request is run once, with its own arguments, in the order of the places, and
\* no more than Capacity wait.
THEOREM RingImplementsApiQueue == ASSUME FewRequests PROVE Spec => ImplementsApiQueue
<1>1. Init => Host!Init
  <2>. SUFFICES ASSUME Init PROVE Host!Init
    OBVIOUS
  <2>1. order = <<>> /\ delivered = <<>>
    BY DEF Init
  <2>2. Len(<<>>) = 0 /\ SubSeq(<<>>, 1, 0) = <<>>
    OBVIOUS
  <2>3. Pending = <<>>
    BY <2>1, <2>2 DEF Pending
  <2>4. ReadySet = {} /\ Running = NoArgs
    BY <2>1, <2>2, <2>3 DEF ReadySet, Running
  <2>. QED
    BY <2>3, <2>4 DEF Host!Init, ReadySet, Running, Host!NoRequest, NoArgs
<1>2. IInv /\ [Next]_vars => [Host!Next]_(Host!vars)
  <2>1. Host!vars = hostVars
    BY DEF Host!vars, hostVars, ReadySet, Running
  <2>2. UNCHANGED hostVars => UNCHANGED Host!vars
    BY DEF Host!vars, hostVars, ReadySet, Running
  <2>. QED
    BY <2>2, HostNext
<1>. QED
  BY <1>1, <1>2, Invariance, PTL DEF Spec, ImplementsApiQueue, Host!Spec

=============================================================================
