------------------------ MODULE CircularBuffer_proofs ------------------------
(***************************************************************************)
(* Proofs about CircularBuffer, for every size and any number of items.    *)
(***************************************************************************)
EXTENDS CircularBuffer, SequenceTheorems, TLAPS

Held == accepted - released

\* The producer's private cursor is where its next element goes, and the call
\* under way never asks for more slots than are free.
ProducerInv ==
    /\ put_pc = "idle" => copied = 0
    /\ put_pc = "copy" => /\ put_wp = Ahead(wp, copied)
                          /\ copied + put_left <= Size - Held

\* The consumer's private cursor is at the next element to copy, and the call
\* under way never passes the elements that were published when it began.
ConsumerInv ==
    /\ get_pc = "idle" => taken = 0
    /\ get_pc = "copy" => /\ get_rp = Ahead(rp, taken)
                          /\ taken + get_left <= Held

\* The cursors are as far apart as the number of elements held.
CursorInv ==
    /\ Held \in 0..Size
    /\ wp = Ahead(rp, Held)

\* The elements held, and those the call under way has copied, are in order
\* in the slots from rp on.
ContentsInv ==
    \A d \in 0..(Held + copied - 1) : buffer[Ahead(rp, d)] = released + d + 1

\* The inductive invariant.
IInv ==
    /\ TypeOK
    /\ CursorInv
    /\ ProducerInv
    /\ ConsumerInv
    /\ ContentsInv
    /\ DeliveredInOrder

-----------------------------------------------------------------------------

\* Walking a whole number of slots inside the ring stays inside it and keeps
\* different distances apart.
LEMMA AheadLemma ==
    ASSUME NEW p \in Slot, NEW d \in 0..Size, NEW e \in 0..Size
    PROVE  /\ Ahead(p, d) \in Slot
           /\ d # e => Ahead(p, d) # Ahead(p, e)
           /\ Ahead(p, 0) = p
BY SizeAssumption DEF Ahead, Slot, numelem

\* One step of a private cursor is one more slot ahead.
LEMMA AdvanceLemma ==
    ASSUME NEW p \in Slot, NEW d \in 0..(Size - 1)
    PROVE  Advance(Ahead(p, d)) = Ahead(p, d + 1)
BY SizeAssumption DEF Ahead, Advance, Slot, numelem

\* Distances add up.
LEMMA AheadTwice ==
    ASSUME NEW p \in Slot, NEW d \in 0..Size, NEW e \in 0..Size, d + e <= Size
    PROVE  Ahead(Ahead(p, d), e) = Ahead(p, d + e)
BY SizeAssumption DEF Ahead, Slot, numelem

\* The count of checkspace is the number of elements held, and the rest is free.
LEMMA SpaceLemma ==
    ASSUME TypeOK, CursorInv
    PROVE  ReadSpace(wp, rp) = Held /\ WriteSpace(wp, rp) = Size - Held
BY SizeAssumption DEF TypeOK, CursorInv, Held, ReadSpace, WriteSpace, Ahead, Slot, numelem

\* A new buffer satisfies the invariant (csoundCreateCircularBuffer).
LEMMA InitIInv == Init => IInv
BY SizeAssumption DEF Init, IInv, TypeOK, CursorInv, ProducerInv, ConsumerInv,
   ContentsInv, DeliveredInOrder, Held, Ahead, Slot, numelem

\* Every step of either side preserves the invariant.
LEMMA NextIInv == IInv /\ [Next]_vars => IInv'
<1> SUFFICES ASSUME IInv, [Next]_vars PROVE IInv'
    OBVIOUS
<1> USE SizeAssumption, ItemsAssumption
<1> USE DEF IInv
<1>1. ASSUME NEW items \in 1..MaxItems, WriteBegin(items) PROVE IInv'
  <2>1. WriteSpace(wp, rp) = Size - Held
    BY SpaceLemma
  <2>2. TypeOK'
    BY <1>1, <2>1 DEF WriteBegin, TypeOK, CursorInv, AtMost, Held, getVars
  <2>3. CursorInv' /\ ConsumerInv' /\ DeliveredInOrder'
    BY <1>1 DEF WriteBegin, CursorInv, ConsumerInv, DeliveredInOrder, Held, getVars, Ahead
  <2>4. ProducerInv'
    BY <1>1, <2>1, AheadLemma DEF WriteBegin, TypeOK, CursorInv, ProducerInv, Held, AtMost, getVars
  <2>5. ContentsInv'
    <3>1. copied = 0
      BY <1>1 DEF WriteBegin, ProducerInv
    <3> QED
      BY <1>1, <3>1 DEF WriteBegin, ContentsInv, Held, Ahead
  <2> QED
    BY <2>2, <2>3, <2>4, <2>5
<1>2. CASE WriteCopy
  <2>1. /\ Held \in 0..Size /\ copied \in 0..Size /\ Held + copied < Size
        /\ copied + 1 <= Size
    BY <1>2 DEF WriteCopy, TypeOK, CursorInv, ProducerInv, Held
  <2>2. put_wp = Ahead(rp, Held + copied)
    BY <1>2, <2>1, AheadTwice DEF WriteCopy, TypeOK, CursorInv, ProducerInv
  <2>3. Advance(put_wp) = Ahead(wp, copied + 1) /\ Ahead(wp, copied + 1) \in Slot
    BY <1>2, <2>1, AdvanceLemma, AheadLemma DEF WriteCopy, TypeOK, ProducerInv
  <2>4. TypeOK'
    BY <1>2, <2>1, <2>3 DEF WriteCopy, TypeOK, getVars
  <2>5. CursorInv' /\ ConsumerInv' /\ DeliveredInOrder'
    BY <1>2 DEF WriteCopy, CursorInv, ConsumerInv, DeliveredInOrder, Held, getVars, Ahead
  <2>6. ProducerInv'
    BY <1>2, <2>1, <2>3 DEF WriteCopy, TypeOK, ProducerInv, Held, Ahead
  <2>7. ContentsInv'
    <3> SUFFICES ASSUME NEW d \in 0..(Held + copied)
                 PROVE  buffer'[Ahead(rp, d)] = released + d + 1
      BY <1>2, <2>1 DEF WriteCopy, TypeOK, ContentsInv, Held, Ahead
    <3>1. CASE d = Held + copied
      BY <1>2, <2>1, <2>2, <3>1 DEF WriteCopy, TypeOK, Held
    <3>2. CASE d # Held + copied
      <4>1. d \in 0..(Held + copied - 1) /\ d \in 0..Size
        BY <2>1, <3>2
      <4>2. Ahead(rp, d) # put_wp /\ Ahead(rp, d) \in Slot
        BY <2>1, <2>2, <3>2, <4>1, AheadLemma DEF TypeOK
      <4> QED
        BY <1>2, <4>1, <4>2 DEF WriteCopy, TypeOK, ContentsInv
    <3> QED
      BY <3>1, <3>2
  <2> QED
    BY <2>4, <2>5, <2>6, <2>7
<1>3. CASE WritePublish
  <2>1. /\ Held \in 0..Size /\ copied \in 0..Size /\ Held + copied <= Size
        /\ Held' = Held + copied
    BY <1>3 DEF WritePublish, TypeOK, CursorInv, ProducerInv, Held
  <2>2. TypeOK'
    BY <1>3 DEF WritePublish, TypeOK, getVars
  <2>3. CursorInv'
    <3>1. put_wp = Ahead(rp, Held + copied)
      BY <1>3, <2>1, AheadTwice DEF WritePublish, TypeOK, CursorInv, ProducerInv
    <3> QED
      BY <1>3, <2>1, <3>1 DEF WritePublish, CursorInv, Ahead
  <2>4. ProducerInv'
    BY <1>3 DEF WritePublish, ProducerInv
  <2>5. ConsumerInv' /\ DeliveredInOrder'
    BY <1>3, <2>1 DEF WritePublish, ConsumerInv, DeliveredInOrder, TypeOK, getVars, Ahead
  <2>6. ContentsInv'
    BY <1>3, <2>1 DEF WritePublish, ContentsInv, Ahead
  <2> QED
    BY <2>2, <2>3, <2>4, <2>5, <2>6
<1>4. ASSUME NEW op \in {"read", "peek", "flush"}, NEW items \in Nat \ {0}, GetBegin(op, items)
      PROVE  IInv'
  <2>1. ReadSpace(wp, rp) = Held
    BY SpaceLemma
  <2>2. TypeOK'
    BY <1>4, <2>1 DEF GetBegin, TypeOK, CursorInv, AtMost, Held, putVars
  <2>3. CursorInv' /\ ProducerInv' /\ ContentsInv' /\ DeliveredInOrder'
    BY <1>4 DEF GetBegin, CursorInv, ProducerInv, ContentsInv, DeliveredInOrder,
       Held, putVars, Ahead
  <2>4. ConsumerInv'
    BY <1>4, <2>1, AheadLemma DEF GetBegin, TypeOK, CursorInv, ConsumerInv, Held, AtMost, putVars
  <2> QED
    BY <2>2, <2>3, <2>4
<1>5. CASE GetCopy
  <2>1. Held \in 0..Size /\ taken \in 0..(Size - 1) /\ taken < Held
    BY <1>5 DEF GetCopy, TypeOK, CursorInv, ConsumerInv, Held
  <2>2. Advance(get_rp) = Ahead(rp, taken + 1) /\ Ahead(rp, taken + 1) \in Slot
    BY <1>5, <2>1, AdvanceLemma, AheadLemma DEF GetCopy, TypeOK, ConsumerInv
  <2>3. buffer[get_rp] = released + taken + 1
    BY <1>5, <2>1 DEF GetCopy, TypeOK, ConsumerInv, ContentsInv
  <2>4. TypeOK'
    BY <1>5, <2>1, <2>2 DEF GetCopy, TypeOK, putVars
  <2>5. CursorInv' /\ ProducerInv' /\ ContentsInv'
    BY <1>5 DEF GetCopy, CursorInv, ProducerInv, ContentsInv, Held, putVars, Ahead
  <2>6. ConsumerInv'
    BY <1>5, <2>1, <2>2 DEF GetCopy, TypeOK, ConsumerInv, Held, Ahead
  <2>7. DeliveredInOrder'
    BY <1>5, <2>3 DEF GetCopy, DeliveredInOrder, TypeOK
  <2> QED
    BY <2>4, <2>5, <2>6, <2>7
<1>6. CASE GetEnd
  <2>1. CASE get_op = "peek"
    BY <1>6, <2>1 DEF GetEnd, TypeOK, CursorInv, ProducerInv, ConsumerInv, ContentsInv,
       DeliveredInOrder, Held, putVars, Ahead
  <2>2. CASE get_op # "peek"
    <3>1. /\ Held \in 0..Size /\ taken \in 0..Size /\ taken <= Held
          /\ Held' = Held - taken /\ rp' = Ahead(rp, taken) /\ released' = released + taken
      BY <1>6, <2>2 DEF GetEnd, TypeOK, CursorInv, ConsumerInv, Held
    <3>2. TypeOK'
      BY <1>6, <2>2 DEF GetEnd, TypeOK, putVars
    <3>3. CursorInv'
      <4>1. Ahead(Ahead(rp, taken), Held - taken) = Ahead(rp, Held)
        BY <3>1, AheadTwice DEF TypeOK
      <4> QED
        BY <1>6, <3>1, <4>1 DEF GetEnd, CursorInv, TypeOK, Ahead
    <3>4. ProducerInv'
      BY <1>6, <3>1 DEF GetEnd, ProducerInv, TypeOK, putVars, Ahead
    <3>5. ConsumerInv' /\ DeliveredInOrder'
      BY <1>6 DEF GetEnd, ConsumerInv, DeliveredInOrder
    <3>6. ContentsInv'
      <4>1. /\ copied' = copied /\ buffer' = buffer /\ copied \in 0..Size
            /\ Held + copied <= Size
        BY <1>6 DEF GetEnd, TypeOK, ProducerInv, CursorInv, Held, putVars
      <4> SUFFICES ASSUME NEW d \in 0..(Held - taken + copied - 1)
                   PROVE  buffer[Ahead(Ahead(rp, taken), d)] = released + taken + d + 1
        BY <3>1, <4>1 DEF ContentsInv, Ahead
      <4>2. Ahead(Ahead(rp, taken), d) = Ahead(rp, taken + d)
        BY <3>1, <4>1, AheadTwice DEF TypeOK
      <4>3. taken + d \in 0..(Held + copied - 1)
        BY <3>1, <4>1
      <4> QED
        BY <3>1, <4>2, <4>3 DEF ContentsInv, TypeOK
    <3> QED
      BY <3>2, <3>3, <3>4, <3>5, <3>6
  <2> QED
    BY <2>1, <2>2
<1>7. CASE UNCHANGED vars
  BY <1>7 DEF vars, putVars, getVars, TypeOK, CursorInv, ProducerInv, ConsumerInv,
     ContentsInv, DeliveredInOrder, Held, Ahead
<1> QED
  <2>1. ASSUME NEW items \in 1..MaxItems, ReadBegin(items) \/ PeekBegin(items) PROVE IInv'
    BY <2>1, <1>4 DEF ReadBegin, PeekBegin
  <2>2. CASE FlushBegin
    BY <2>2, <1>4 DEF FlushBegin, numelem
  <2> QED
    BY <1>1, <1>2, <1>3, <1>5, <1>6, <1>7, <2>1, <2>2 DEF Next, ProducerStep, ConsumerStep

-----------------------------------------------------------------------------

\* The invariant holds in every reachable state.
THEOREM Invariance == Spec => []IInv
<1>1. Init => IInv
  BY InitIInv
<1>2. IInv /\ [Next]_vars => IInv'
  BY NextIInv
<1> QED
  BY <1>1, <1>2, PTL DEF Spec

\* The cursors of csoundWriteCircularBuffer and csoundReadCircularBuffer never
\* leave the buffer, for every size.
THEOREM TypeCorrect == Spec => []TypeOK
<1>1. IInv => TypeOK
  BY DEF IInv
<1> QED
  BY <1>1, Invariance, PTL

\* For every size, batch and interleaving, an element that was accepted and not
\* yet released is intact in its slot: the producer never overruns the consumer.
THEOREM NeverOverwritten == Spec => []ContentsIntact
<1>1. IInv => ContentsIntact
  BY DEF IInv, ContentsInv, ContentsIntact, Held, TypeOK
<1> QED
  BY <1>1, Invariance, PTL

\* For every size, a read or a peek delivers what was written, in order.
THEOREM InOrder == Spec => []DeliveredInOrder
<1>1. IInv => DeliveredInOrder
  BY DEF IInv
<1> QED
  BY <1>1, Invariance, PTL

\* For every size, checkspace counts exactly the elements held.
THEOREM ExactSpace == Spec => []SpaceIsExact
<1>1. IInv => SpaceIsExact
  BY SpaceLemma DEF IInv, SpaceIsExact, Held, TypeOK
<1> QED
  BY <1>1, Invariance, PTL

\* For every size, producer and consumer are never inside the same slot.
THEOREM SlotsApart == Spec => []NoSlotRace
<1>1. IInv => NoSlotRace
  <2> SUFFICES ASSUME IInv, put_pc = "copy", put_left > 0, get_pc = "copy", get_left > 0
               PROVE  put_wp # get_rp
    BY DEF NoSlotRace
  <2> USE SizeAssumption
  <2>1. /\ Held \in 0..Size /\ copied \in 0..Size /\ Held + copied < Size
        /\ taken \in 0..Size /\ taken < Held
    BY DEF IInv, TypeOK, CursorInv, ProducerInv, ConsumerInv, Held
  <2>2. put_wp = Ahead(rp, Held + copied)
    BY <2>1, AheadTwice DEF IInv, TypeOK, CursorInv, ProducerInv
  <2>3. get_rp = Ahead(rp, taken)
    BY DEF IInv, ConsumerInv
  <2> QED
    BY <2>1, <2>2, <2>3, AheadLemma DEF IInv, TypeOK
<1> QED
  BY <1>1, Invariance, PTL

-----------------------------------------------------------------------------
(***************************************************************************)
(* The ring implements the bounded queue of Fifo.                          *)
(***************************************************************************)

\* The queue of consecutive numbers that holds n elements after the first r.
Numbers(r, n) == [m \in 1..n |-> r + m]

\* What the refinement mapping makes of the ring.
HeldElements == [m \in 1..ReadSpace(wp, rp) |-> buffer[Ahead(rp, m - 1)]]

\* The mapped queue is the elements held, in order.
LEMMA HeldQueue == IInv => HeldElements = Numbers(released, Held)
<1> SUFFICES ASSUME IInv PROVE HeldElements = Numbers(released, Held)
  OBVIOUS
<1>1. ReadSpace(wp, rp) = Held /\ Held \in 0..Size /\ copied \in Nat /\ released \in Nat
  BY SpaceLemma, SizeAssumption DEF IInv, CursorInv, TypeOK
<1>2. ASSUME NEW m \in 1..Held
      PROVE  buffer[Ahead(rp, m - 1)] = released + m
  <2>1. m - 1 \in 0..(Held + copied - 1) /\ released + (m - 1) + 1 = released + m
    BY <1>1
  <2> QED
    BY <2>1 DEF IInv, ContentsInv
<1> QED
  BY <1>1, <1>2 DEF Numbers, HeldElements

\* A queue of n consecutive numbers is a sequence of length n.
LEMMA NumbersSeq ==
    ASSUME NEW r \in Nat, NEW n \in Nat
    PROVE  /\ Numbers(r, n) \in Seq(Nat)
           /\ Len(Numbers(r, n)) = n
           /\ \A m \in 1..n : Numbers(r, n)[m] = r + m
BY DEF Numbers

\* A batch of k more numbers at the end is a longer queue.
LEMMA NumbersPut ==
    ASSUME NEW r \in Nat, NEW n \in Nat, NEW k \in Nat
    PROVE  Numbers(r, n) \o [m \in 1..k |-> (r + n) + m] = Numbers(r, n + k)
<1> DEFINE s == Numbers(r, n)
           t == [m \in 1..k |-> (r + n) + m]
           u == Numbers(r, n + k)
<1>1. s \in Seq(Nat) /\ Len(s) = n /\ \A m \in 1..n : s[m] = r + m
  BY NumbersSeq
<1>2. t \in Seq(Nat) /\ Len(t) = k /\ \A m \in 1..k : t[m] = (r + n) + m
  OBVIOUS
<1>3. u \in Seq(Nat) /\ Len(u) = n + k /\ \A m \in 1..(n + k) : u[m] = r + m
  BY NumbersSeq
<1> HIDE DEF s, t, u
<1> DEFINE c == s \o t
<1>4. /\ c \in Seq(Nat) /\ Len(c) = n + k
      /\ \A m \in 1..(n + k) : c[m] = IF m <= n THEN s[m] ELSE t[m - n]
  BY <1>1, <1>2, ConcatProperties
<1> HIDE DEF c
<1>5. ASSUME NEW m \in 1..(n + k) PROVE c[m] = u[m]
  <2>1. CASE m <= n
    BY <1>1, <1>3, <1>4, <2>1
  <2>2. CASE m > n
    <3>1. m - n \in 1..k /\ (r + n) + (m - n) = r + m
      BY <2>2
    <3> QED
      BY <1>2, <1>3, <1>4, <2>2, <3>1
  <2> QED
    BY <2>1, <2>2
<1>6. c = u
  BY <1>3, <1>4, <1>5, SeqEqual
<1> QED
  BY <1>6 DEF c, s, t, u

\* Dropping the first k numbers leaves the rest of the queue.
LEMMA NumbersGet ==
    ASSUME NEW r \in Nat, NEW n \in Nat, NEW k \in 0..n
    PROVE  SubSeq(Numbers(r, n), k + 1, n) = Numbers(r + k, n - k)
<1> DEFINE s == Numbers(r, n)
           u == Numbers(r + k, n - k)
<1>1. s \in Seq(Nat) /\ Len(s) = n /\ \A m \in 1..n : s[m] = r + m
  BY NumbersSeq
<1>2. u \in Seq(Nat) /\ Len(u) = n - k /\ \A m \in 1..(n - k) : u[m] = (r + k) + m
  <2>1. r + k \in Nat /\ n - k \in Nat
    OBVIOUS
  <2> QED
    BY <2>1, NumbersSeq
<1> HIDE DEF s, u
<1>3. /\ SubSeq(s, k + 1, n) \in Seq(Nat) /\ Len(SubSeq(s, k + 1, n)) = n - k
      /\ \A m \in 1..(n - k) : SubSeq(s, k + 1, n)[m] = s[k + m]
  BY <1>1
<1>4. ASSUME NEW m \in 1..(n - k) PROVE SubSeq(s, k + 1, n)[m] = u[m]
  BY <1>1, <1>2, <1>3
<1>5. SubSeq(s, k + 1, n) = u
  BY <1>2, <1>3, <1>4, SeqEqual
<1> QED
  BY <1>5 DEF s, u

\* A new ring is the empty queue.
LEMMA InitFifo == Init => Queue!Init
<1> SUFFICES ASSUME Init PROVE Queue!Init
  OBVIOUS
<1>1. IInv /\ Held = 0 /\ released = 0 /\ accepted = 0
  BY InitIInv DEF Init, Held
<1>2. Numbers(0, 0) = <<>>
  BY DEF Numbers
<1> QED
  BY <1>1, <1>2, HeldQueue DEF Queue!Init, HeldElements

\* The store of wp that publishes a batch is one Put.
LEMMA PublishPuts ==
    ASSUME IInv, HeldElements' = Numbers(released', Held'), WritePublish
    PROVE  Queue!Put \/ (HeldElements' = HeldElements /\ accepted' = accepted)
<1>1. /\ Held \in 0..Size /\ copied \in 0..Size /\ Held + copied <= Size
      /\ accepted' = accepted + copied /\ released' = released
      /\ Held' = Held + copied
      /\ accepted \in Nat /\ released \in Nat /\ released + Held = accepted
  BY SizeAssumption DEF WritePublish, IInv, TypeOK, CursorInv, ProducerInv, Held
<1>2. HeldElements = Numbers(released, Held) /\ Len(HeldElements) = Held
  BY <1>1, HeldQueue, NumbersSeq, SizeAssumption
<1>3. CASE copied = 0
  BY <1>1, <1>2, <1>3
<1>4. CASE copied # 0
  <2>1. copied \in 1..(Size - Len(HeldElements))
    BY <1>1, <1>2, <1>4, SizeAssumption
  <2>2. HeldElements' = HeldElements \o [m \in 1..copied |-> accepted + m]
    <3>1. Held \in Nat /\ copied \in Nat
      BY <1>1, SizeAssumption
    <3>2. Numbers(released, Held) \o [m \in 1..copied |-> (released + Held) + m]
            = Numbers(released, Held + copied)
      BY <1>1, <3>1, NumbersPut
    <3> QED
      BY <1>1, <1>2, <3>2
  <2> QED
    BY <1>1, <2>1, <2>2 DEF Queue!Put, HeldElements
<1> QED
  BY <1>3, <1>4

\* The store of rp that ends a read or a flush is one Get; a peek is invisible.
LEMMA EndGets ==
    ASSUME IInv, HeldElements' = Numbers(released', Held'), GetEnd
    PROVE  Queue!Get \/ (HeldElements' = HeldElements /\ accepted' = accepted)
<1>1. /\ Held \in 0..Size /\ taken \in 0..Size /\ taken <= Held
      /\ accepted' = accepted /\ accepted \in Nat /\ released \in Nat
  BY SizeAssumption DEF GetEnd, IInv, TypeOK, CursorInv, ConsumerInv, Held
<1>2. HeldElements = Numbers(released, Held) /\ Len(HeldElements) = Held
  BY <1>1, HeldQueue, NumbersSeq, SizeAssumption
<1>3. CASE get_op = "peek" \/ taken = 0
  <2>1. released' = released /\ Held' = Held
    BY <1>1, <1>3 DEF GetEnd, Held
  <2> QED
    BY <1>1, <1>2, <2>1
<1>4. CASE get_op # "peek" /\ taken # 0
  <2>1. released' = released + taken /\ Held' = Held - taken
    BY <1>1, <1>4 DEF GetEnd, Held
  <2>2. taken \in 1..Len(HeldElements)
    BY <1>1, <1>2, <1>4, SizeAssumption
  <2>3. HeldElements' = SubSeq(HeldElements, taken + 1, Len(HeldElements))
    BY <1>1, <1>2, <2>1, NumbersGet, SizeAssumption
  <2> QED
    BY <1>1, <2>2, <2>3 DEF Queue!Get, HeldElements
<1> QED
  BY <1>3, <1>4

\* Every step of the two sides is a Put, a Get or invisible to the queue: the
\* element stores of a write under way are outside the elements held.
LEMMA StepFifo == IInv /\ IInv' /\ [Next]_vars => [Queue!Next]_<<HeldElements, accepted>>
<1>0. IInv' => HeldElements' = Numbers(released', Held')
  <2>1. (IInv => HeldElements = Numbers(released, Held))'
    BY HeldQueue, PTL
  <2> QED
    BY <2>1 DEF Numbers
<1> SUFFICES ASSUME IInv, IInv', [Next]_vars
             PROVE  Queue!Next \/ (HeldElements' = HeldElements /\ accepted' = accepted)
  OBVIOUS
<1>1. HeldElements = Numbers(released, Held) /\ HeldElements' = Numbers(released', Held')
  BY HeldQueue, <1>0
<1>2. CASE WritePublish
  BY <1>1, <1>2, PublishPuts DEF Queue!Next
<1>3. CASE GetEnd
  BY <1>1, <1>3, EndGets DEF Queue!Next
<1>4. ASSUME accepted' = accepted, released' = released
      PROVE  HeldElements' = HeldElements /\ accepted' = accepted
  BY <1>1, <1>4 DEF Held
<1>5. ASSUME NEW items \in 1..MaxItems, WriteBegin(items) \/ ReadBegin(items) \/ PeekBegin(items)
      PROVE  accepted' = accepted /\ released' = released
  BY <1>5 DEF WriteBegin, ReadBegin, PeekBegin, GetBegin
<1>6. CASE FlushBegin \/ WriteCopy \/ GetCopy \/ UNCHANGED vars
  BY <1>6, <1>4 DEF FlushBegin, GetBegin, WriteCopy, GetCopy, vars
<1> QED
  BY <1>2, <1>3, <1>4, <1>5, <1>6 DEF Next, ProducerStep, ConsumerStep

\* For every size, batch and interleaving, what the two users of the ring see is
\* the bounded queue of Fifo: batches appear whole and in order, prefixes leave,
\* and it never holds more than Size elements.
THEOREM RingImplementsFifo == Spec => ImplementsFifo
<1>1. Init => Queue!Init
  BY InitFifo
<1>2. IInv /\ IInv' /\ [Next]_vars => [Queue!Next]_<<HeldElements, accepted>>
  BY StepFifo
<1>3. IInv /\ IInv' /\ [Next]_vars
        => [Queue!Next]_<<[m \in 1..ReadSpace(wp, rp) |-> buffer[Ahead(rp, m - 1)]], accepted>>
  BY <1>2 DEF HeldElements
<1> QED
  BY <1>1, <1>3, Invariance, PTL DEF Spec, ImplementsFifo, Queue!Spec

=============================================================================
