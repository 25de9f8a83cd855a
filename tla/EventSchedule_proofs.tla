------------------------ MODULE EventSchedule_proofs ------------------------
(***************************************************************************)
(* Proofs about EventSchedule for every ksmps, every score and every       *)
(* number of realtime events, with and without the event thread.           *)
(*                                                                         *)
(* Two arguments carry the rest.  The wait that sense_events rounds for    *)
(* each event leads to the boundary next to that event, because it is      *)
(* counted from a boundary (WaitAhead); so every score note is dispatched  *)
(* at its own boundary, however many waits came before.  And without       *)
(* realtime mode the ends of the notes are boundaries too: the off-time    *)
(* list is in their order and never holds one that has passed, so          *)
(* time_expire, which stops at the first note that is not due, ends each   *)
(* in its period.  In realtime mode ends are no boundaries, and the margin *)
(* of half a period of time_expire costs a note one period at the most.    *)
(***************************************************************************)
EXTENDS EventSchedule, SequenceTheorems, WellFoundedInduction, TLAPS

-----------------------------------------------------------------------------
(* Arithmetic: boundaries of control periods, and waits.                   *)

\* The quotient of a division, of negative numbers too.
LEMMA DivRange ==
    ASSUME NEW a \in Int, NEW d \in Nat \ {0}
    PROVE  a \div d \in Int /\ d * (a \div d) <= a /\ a < d * (a \div d) + d
OBVIOUS

\* A multiple that is less than the next one is at most this one.
LEMMA MulLess ==
    ASSUME NEW d \in Nat \ {0}, NEW a \in Int, NEW b \in Int, d * a < d * b + d
    PROVE  a <= b
<1>1. SUFFICES ASSUME a >= b + 1 PROVE FALSE
  OBVIOUS
<1>2. PICK c \in Nat : a = b + 1 + c
  BY <1>1
<1>3. d * a = d * b + d + d * c /\ d * c >= 0
  BY <1>2
<1> QED BY <1>3

\* The boundary next to a time is at most half a period from it.
LEMMA BoundaryRange ==
    ASSUME NEW t \in Int
    PROVE  /\ Boundary(t) \in Int
           /\ 2 * (ksmps * Boundary(t)) <= 2 * t + ksmps
           /\ 2 * t < 2 * (ksmps * Boundary(t)) + ksmps
<1>1. 2 * ksmps \in Nat \ {0} /\ 2 * t + ksmps \in Int
  BY TimesAssumption
<1>2. (2 * ksmps) * Boundary(t) <= 2 * t + ksmps
      /\ 2 * t + ksmps < (2 * ksmps) * Boundary(t) + 2 * ksmps /\ Boundary(t) \in Int
  BY <1>1, DivRange DEF Boundary
<1>3. (2 * ksmps) * Boundary(t) = 2 * (ksmps * Boundary(t))
  BY <1>2, TimesAssumption
<1> QED BY <1>2, <1>3, TimesAssumption

\* ... and there is only one that is.
LEMMA BoundaryIs ==
    ASSUME NEW t \in Int, NEW m \in Int,
           2 * (ksmps * m) <= 2 * t + ksmps, 2 * t < 2 * (ksmps * m) + ksmps
    PROVE  Boundary(t) = m
<1>1. ksmps \in Nat \ {0}
  BY TimesAssumption
<1>2. Boundary(t) \in Int /\ 2 * (ksmps * Boundary(t)) <= 2 * t + ksmps
      /\ 2 * t < 2 * (ksmps * Boundary(t)) + ksmps
  BY BoundaryRange
<1>3. ksmps * m \in Int /\ ksmps * Boundary(t) \in Int
  BY <1>1, <1>2
<1>4. ksmps * m < ksmps * Boundary(t) + ksmps
  BY <1>1, <1>2, <1>3
<1>5. ksmps * Boundary(t) < ksmps * m + ksmps
  BY <1>1, <1>2, <1>3
<1>6. m <= Boundary(t) /\ Boundary(t) <= m
  BY <1>1, <1>2, <1>4, <1>5, MulLess
<1> QED BY <1>2, <1>6

\* A later time has no earlier boundary.
LEMMA BoundaryMonotone ==
    ASSUME NEW s \in Int, NEW t \in Int, s <= t
    PROVE  Boundary(s) <= Boundary(t)
<1>1. ksmps \in Nat \ {0}
  BY TimesAssumption
<1>2. /\ Boundary(s) \in Int /\ 2 * (ksmps * Boundary(s)) <= 2 * s + ksmps
      /\ Boundary(t) \in Int /\ 2 * t < 2 * (ksmps * Boundary(t)) + ksmps
  BY BoundaryRange
<1>3. ksmps * Boundary(s) \in Int /\ ksmps * Boundary(t) \in Int
  BY <1>1, <1>2
<1>4. ksmps * Boundary(s) < ksmps * Boundary(t) + ksmps
  BY <1>1, <1>2, <1>3
<1> QED BY <1>1, <1>2, <1>4, MulLess

\* The start of a period is its own boundary.
LEMMA BoundaryOfPeriod ==
    ASSUME NEW k \in Int
    PROVE  Boundary(ksmps * k) = k
<1>1. ksmps \in Nat \ {0} /\ ksmps * k \in Int
  BY TimesAssumption
<1> QED BY <1>1, BoundaryIs

\* The wait for a time that has not passed leads to its boundary; ...
LEMMA WaitAhead ==
    ASSUME NEW k \in Int, NEW t \in Int, ksmps * k <= t
    PROVE  RNDINT64(t - ksmps * k, ksmps) = Boundary(t) - k
<1>1. ksmps \in Nat \ {0} /\ ksmps * k \in Int
  BY TimesAssumption
<1>2. RNDINT64(t - ksmps * k, ksmps) = Boundary(t - ksmps * k)
  BY <1>1 DEF RNDINT64, Boundary
<1> DEFINE m == Boundary(t)
<1>3. m \in Int /\ 2 * (ksmps * m) <= 2 * t + ksmps /\ 2 * t < 2 * (ksmps * m) + ksmps
  BY BoundaryRange
<1> HIDE DEF m
<1>4. m - k \in Int /\ t - ksmps * k \in Int /\ ksmps * (m - k) = ksmps * m - ksmps * k
      /\ ksmps * m \in Int
  BY <1>1, <1>3
<1>5. Boundary(t - ksmps * k) = m - k
  BY <1>1, <1>3, <1>4, BoundaryIs
<1> QED BY <1>2, <1>5 DEF m

\* ... for a time that has passed there is no wait, and its boundary has passed too.
LEMMA WaitBehind ==
    ASSUME NEW k \in Int, NEW t \in Int, t < ksmps * k
    PROVE  /\ RNDINT64(t - ksmps * k, ksmps) \in Int /\ RNDINT64(t - ksmps * k, ksmps) <= 0
           /\ Boundary(t) <= k
<1>1. ksmps \in Nat \ {0} /\ ksmps * k \in Int
  BY TimesAssumption
<1>2. Boundary(t) <= k
  BY <1>1, BoundaryMonotone, BoundaryOfPeriod
<1> DEFINE d == ksmps * k - t
<1>3. d \in Nat \ {0}
  BY <1>1
<1>4. RNDINT64(t - ksmps * k, ksmps) = -Boundary(d)
  BY <1>1 DEF RNDINT64, Boundary
<1>5. Boundary(d) \in Int /\ Boundary(0) = 0 /\ Boundary(0) <= Boundary(d)
  <2>1. 0 = ksmps * 0
    BY <1>1
  <2> QED BY <1>3, <2>1, BoundaryRange, BoundaryMonotone, BoundaryOfPeriod
<1> QED BY <1>2, <1>4, <1>5

\* What is on a list
Entries(l) == {l[i] : i \in DOMAIN l}
\* The ends of notes are numbers.
HaveEnd(S, notes) == \A m \in S : notes[m].off \in Int
\* A list in the order of the ends
Sorted(l, notes) == \A i, j \in DOMAIN l : i < j => notes[l[i]].off <= notes[l[j]].off

\* A set of naturals has a least element.
LEMMA LeastOf ==
    ASSUME NEW T \in SUBSET Nat, T # {}
    PROVE  Min(T) \in T /\ \A m \in T : Min(T) <= m
<1>. DEFINE R == {ss \in Nat \X Nat : ss[1] < ss[2]}
<1>1. IsWellFoundedOn(R, Nat)
  BY NatLessThanWellFounded, Zenon DEF OpToRel
<1>2. PICK n \in T : \A m \in T : <<m, n>> \notin R
  BY <1>1, WFMin, Zenon
<1>3. \A m \in T : n <= m
  <2>. TAKE m \in T
  <2>1. m \in Nat /\ n \in Nat
    OBVIOUS
  <2>2. m < n => <<m, n>> \in R
    BY <2>1, Zenon
  <2>. QED
    BY <1>2, <2>1, <2>2
<1>. QED
  BY <1>2, <1>3, Zenon DEF Min

\* The first of some places.
LEMMA FirstPlace ==
    ASSUME NEW S, NEW l \in Seq(S), NEW P \in SUBSET DOMAIN l
    PROVE  /\ First(l, P) \in 1..(Len(l) + 1)
           /\ First(l, P) <= Len(l) => First(l, P) \in P
           /\ \A i \in 1..(First(l, P) - 1) : i \in DOMAIN l /\ i \notin P
<1>1. Len(l) \in Nat /\ DOMAIN l = 1..Len(l)
  OBVIOUS
<1>2. CASE P = {}
  BY <1>1, <1>2 DEF First
<1>3. CASE P # {}
  <2>1. P \in SUBSET Nat
    BY <1>1
  <2>2. First(l, P) \in P /\ \A m \in P : First(l, P) <= m
    BY <1>3, <2>1, LeastOf DEF First
  <2> QED BY <1>1, <2>1, <2>2
<1> QED BY <1>2, <1>3

\* An entry is put at a place of a list.
LEMMA Inserted ==
    ASSUME NEW S, NEW l \in Seq(S), NEW n \in S, NEW p \in 1..(Len(l) + 1)
    PROVE  /\ InsertAt(l, p, n) \in Seq(S)
           /\ Len(InsertAt(l, p, n)) = Len(l) + 1
           /\ \A i \in 1..(Len(l) + 1) :
                InsertAt(l, p, n)[i] = IF i < p THEN l[i] ELSE IF i = p THEN n ELSE l[i - 1]
<1> DEFINE a == SubSeq(l, 1, p - 1)
           b == SubSeq(l, p, Len(l))
<1>1. Len(l) \in Nat
  OBVIOUS
<1>2. a \in Seq(S) /\ Len(a) = p - 1 /\ \A i \in 1..(p - 1) : a[i] = l[i]
  BY <1>1
<1>3. b \in Seq(S) /\ Len(b) = Len(l) - p + 1 /\ \A i \in 1..(Len(l) - p + 1) : b[i] = l[p + i - 1]
  BY <1>1
<1> HIDE DEF a, b
<1>4. a \o <<n>> \in Seq(S) /\ Len(a \o <<n>>) = p
      /\ \A i \in 1..p : (a \o <<n>>)[i] = IF i < p THEN l[i] ELSE n
  BY <1>2
<1> DEFINE c == a \o <<n>>
<1> HIDE DEF c
<1>5. c \in Seq(S) /\ Len(c) = p /\ \A i \in 1..p : c[i] = IF i < p THEN l[i] ELSE n
  BY <1>4 DEF c
<1>6. /\ c \o b \in Seq(S) /\ Len(c \o b) = Len(l) + 1
      /\ \A i \in 1..(Len(l) + 1) : (c \o b)[i] = IF i <= p THEN c[i] ELSE b[i - p]
  BY <1>1, <1>3, <1>5
<1>7. \A i \in 1..(Len(l) + 1) : (c \o b)[i] = IF i < p THEN l[i] ELSE IF i = p THEN n ELSE l[i - 1]
  <2> TAKE i \in 1..(Len(l) + 1)
  <2>1. CASE i <= p
    BY <1>5, <1>6, <2>1
  <2>2. CASE i > p
    <3>1. i - p \in 1..(Len(l) - p + 1) /\ p + (i - p) - 1 = i - 1
      BY <1>1, <2>2
    <3> QED BY <1>3, <1>6, <2>2, <3>1
  <2>3. i <= p \/ i > p
    BY <1>1
  <2> QED BY <2>1, <2>2, <2>3, Zenon
<1> QED BY <1>6, <1>7 DEF InsertAt, a, b, c

\* sched_off_time adds the note, and keeps the list sorted.
LEMMA InsortFacts ==
    ASSUME NEW S, NEW l \in Seq(S), NEW n \in S, NEW notes,
           HaveEnd(S, notes)
    PROVE  /\ Insort(l, n, notes) \in Seq(S) /\ Insort(l, n, notes) # <<>>
           /\ Entries(Insort(l, n, notes)) = Entries(l) \cup {n}
           /\ Sorted(l, notes) => Sorted(Insort(l, n, notes), notes)
           /\ (\A i \in DOMAIN l : notes[l[i]].off > notes[n].off) => Insort(l, n, notes)[1] = n
<1> DEFINE P == {i \in DOMAIN l : notes[l[i]].off > notes[n].off}
           p == First(l, P)
           r == Insort(l, n, notes)
<1>1. Len(l) \in Nat /\ DOMAIN l = 1..Len(l) /\ \A i \in 1..Len(l) : l[i] \in S
  OBVIOUS
<1>0. \A m \in S : notes[m].off \in Int
  BY DEF HaveEnd
<1>2. /\ p \in 1..(Len(l) + 1)
      /\ p <= Len(l) => p \in P
      /\ \A i \in 1..(p - 1) : i \in DOMAIN l /\ i \notin P
  BY FirstPlace
<1>3. r = InsertAt(l, p, n)
  BY DEF Insort
<1> HIDE DEF p, r
<1>4. /\ r \in Seq(S) /\ Len(r) = Len(l) + 1
      /\ \A i \in 1..(Len(l) + 1) : r[i] = IF i < p THEN l[i] ELSE IF i = p THEN n ELSE l[i - 1]
  <2>1. /\ InsertAt(l, p, n) \in Seq(S) /\ Len(InsertAt(l, p, n)) = Len(l) + 1
        /\ \A i \in 1..(Len(l) + 1) :
             InsertAt(l, p, n)[i] = IF i < p THEN l[i] ELSE IF i = p THEN n ELSE l[i - 1]
    BY <1>2, Inserted
  <2> QED BY <1>3, <2>1
<1>5. Entries(r) = Entries(l) \cup {n}
  <2>1. ASSUME NEW i \in 1..(Len(l) + 1) PROVE r[i] \in Entries(l) \cup {n}
    <3>1. i < p \/ i = p \/ (i > p /\ i - 1 \in 1..Len(l))
      BY <1>1, <1>2
    <3>2. \A k \in 1..Len(l) : l[k] \in Entries(l)
      BY <1>1 DEF Entries
    <3>3. CASE i < p
      BY <1>1, <1>2, <1>4, <3>2, <3>3
    <3> QED BY <1>1, <1>2, <1>4, <3>1, <3>2, <3>3
  <2>2. n \in Entries(r)
    BY <1>1, <1>2, <1>4 DEF Entries
  <2>3. ASSUME NEW i \in 1..Len(l) PROVE l[i] \in Entries(r)
    <3>1. CASE i < p
      BY <1>1, <1>2, <1>4, <3>1 DEF Entries
    <3>2. CASE i >= p
      <4>1. i + 1 \in 1..(Len(l) + 1) /\ r[i + 1] = l[i]
        BY <1>1, <1>2, <1>4, <3>2
      <4> QED BY <1>1, <1>4, <4>1 DEF Entries
    <3> QED BY <1>1, <1>2, <3>1, <3>2
  <2> QED BY <1>1, <1>4, <2>1, <2>2, <2>3 DEF Entries
<1>6. ASSUME Sorted(l, notes) PROVE Sorted(r, notes)
  <2> SUFFICES ASSUME NEW i \in 1..(Len(l) + 1), NEW j \in 1..(Len(l) + 1), i < j
               PROVE notes[r[i]].off <= notes[r[j]].off
    BY <1>1, <1>4 DEF Sorted
  <2>0. \A a, b \in 1..Len(l) : a <= b => notes[l[a]].off <= notes[l[b]].off
    <3> TAKE a, b \in 1..Len(l)
    <3>1. notes[l[a]].off \in Int
      BY <1>0, <1>1
    <3> QED BY <1>1, <1>6, <3>1 DEF Sorted
  <2>1. CASE j < p
    BY <1>1, <1>2, <1>4, <2>0, <2>1
  <2>2. CASE j = p
    <3>1. i \in DOMAIN l /\ i \notin P /\ r[i] = l[i] /\ r[j] = n
      BY <1>1, <1>2, <1>4, <2>2
    <3>2. notes[n].off \in Int /\ notes[l[i]].off \in Int
      BY <1>0, <1>1, <3>1
    <3> QED BY <3>1, <3>2
  <2>3. CASE j > p
    <3>1. j - 1 \in 1..Len(l) /\ r[j] = l[j - 1] /\ p <= Len(l) /\ p <= j - 1
      BY <1>1, <1>2, <1>4, <2>3
    <3>2. notes[n].off \in Int /\ notes[l[j - 1]].off \in Int /\ notes[l[p]].off \in Int
      BY <1>0, <1>1, <1>2, <3>1
    <3>3. notes[n].off < notes[l[j - 1]].off
      <4>1. notes[l[p]].off > notes[n].off /\ p \in 1..Len(l)
        BY <1>1, <1>2, <3>1
      <4>2. notes[l[p]].off <= notes[l[j - 1]].off
        BY <2>0, <3>1, <4>1
      <4> QED BY <3>2, <4>1, <4>2
    <3>4. CASE i < p
      BY <1>1, <1>2, <1>4, <2>0, <3>1, <3>4
    <3>5. CASE i = p
      BY <1>1, <1>2, <1>4, <3>1, <3>2, <3>3, <3>5
    <3>6. CASE i > p
      <4>1. i - 1 \in 1..Len(l) /\ r[i] = l[i - 1] /\ i - 1 <= j - 1
        BY <1>1, <1>2, <1>4, <3>6
      <4> QED BY <2>0, <3>1, <4>1
    <3> QED BY <1>1, <1>2, <3>4, <3>5, <3>6
  <2> QED BY <1>1, <1>2, <2>1, <2>2, <2>3
<1>7. ASSUME \A i \in DOMAIN l : notes[l[i]].off > notes[n].off PROVE r[1] = n
  <2>1. p = 1
    <3>1. p - 1 >= 1 => 1 \in 1..(p - 1)
      BY <1>2
    <3> QED BY <1>1, <1>2, <1>7, <3>1
  <2> QED BY <1>1, <1>4, <2>1
<1>8. r # <<>>
  BY <1>1, <1>4
<1> QED BY <1>4, <1>5, <1>6, <1>7, <1>8 DEF r

\* What time_expire leaves of a list before it schedules released notes anew.
Rest(l, notes) == SubSeq(l, Len(Due(l, notes)) + 1, Len(l))

\* The notes that are due are the first ones up to one that is not.
LEMMA DueFacts ==
    ASSUME NEW S, NEW l \in Seq(S), NEW notes
    PROVE  /\ Due(l, notes) \in Seq(S) /\ Len(Due(l, notes)) \in Nat /\ Len(Due(l, notes)) <= Len(l)
           /\ \A i \in 1..Len(Due(l, notes)) : Due(l, notes)[i] = l[i]
           /\ \A n \in Entries(Due(l, notes)) : Expired(notes[n].off) /\ n \in Entries(l)
           /\ Rest(l, notes) \in Seq(S) /\ Len(Rest(l, notes)) = Len(l) - Len(Due(l, notes))
           /\ \A i \in 1..Len(Rest(l, notes)) : Rest(l, notes)[i] = l[Len(Due(l, notes)) + i]
           /\ Entries(l) = Entries(Due(l, notes)) \cup Entries(Rest(l, notes))
           /\ Rest(l, notes) # <<>> => ~Expired(notes[Rest(l, notes)[1]].off)
<1> DEFINE P == {i \in DOMAIN l : ~Expired(notes[l[i]].off)}
           p == First(l, P)
           d == Due(l, notes)
           rest == Rest(l, notes)
           N == Len(Due(l, notes))
<1>1. Len(l) \in Nat /\ DOMAIN l = 1..Len(l) /\ \A i \in 1..Len(l) : l[i] \in S
  OBVIOUS
<1>2. /\ p \in 1..(Len(l) + 1)
      /\ p <= Len(l) => p \in P
      /\ \A i \in 1..(p - 1) : i \in DOMAIN l /\ i \notin P
  BY FirstPlace
<1>3. d = SubSeq(l, 1, p - 1)
  BY DEF Due
<1> HIDE DEF p, d
<1>4. d \in Seq(S) /\ Len(d) = p - 1 /\ \A i \in 1..(p - 1) : d[i] = l[i]
  BY <1>1, <1>2, <1>3
<1>5. N = p - 1 /\ N \in Nat /\ N <= Len(l)
  BY <1>1, <1>2, <1>4 DEF d
<1>6. rest \in Seq(S) /\ Len(rest) = Len(l) - N /\ \A i \in 1..Len(rest) : rest[i] = l[N + i]
  BY <1>1, <1>5 DEF d, Rest
<1> HIDE DEF rest, N
<1>7. \A n \in Entries(d) : Expired(notes[n].off) /\ n \in Entries(l)
  <2> SUFFICES ASSUME NEW i \in 1..(p - 1) PROVE Expired(notes[d[i]].off) /\ d[i] \in Entries(l)
    BY <1>4 DEF Entries
  <2>1. i \in DOMAIN l /\ i \notin P /\ d[i] = l[i]
    BY <1>2, <1>4
  <2> QED BY <2>1 DEF Entries
<1>8. Entries(l) = Entries(d) \cup Entries(rest)
  <2>1. ASSUME NEW i \in 1..Len(l) PROVE l[i] \in Entries(d) \cup Entries(rest)
    <3>1. CASE i <= N
      BY <1>1, <1>4, <1>5, <3>1 DEF Entries
    <3>2. CASE i > N
      <4>1. i - N \in 1..Len(rest) /\ N + (i - N) = i
        BY <1>1, <1>5, <1>6, <3>2
      <4>2. rest[i - N] = l[i] /\ i - N \in DOMAIN rest
        BY <1>6, <4>1
      <4> QED BY <4>2 DEF Entries
    <3> QED BY <1>5, <3>1, <3>2
  <2>2. ASSUME NEW i \in 1..Len(rest) PROVE rest[i] \in Entries(l)
    BY <1>1, <1>5, <1>6 DEF Entries
  <2>3. Entries(l) \subseteq Entries(d) \cup Entries(rest)
    BY <1>1, <2>1 DEF Entries
  <2>4. Entries(rest) \subseteq Entries(l)
    BY <1>6, <2>2 DEF Entries
  <2> QED BY <1>7, <2>3, <2>4
<1>9. rest # <<>> => ~Expired(notes[rest[1]].off)
  <2> SUFFICES ASSUME rest # <<>> PROVE ~Expired(notes[rest[1]].off)
    OBVIOUS
  <2>1. 1 \in 1..Len(rest) /\ p \in 1..Len(l) /\ rest[1] = l[p]
    BY <1>1, <1>2, <1>5, <1>6
  <2> QED BY <1>2, <2>1
<1> QED BY <1>4, <1>5, <1>6, <1>7, <1>8, <1>9 DEF d, rest, N

\* A set of naturals with a bound has a greatest element.
LEMMA GreatestOf ==
    ASSUME NEW n \in Nat, NEW s \in SUBSET (1..n), s # {}
    PROVE  Max(s) \in s /\ \A x \in s : Max(s) >= x
<1> DEFINE T == {x \in Nat : n - x \in s}
<1>1. \A x \in s : n - x \in T /\ n - (n - x) = x
  OBVIOUS
<1>2. T \in SUBSET Nat /\ T # {}
  BY <1>1
<1>3. Min(T) \in T /\ \A m \in T : Min(T) <= m
  BY <1>2, LeastOf
<1>4. n - Min(T) \in s /\ \A x \in s : n - Min(T) >= x
  <2>1. \A x \in s : Min(T) <= n - x
    BY <1>1, <1>3
  <2> QED BY <1>3, <2>1
<1> QED BY <1>4, Zenon DEF Max

\* A step of the loop of time_expire.
Again(rest, n, notes, expired) == IF Releases(notes, n) THEN Insort(rest, n, expired) ELSE rest

\* F is the recursion of FoldLeft on the sets of places up to n.
Folds(base, seq, notes, expired, n, F) ==
    F = [s \in SUBSET (1..n) |->
            IF s = {} THEN base ELSE Again(F[s \ {Max(s)}], seq[Max(s)], notes, expired)]

\* The recursion has a value at every length.
LEMMA FoldExists ==
    ASSUME NEW base, NEW seq, NEW notes, NEW expired, NEW n \in Nat
    PROVE  \E F : Folds(base, seq, notes, expired, n, F)
<1> DEFINE Rec(F, n0) == Folds(base, seq, notes, expired, n0, F)
           T == {m \in Nat : ~\E F : Rec(F, m)}
<1> SUFFICES ASSUME T # {} PROVE FALSE
  OBVIOUS
<1> DEFINE m == Min(T)
<1>1. m \in T /\ \A l \in T : m <= l
  BY LeastOf
<1>2. m # 0
  <2>1. Rec([s \in SUBSET (1..0) |-> base], 0)
    <3>1. \A s \in SUBSET (1..0) : s = {}
      OBVIOUS
    <3> QED BY <3>1 DEF Folds
  <2> QED BY <1>1, <2>1
<1> HIDE DEF m
<1>3. m \in Nat /\ m - 1 \in Nat /\ m - 1 \notin T
  BY <1>1, <1>2
<1>4. PICK F : Rec(F, m - 1)
  BY <1>3
<1> DEFINE Below(s) == s \ {m}
           Val(s) == IF m \in s THEN Again(F[Below(s)], seq[m], notes, expired) ELSE F[s]
           G == [s \in SUBSET (1..m) |-> Val(s)]
<1>5. \A s \in SUBSET (1..(m - 1)) :
         F[s] = IF s = {} THEN base ELSE Again(F[s \ {Max(s)}], seq[Max(s)], notes, expired)
  BY <1>4 DEF Folds
<1>6. ASSUME NEW s \in SUBSET (1..m)
      PROVE  G[s] = IF s = {} THEN base ELSE Again(G[s \ {Max(s)}], seq[Max(s)], notes, expired)
  <2>1. CASE m \in s
    <3>1. Max(s) = m
      <4>1. Max(s) \in s /\ Max(s) >= m
        BY <1>3, <2>1, GreatestOf
      <4>2. Max(s) \in 1..m
        BY <4>1
      <4> QED BY <1>3, <4>1, <4>2
    <3>2. s \ {m} \in SUBSET (1..m) /\ m \notin s \ {m}
      OBVIOUS
    <3>3. G[s \ {m}] = F[s \ {m}]
      BY <3>2
    <3> QED BY <2>1, <3>1, <3>3
  <2>2. CASE m \notin s
    <3>1. s \in SUBSET (1..(m - 1))
      BY <1>3, <2>2
    <3>2. G[s] = F[s]
      BY <2>2
    <3>3. CASE s = {}
      BY <1>5, <3>1, <3>2, <3>3
    <3>4. CASE s # {}
      <4>1. s \ {Max(s)} \in SUBSET (1..m) /\ m \notin s \ {Max(s)}
        BY <2>2
      <4>2. G[s \ {Max(s)}] = F[s \ {Max(s)}]
        BY <4>1
      <4> QED BY <1>5, <3>1, <3>2, <3>4, <4>2
    <3> QED BY <3>3, <3>4
  <2> QED BY <2>1, <2>2
<1>7. Rec(G, m)
  <2>1. G = [s \in SUBSET (1..m) |-> G[s]]
    OBVIOUS
  <2> HIDE DEF G
  <2> QED BY <1>6, <2>1 DEF Folds
<1> QED BY <1>1, <1>7

\* F goes through the notes of seq in their order, from base on.
Steps(F, base, seq, notes, expired) ==
    F[0] = base /\ \A k \in 0..(Len(seq) - 1) : F[k + 1] = Again(F[k], seq[k + 1], notes, expired)

\* What FoldLeft computes.
FoldOf(base, seq, notes, expired) ==
    (CHOOSE F : Folds(base, seq, notes, expired, Len(seq), F))[DOMAIN seq]

\* FoldLeft goes through the notes in their order.
LEMMA FoldSteps ==
    ASSUME NEW base, NEW S, NEW seq \in Seq(S), NEW notes, NEW expired
    PROVE  \E F : Steps(F, base, seq, notes, expired) /\ FoldOf(base, seq, notes, expired) = F[Len(seq)]
<1> DEFINE L == Len(seq)
           h == CHOOSE F : Folds(base, seq, notes, expired, L, F)
           F == [k \in 0..L |-> h[1..k]]
<1>1. L \in Nat /\ DOMAIN seq = 1..L
  OBVIOUS
<1> HIDE DEF L
<1>2. FoldOf(base, seq, notes, expired) = h[1..L]
  BY <1>1 DEF L, FoldOf
<1>3. Folds(base, seq, notes, expired, L, h)
  BY <1>1, FoldExists
<1> HIDE DEF h
<1>4. \A s \in SUBSET (1..L) :
         h[s] = IF s = {} THEN base ELSE Again(h[s \ {Max(s)}], seq[Max(s)], notes, expired)
  BY <1>3 DEF Folds
<1>5. F[0] = base
  <2>1. 1..0 = {}
    OBVIOUS
  <2>2. {} \in SUBSET (1..L)
    OBVIOUS
  <2>3. h[{}] = base
    BY <1>4, <2>2, Zenon
  <2>4. 0 \in 0..L
    BY <1>1
  <2>5. F[0] = h[1..0]
    BY <2>4, Zenon
  <2> QED BY <2>1, <2>3, <2>5
<1>6. ASSUME NEW k \in 0..(L - 1) PROVE F[k + 1] = Again(F[k], seq[k + 1], notes, expired)
  <2> DEFINE s == 1..(k + 1)
  <2>1. s \in SUBSET (1..L) /\ s # {} /\ k + 1 \in s /\ s \ {k + 1} = 1..k
    BY <1>1
  <2>2. Max(s) = k + 1
    <3>1. Max(s) \in s /\ Max(s) >= k + 1
      BY <1>1, <2>1, GreatestOf
    <3> QED BY <3>1
  <2>3. F[k + 1] = h[s] /\ F[k] = h[1..k]
    BY <1>1
  <2> HIDE DEF s
  <2>4. h[s] = Again(h[s \ {Max(s)}], seq[Max(s)], notes, expired)
    BY <1>4, <2>1
  <2> QED BY <2>1, <2>2, <2>3, <2>4
<1>7. F[L] = h[1..L]
  BY <1>1
<1> HIDE DEF F
<1>8. Steps(F, base, seq, notes, expired)
  BY <1>5, <1>6 DEF Steps, L
<1> QED BY <1>2, <1>7, <1>8 DEF L

\* The notes of a list that enter their release stage.
Released(seq, notes) == {n \in Entries(seq) : Releases(notes, n)}

\* What the fold adds to the list, which stays sorted.
LEMMA FoldAdds ==
    ASSUME NEW S, NEW base \in Seq(S), NEW seq \in Seq(S), NEW notes, NEW expired,
           HaveEnd(S, expired),
           NEW F, Steps(F, base, seq, notes, expired)
    PROVE  /\ F[Len(seq)] \in Seq(S)
           /\ Entries(F[Len(seq)]) = Entries(base) \cup Released(seq, notes)
           /\ Sorted(base, expired) => Sorted(F[Len(seq)], expired)
<1> DEFINE L == Len(seq)
           Added(k) == {n \in S : Releases(notes, n) /\ \E i \in 1..k : seq[i] = n}
           Good(l, k) == /\ l \in Seq(S) /\ Entries(l) = Entries(base) \cup Added(k)
                         /\ Sorted(base, expired) => Sorted(l, expired)
<1>1. L \in Nat /\ DOMAIN seq = 1..L /\ \A i \in 1..L : seq[i] \in S
  OBVIOUS
<1>2. /\ F[0] = base
      /\ \A k \in 0..(L - 1) : F[k + 1] = Again(F[k], seq[k + 1], notes, expired)
  BY DEF Steps
<1> HIDE DEF L
<1> DEFINE T == {k \in 0..L : ~Good(F[k], k)}
<1>3. T = {}
  <2> SUFFICES ASSUME T # {} PROVE FALSE
    OBVIOUS
  <2> DEFINE m == Min(T)
  <2>1. m \in T /\ \A k \in T : m <= k
    <3>1. T \in SUBSET Nat
      BY <1>1
    <3> QED BY <3>1, LeastOf
  <2> HIDE DEF m
  <2>2. m # 0
    <3>1. Added(0) = {}
      OBVIOUS
    <3> QED BY <1>2, <2>1, <3>1
  <2>3. m - 1 \in 0..(L - 1) /\ m - 1 \notin T /\ m \in 1..L /\ m - 1 + 1 = m
    <3>1. m \in 0..L
      BY <2>1
    <3>2. m - 1 \notin T
      <4>1. m - 1 \in T => m <= m - 1
        BY <2>1
      <4> QED BY <1>1, <3>1, <4>1
    <3> QED BY <1>1, <2>2, <3>1, <3>2
  <2>4. Good(F[m - 1], m - 1) /\ F[m] = Again(F[m - 1], seq[m], notes, expired)
    <3>1. m - 1 \in 0..L
      BY <1>1, <2>3
    <3>2. Good(F[m - 1], m - 1)
      <4> HIDE DEF Good
      <4> QED BY <2>3, <3>1
    <3>3. F[m - 1 + 1] = Again(F[m - 1], seq[m - 1 + 1], notes, expired)
      BY <1>2, <2>3
    <3> QED BY <2>3, <3>2, <3>3
  <2> DEFINE l == F[m - 1]
             n == seq[m]
  <2>5. n \in S /\ Added(m) = Added(m - 1) \cup (IF Releases(notes, n) THEN {n} ELSE {})
    BY <1>1, <2>3
  <2>6. CASE Releases(notes, n)
    <3>1. F[m] = Insort(l, n, expired)
      BY <2>4, <2>6 DEF Again
    <3>2. /\ Insort(l, n, expired) \in Seq(S)
          /\ Entries(Insort(l, n, expired)) = Entries(l) \cup {n}
          /\ Sorted(l, expired) => Sorted(Insort(l, n, expired), expired)
      <4>1. l \in Seq(S) /\ n \in S
        BY <2>4, <2>5
      <4> HIDE DEF l, n
      <4> QED BY <4>1, InsortFacts
    <3> HIDE DEF Added
    <3>3. Good(F[m], m)
      BY <2>4, <2>5, <2>6, <3>1, <3>2
    <3> QED BY <2>1, <3>3
  <2>7. CASE ~Releases(notes, n)
    <3>1. F[m] = l
      BY <2>4, <2>7 DEF Again
    <3> HIDE DEF Added
    <3>2. Good(F[m], m)
      BY <2>4, <2>5, <2>7, <3>1
    <3> QED BY <2>1, <3>2
  <2> QED BY <2>6, <2>7
<1>4. Good(F[L], L)
  <2>1. L \in 0..L /\ L \notin T
    BY <1>1, <1>3
  <2> QED BY <1>2, <2>1
<1>5. Added(L) = Released(seq, notes)
  BY <1>1 DEF Entries, Released
<1> HIDE DEF Added
<1> QED BY <1>4, <1>5 DEF L

\* What FoldLeft makes of the list.
LEMMA FoldFacts ==
    ASSUME NEW S, NEW base \in Seq(S), NEW seq \in Seq(S), NEW notes, NEW expired,
           HaveEnd(S, expired)
    PROVE  /\ FoldOf(base, seq, notes, expired) \in Seq(S)
           /\ Entries(FoldOf(base, seq, notes, expired)) = Entries(base) \cup Released(seq, notes)
           /\ Sorted(base, expired) => Sorted(FoldOf(base, seq, notes, expired), expired)
<1>1. PICK F : Steps(F, base, seq, notes, expired) /\ FoldOf(base, seq, notes, expired) = F[Len(seq)]
  BY FoldSteps
<1>2. /\ F[Len(seq)] \in Seq(S)
      /\ Entries(F[Len(seq)]) = Entries(base) \cup Released(seq, notes)
      /\ Sorted(base, expired) => Sorted(F[Len(seq)], expired)
  BY <1>1, FoldAdds
<1> QED BY <1>1, <1>2

\* What time_expire leaves on the list: the notes that are not due, and those that
\* it has released.
LEMMA ExpiredListFacts ==
    ASSUME NEW S, NEW l, NEW notes, Due(l, notes) \in Seq(S), Rest(l, notes) \in Seq(S),
           HaveEnd(S, ExpiredNotes(l, notes))
    PROVE  /\ ExpiredList(l, notes) \in Seq(S)
           /\ Entries(ExpiredList(l, notes)) = Entries(Rest(l, notes)) \cup Released(Due(l, notes), notes)
           /\ Sorted(Rest(l, notes), ExpiredNotes(l, notes))
                => Sorted(ExpiredList(l, notes), ExpiredNotes(l, notes))
<1> DEFINE due == Due(l, notes)
           rest == Rest(l, notes)
           expired == ExpiredNotes(l, notes)
<1>1. ExpiredList(l, notes) = FoldOf(rest, due, notes, expired)
  <2>1. DOMAIN due = 1..Len(due)
    OBVIOUS
  <2>2. ExpiredList(l, notes) = FoldLeft(LAMBDA x, n : Again(x, n, notes, expired), rest, due)
    BY Zenon DEF ExpiredList, Again, Rest
  <2> HIDE DEF expired, due, rest
  <2> QED BY <2>1, <2>2 DEF FoldLeft, MapThenFoldSet, Folds, FoldOf
<1>2. due \in Seq(S) /\ rest \in Seq(S) /\ HaveEnd(S, expired)
  OBVIOUS
<1> HIDE DEF expired, due, rest
<1>3. /\ FoldOf(rest, due, notes, expired) \in Seq(S)
      /\ Entries(FoldOf(rest, due, notes, expired)) = Entries(rest) \cup Released(due, notes)
      /\ Sorted(rest, expired) => Sorted(FoldOf(rest, due, notes, expired), expired)
  BY <1>2, FoldFacts
<1> QED BY <1>1, <1>3 DEF expired, due, rest

\* The states of a note, from being read to its end
States == {"read", "queued", "on", "release", "off", "cut"}
Notes  == [p2 : Nat, p3 : Nat \ {0}, xtratim : Nat, state : States, off : Int, ran : Nat]

\* Types.  Time is counted twice, in samples and in periods.
TypeOK ==
    /\ realtime \in BOOLEAN
    /\ global_kcounter \in Nat /\ icurTimeSamples = ksmps * global_kcounter
    /\ cyclesRemaining \in Int /\ nxtim \in Int /\ timeOffs \in Nat
    /\ evt \in [opcod : {"0", "i", "s", "e"}, note : Nat]
    /\ note \in Seq(Notes)
    /\ frstoff \in Seq(DOMAIN note)
    /\ OrcTrigEvts \in Seq(Nat)
    /\ sense \in [pc : {"sense", "score", "events", "perform", "ended"}, made : Nat, section : Nat,
                  rtsection : BOOLEAN, waited : BOOLEAN]

\* The score note that waits is not started; only realtime mode queues notes.
EvtWaits == evt.opcod = "i" => evt.note \in DOMAIN note /\ note[evt.note].state = "read"
NoQueue  == realtime \/ \A n \in DOMAIN note : note[n].state # "queued"

\* Periods until sense_events looks at the score.
waitTime ==
    IF cyclesRemaining <= 0 THEN 0
    ELSE IF sense.pc = "sense" THEN cyclesRemaining - 1 ELSE cyclesRemaining

\* The wait leads to the boundary next to the event; ...
WaitLeads ==
    evt.opcod = "i" =>
        LET due == Boundary(note[evt.note].p2) IN
        /\ global_kcounter + waitTime >= due
        /\ sense.rtsection \/ global_kcounter + waitTime = due

\* ... there is none to wait for only at the boundary next to the last one, ...
LastTimes == {note[n].p2 : n \in DOMAIN note} \cup {timeOffs}
BetweenEvents ==
    evt.opcod = "0" /\ ~sense.rtsection =>
        /\ sense.pc \in {"sense", "score"} /\ cyclesRemaining <= 0
        /\ \E t \in LastTimes : Boundary(t) = global_kcounter

\* ... and the score is left only when there is something to wait for.
WaitsOn ==
    /\ sense.pc \in {"events", "perform"} => cyclesRemaining > 0
    /\ sense.pc = "sense" => cyclesRemaining > 0 \/ evt.opcod = "0"
    /\ sense.waited /\ sense.pc = "score" => cyclesRemaining > 0

\* Where the wait of sense_events leads
TimeInv == EvtWaits /\ NoQueue /\ WaitLeads /\ BetweenEvents /\ WaitsOn

-----------------------------------------------------------------------------
(* Lengths.                                                                *)

\* Only notes that were started are on the off-time list.
Started(l, notes) == \A n \in Entries(l) : notes[n].state \in {"on", "release", "off"}

\* The length of a note without its release, and its end, in periods.
LengthOf(m) == Boundary(m.p2 + m.p3) - Boundary(m.p2)
EndOf(m)    == Boundary(m.p2 + m.p3) + IF m.state = "release" THEN m.xtratim ELSE 0

\* Realtime mode: the end was moved by as much as the note was late in the
\* period k - ran of its insertion.
RtNote(m, k) ==
    /\ m.state \in {"read", "queued"} => m.ran = 0
    /\ m.state = "on" => m.off = ksmps * Boundary(m.p2 + m.p3) + ksmps * (k - m.ran) - m.p2
    /\ m.state = "release" => m.off >= ksmps * (k - m.ran + LengthOf(m) - 1 + m.xtratim)
    /\ m.state = "off" => m.ran >= LengthOf(m) - 1 + m.xtratim

\* Otherwise a note is inserted next to its p2, and ends next to its end.
ScoreNoteOK(m, k) ==
    /\ m.state = "read" => m.ran = 0
    /\ m.state # "cut"
    /\ m.state \in {"on", "release"} => m.off = ksmps * EndOf(m) /\ m.ran = k - Boundary(m.p2)
    /\ m.state = "off" => m.ran = LengthOf(m) + m.xtratim

\* What plays is on the off-time list, in the order of the ends, and none is overdue.
ScoreList(l, notes, next) ==
    /\ \A n \in DOMAIN notes : notes[n].state \in {"on", "release"} <=> n \in Entries(l)
    /\ Sorted(l, notes)
    /\ \A n \in Entries(l) : EndOf(notes[n]) >= next

\* The next period in which notes may end.
nextEnd == global_kcounter + IF sense.pc = "sense" THEN 0 ELSE 1

\* How long every note has been performed, and when it will end
LengthInv ==
    /\ Started(frstoff, note)
    /\ realtime => \A n \in DOMAIN note : RtNote(note[n], global_kcounter)
    /\ ~realtime /\ ~sense.rtsection =>
          /\ \A n \in DOMAIN note : ScoreNoteOK(note[n], global_kcounter)
          /\ ScoreList(frstoff, note, nextEnd)

-----------------------------------------------------------------------------
(* Realtime events.                                                        *)

\* A list of times in their order
Ordered(l) == \A i, j \in DOMAIN l : i < j => l[i] <= l[j]

\* The list is in the order of the times.  Without a lock that may be busy, no
\* event waits for more than a period.
RtEventsInv ==
    /\ Ordered(OrcTrigEvts)
    /\ ~realtime => \A i \in DOMAIN OrcTrigEvts :
          OrcTrigEvts[i] >= global_kcounter - IF sense.pc = "perform" THEN 0 ELSE 1

\* The inductive invariant
IInv == TypeOK /\ TimeInv /\ LengthInv /\ RtEventsInv


\* RNDINT64 gives an integer.
LEMMA RoundInt ==
    ASSUME NEW n \in Int, NEW d \in Nat \ {0}
    PROVE  RNDINT64(n, d) \in Int
<1>1. 2 * d \in Nat \ {0} /\ 2 * n + d \in Int /\ -2 * n + d \in Int
  OBVIOUS
<1>2. (2 * n + d) \div (2 * d) \in Int /\ (-2 * n + d) \div (2 * d) \in Int
  BY <1>1, DivRange
<1> QED BY <1>2 DEF RNDINT64

\* What time_expire does to the notes, and to the list.
LEMMA ExpireShape ==
    ASSUME TypeOK, NEW notes \in Seq(Notes), NEW l \in Seq(DOMAIN notes), Started(l, notes)
    PROVE  /\ ExpiredNotes(l, notes) \in Seq(Notes)
           /\ DOMAIN ExpiredNotes(l, notes) = DOMAIN notes
           /\ \A n \in DOMAIN notes :
                 LET m == ExpiredNotes(l, notes)[n] IN
                 /\ m.p2 = notes[n].p2 /\ m.p3 = notes[n].p3
                 /\ m.xtratim = notes[n].xtratim /\ m.ran = notes[n].ran
                 /\ n \notin Entries(Due(l, notes)) => m = notes[n]
                 /\ n \in Entries(Due(l, notes)) =>
                      IF Releases(notes, n)
                      THEN m.state = "release" /\ m.off = ksmps * global_kcounter + ksmps * notes[n].xtratim
                      ELSE m.state = "off"
<1> DEFINE E == ExpiredNotes(l, notes)
           D == Entries(Due(l, notes))
<1>1. DOMAIN notes = 1..Len(notes) /\ Len(notes) \in Nat /\ \A n \in DOMAIN notes : notes[n] \in Notes
  OBVIOUS
<1>2. \A n : n \in D <=> \E i \in DOMAIN Due(l, notes) : Due(l, notes)[i] = n
  BY DEF Entries
<1>3. DOMAIN E = DOMAIN notes
  BY DEF ExpiredNotes
<1>4. \A n \in DOMAIN notes : E[n] =
         IF n \notin D THEN notes[n]
         ELSE IF Releases(notes, n)
         THEN [notes[n] EXCEPT !.state = "release", !.off = icurTimeSamples + ksmps * notes[n].xtratim]
         ELSE [notes[n] EXCEPT !.state = "off"]
  BY <1>2 DEF ExpiredNotes
<1>5. E = [n \in DOMAIN notes |-> E[n]]
  BY DEF ExpiredNotes
<1> HIDE DEF E, D
<1>6. ASSUME NEW n \in DOMAIN notes
      PROVE  /\ E[n] \in Notes
             /\ E[n].p2 = notes[n].p2 /\ E[n].p3 = notes[n].p3
             /\ E[n].xtratim = notes[n].xtratim /\ E[n].ran = notes[n].ran
             /\ n \notin D => E[n] = notes[n]
             /\ n \in D =>
                  IF Releases(notes, n)
                  THEN E[n].state = "release" /\ E[n].off = ksmps * global_kcounter + ksmps * notes[n].xtratim
                  ELSE E[n].state = "off"
  <2> DEFINE x == icurTimeSamples + ksmps * notes[n].xtratim
  <2>1. x \in Int /\ x = ksmps * global_kcounter + ksmps * notes[n].xtratim
    <3>1. notes[n].xtratim \in Nat
      BY <1>1 DEF Notes
    <3>2. ksmps \in Nat /\ global_kcounter \in Nat /\ icurTimeSamples = ksmps * global_kcounter
      BY TimesAssumption DEF TypeOK
    <3>3. ksmps * notes[n].xtratim \in Nat /\ ksmps * global_kcounter \in Nat
      BY <3>1, <3>2
    <3> QED BY <3>2, <3>3
  <2> HIDE DEF x
  <2>2. notes[n] \in Notes
    BY <1>1
  <2>3. CASE n \notin D
    BY <1>4, <2>2, <2>3
  <2>4. CASE n \in D /\ Releases(notes, n)
    <3>1. E[n] = [notes[n] EXCEPT !.state = "release", !.off = x]
      BY <1>4, <2>4 DEF x
    <3> QED BY <2>1, <2>2, <2>4, <3>1 DEF Notes, States
  <2>5. CASE n \in D /\ ~Releases(notes, n)
    <3>1. E[n] = [notes[n] EXCEPT !.state = "off"]
      BY <1>4, <2>5
    <3> QED BY <2>2, <2>5, <3>1 DEF Notes, States
  <2> QED BY <2>3, <2>4, <2>5
<1>7. E \in Seq(Notes)
  BY <1>1, <1>5, <1>6
<1>8. \A n \in DOMAIN notes :
        /\ E[n].p2 = notes[n].p2 /\ E[n].p3 = notes[n].p3
        /\ E[n].xtratim = notes[n].xtratim /\ E[n].ran = notes[n].ran
        /\ n \notin D => E[n] = notes[n]
        /\ n \in D =>
             IF Releases(notes, n)
             THEN E[n].state = "release" /\ E[n].off = ksmps * global_kcounter + ksmps * notes[n].xtratim
             ELSE E[n].state = "off"
  BY <1>6
<1> QED BY <1>3, <1>7, <1>8, Zenon DEF E, D

\* What time_expire leaves on a list, in terms of the notes of that list.
LEMMA ExpireLists ==
    ASSUME TypeOK, NEW notes \in Seq(Notes), NEW l \in Seq(DOMAIN notes), Started(l, notes)
    PROVE  /\ ExpiredList(l, notes) \in Seq(DOMAIN notes)
           /\ Entries(ExpiredList(l, notes)) = Entries(Rest(l, notes)) \cup Released(Due(l, notes), notes)
           /\ Sorted(Rest(l, notes), ExpiredNotes(l, notes))
                => Sorted(ExpiredList(l, notes), ExpiredNotes(l, notes))
           /\ Started(ExpiredList(l, notes), ExpiredNotes(l, notes))
<1> DEFINE E == ExpiredNotes(l, notes)
           S == DOMAIN notes
<1>1. Due(l, notes) \in Seq(S) /\ Rest(l, notes) \in Seq(S)
      /\ Entries(l) = Entries(Due(l, notes)) \cup Entries(Rest(l, notes))
  <2> HIDE DEF S
  <2>1. l \in Seq(S)
    BY DEF S
  <2> QED BY <2>1, DueFacts
<1>2. E \in Seq(Notes) /\ DOMAIN E = S
      /\ \A n \in S : /\ n \notin Entries(Due(l, notes)) => E[n] = notes[n]
                      /\ n \in Entries(Due(l, notes)) => E[n].state \in {"release", "off"}
  BY ExpireShape
<1>3. HaveEnd(S, E)
  <2>1. \A n \in S : E[n] \in Notes
    BY <1>2
  <2> HIDE DEF S, E
  <2> QED BY <2>1 DEF HaveEnd, Notes
<1>4. Entries(l) \subseteq S
  BY DEF Entries
<1>5. /\ ExpiredList(l, notes) \in Seq(S)
      /\ Entries(ExpiredList(l, notes)) = Entries(Rest(l, notes)) \cup Released(Due(l, notes), notes)
      /\ Sorted(Rest(l, notes), E) => Sorted(ExpiredList(l, notes), E)
  <2> HIDE DEF S
  <2> QED BY <1>1, <1>3, ExpiredListFacts
<1>6. Started(ExpiredList(l, notes), E)
  <2> HIDE DEF E, S
  <2>1. Released(Due(l, notes), notes) \subseteq Entries(Due(l, notes))
    BY DEF Released
  <2> QED BY <1>1, <1>2, <1>4, <1>5, <2>1 DEF Started
<1> QED BY <1>5, <1>6

\* A time on a boundary is expired from that period on.
LEMMA ExpiredIs ==
    ASSUME TypeOK, NEW e \in Int
    PROVE  Expired(ksmps * e) <=> e <= global_kcounter
<1> DEFINE k == global_kcounter
           a == ksmps * e
           b == ksmps * k
<1>1. ksmps \in Nat \ {0} /\ k \in Nat /\ icurTimeSamples = b
  BY TimesAssumption DEF TypeOK
<1>2. a \in Int /\ b \in Int
  BY <1>1
<1>3. ASSUME e <= k PROVE a <= b
  <2>1. PICK c \in Nat : k = e + c
    BY <1>1, <1>3
  <2>2. ksmps * k = ksmps * e + ksmps * c /\ ksmps * c \in Nat
    BY <1>1, <2>1
  <2> QED BY <1>2, <2>2
<1>4. ASSUME a < b + ksmps PROVE e <= k
  BY <1>1, <1>4, MulLess
<1> HIDE DEF a, b, k
<1>5. Expired(a) <=> 1000 * a <= 1000 * b + 505 * ksmps
  BY <1>1 DEF Expired
<1>6. Expired(a) => a < b + ksmps
  BY <1>1, <1>2, <1>5
<1>7. a <= b => Expired(a)
  BY <1>1, <1>2, <1>5
<1> QED BY <1>3, <1>4, <1>6, <1>7 DEF a, k

\* The times of a note.
LEMMA NoteTimes ==
    ASSUME NEW m \in Notes
    PROVE  /\ Boundary(m.p2) \in Int /\ Boundary(m.p2 + m.p3) \in Int
           /\ Boundary(m.p2) <= Boundary(m.p2 + m.p3)
           /\ LengthOf(m) = Boundary(m.p2 + m.p3) - Boundary(m.p2) /\ LengthOf(m) \in Int
           /\ EndOf(m) \in Int
<1>1. m.p2 \in Int /\ m.p2 + m.p3 \in Int /\ m.p2 <= m.p2 + m.p3 /\ m.xtratim \in Nat
  BY DEF Notes
<1>2. Boundary(m.p2) \in Int /\ Boundary(m.p2 + m.p3) \in Int /\ Boundary(m.p2) <= Boundary(m.p2 + m.p3)
  BY <1>1, BoundaryRange, BoundaryMonotone
<1> QED BY <1>1, <1>2 DEF LengthOf, EndOf

-----------------------------------------------------------------------------
(* time_expire in realtime mode: a note that is due has been performed for *)
(* one period less than its length, or longer.                             *)

\* A note that is due, whose end was moved when it was inserted late.
LEMMA RtDueOn ==
    ASSUME TypeOK, NEW m \in Notes, RtNote(m, global_kcounter), m.state = "on", Expired(m.off)
    PROVE  m.ran >= LengthOf(m) - 1
<1> DEFINE k == global_kcounter
           b == Boundary(m.p2)
           c == Boundary(m.p2 + m.p3)
           x == ksmps * b
           y == ksmps * c
           z == ksmps * (k - m.ran)
           w == ksmps * k
<1>1. /\ ksmps \in Nat \ {0} /\ k \in Nat /\ m.p2 \in Nat /\ m.ran \in Nat
      /\ b \in Int /\ c \in Int /\ LengthOf(m) = c - b /\ icurTimeSamples = w
  BY TimesAssumption, NoteTimes DEF TypeOK, Notes
<1>2. x \in Int /\ y \in Int /\ z \in Int /\ w \in Int
  BY <1>1
<1>3. 2 * x <= 2 * m.p2 + ksmps /\ 2 * m.p2 < 2 * x + ksmps
  <2>1. m.p2 \in Int
    BY <1>1
  <2>2. 2 * (ksmps * Boundary(m.p2)) <= 2 * m.p2 + ksmps /\ 2 * m.p2 < 2 * (ksmps * Boundary(m.p2)) + ksmps
    BY <2>1, BoundaryRange
  <2> QED BY <2>2, Zenon
<1>4. m.off = y + z - m.p2
  BY DEF RtNote
<1>5. 1000 * m.off <= 1000 * w + 505 * ksmps
  BY <1>1 DEF Expired
<1>6. ksmps * (c - b + (k - m.ran)) = y - x + z
  BY <1>1
<1>7. ksmps * (k + 1) = w + ksmps
  BY <1>1
<1> HIDE DEF x, y, z, w, b, c, k
<1>8. y - x + z < w + ksmps + ksmps
  BY <1>1, <1>2, <1>3, <1>4, <1>5
<1>9. c - b + (k - m.ran) <= k + 1
  BY <1>1, <1>6, <1>7, <1>8, MulLess
<1> QED BY <1>1, <1>9

\* ... and one that is due after its release.
LEMMA RtDueRelease ==
    ASSUME TypeOK, NEW m \in Notes, RtNote(m, global_kcounter), m.state = "release", Expired(m.off)
    PROVE  m.ran >= LengthOf(m) - 1 + m.xtratim
<1> DEFINE k == global_kcounter
           d == k - m.ran + LengthOf(m) - 1 + m.xtratim
           y == ksmps * d
           w == ksmps * k
<1>1. /\ ksmps \in Nat \ {0} /\ k \in Nat /\ m.ran \in Nat /\ m.xtratim \in Nat /\ m.off \in Int
      /\ LengthOf(m) \in Int /\ icurTimeSamples = w
  BY TimesAssumption, NoteTimes DEF TypeOK, Notes
<1>2. d \in Int
  BY <1>1
<1>3. y \in Int /\ w \in Int
  <2> HIDE DEF d
  <2> QED BY <1>1, <1>2
<1>4. m.off >= y
  BY DEF RtNote
<1>5. 1000 * m.off <= 1000 * w + 505 * ksmps
  BY <1>1 DEF Expired
<1> HIDE DEF d
<1>6. ksmps * d < ksmps * k + ksmps
  <2> HIDE DEF y, w
  <2>1. y < w + ksmps
    BY <1>1, <1>3, <1>4, <1>5
  <2> QED BY <2>1 DEF y, w
<1>7. d <= k
  BY <1>1, <1>2, <1>6, MulLess
<1> QED BY <1>1, <1>7 DEF d

\* In realtime mode time_expire never ends a note more than a period too early.
LEMMA ExpireRt ==
    ASSUME TypeOK, NEW notes \in Seq(Notes), NEW l \in Seq(DOMAIN notes), Started(l, notes),
           \A n \in DOMAIN notes : RtNote(notes[n], global_kcounter)
    PROVE  \A n \in DOMAIN notes : RtNote(ExpiredNotes(l, notes)[n], global_kcounter)
<1> DEFINE k == global_kcounter
<1> SUFFICES ASSUME NEW n \in DOMAIN notes PROVE RtNote(ExpiredNotes(l, notes)[n], k)
  OBVIOUS
<1> DEFINE m == notes[n]
           e == ExpiredNotes(l, notes)[n]
           D == Entries(Due(l, notes))
<1>1. m \in Notes /\ RtNote(m, k)
  BY ElementOfSeq
<1>2. DOMAIN ExpiredNotes(l, notes) = DOMAIN notes /\ ExpiredNotes(l, notes) \in Seq(Notes)
  BY ExpireShape
<1>3. e \in Notes
  BY <1>2, ElementOfSeq
<1>4. /\ e.p2 = m.p2 /\ e.p3 = m.p3 /\ e.xtratim = m.xtratim /\ e.ran = m.ran
      /\ n \notin D => e = m
      /\ n \in D =>
           IF Releases(notes, n)
           THEN e.state = "release" /\ e.off = ksmps * k + ksmps * m.xtratim
           ELSE e.state = "off"
  BY ExpireShape
<1>5. n \in D => Expired(m.off) /\ m.state \in {"on", "release", "off"}
  <2>1. l \in Seq(DOMAIN notes)
    OBVIOUS
  <2> HIDE DEF m
  <2>2. \A d \in D : Expired(notes[d].off) /\ d \in Entries(l)
    BY DueFacts
  <2> QED BY <2>2 DEF Started, m
<1>6. Releases(notes, n) <=> m.xtratim > 0 /\ m.state = "on"
  BY DEF Releases
<1> HIDE DEF m, e, D
<1>7. LengthOf(e) = LengthOf(m)
  BY <1>4 DEF LengthOf
<1>8. /\ ksmps \in Nat \ {0} /\ k \in Nat /\ m.ran \in Nat /\ m.xtratim \in Nat /\ m.off \in Int
      /\ LengthOf(m) \in Int
  BY <1>1, TimesAssumption, NoteTimes DEF TypeOK, Notes
<1>9. ASSUME n \notin D PROVE RtNote(e, k)
  BY <1>1, <1>4, <1>9
<1>10. ASSUME n \in D /\ Releases(notes, n) PROVE RtNote(e, k)
  <2>1. m.ran >= LengthOf(m) - 1
    BY <1>1, <1>5, <1>6, <1>10, RtDueOn
  <2>2. e.state = "release" /\ e.off = ksmps * k + ksmps * m.xtratim
    BY <1>4, <1>10
  <2> DEFINE d == k - m.ran + LengthOf(m) - 1
  <2>3. d \in Int /\ d <= k
    BY <1>8, <2>1
  <2>4. ksmps * d <= ksmps * k /\ ksmps * d \in Int
    <3> HIDE DEF d
    <3>1. PICK c \in Nat : k = d + c
      BY <1>8, <2>3
    <3>2. ksmps * k = ksmps * d + ksmps * c /\ ksmps * c \in Nat /\ ksmps * d \in Int
      BY <1>8, <2>3, <3>1
    <3> QED BY <3>2
  <2>5. ksmps * (d + m.xtratim) = ksmps * d + ksmps * m.xtratim
    <3> HIDE DEF d
    <3> QED BY <1>8, <2>3
  <2>6. e.off >= ksmps * (d + m.xtratim)
    <3> HIDE DEF d
    <3>1. ksmps * m.xtratim \in Int /\ ksmps * k \in Int
      BY <1>8
    <3> QED BY <2>2, <2>4, <2>5, <3>1
  <2>7. k - e.ran + LengthOf(e) - 1 + e.xtratim = d + m.xtratim
    BY <1>4, <1>7
  <2> HIDE DEF d
  <2> QED BY <2>2, <2>6, <2>7 DEF RtNote
<1>11. ASSUME n \in D /\ ~Releases(notes, n) PROVE RtNote(e, k)
  <2>1. m.ran >= LengthOf(m) - 1 + m.xtratim
    <3>1. CASE m.state = "on"
      <4>1. m.xtratim = 0
        BY <1>6, <1>8, <1>11, <3>1
      <4>2. m.ran >= LengthOf(m) - 1
        BY <1>1, <1>5, <1>11, <3>1, RtDueOn
      <4> QED BY <1>8, <4>1, <4>2
    <3>2. CASE m.state = "release"
      BY <1>1, <1>5, <1>11, <3>2, RtDueRelease
    <3>3. CASE m.state = "off"
      BY <1>1, <3>3 DEF RtNote
    <3> QED BY <1>5, <1>11, <3>1, <3>2, <3>3
  <2> QED BY <1>4, <1>7, <1>11, <2>1 DEF RtNote
<1> QED BY <1>9, <1>10, <1>11 DEF e

-----------------------------------------------------------------------------
(* time_expire otherwise: what is due ends in this very period.            *)

\* What remains of a list in order is in order.
LEMMA RestSorted ==
    ASSUME NEW S, NEW l \in Seq(S), NEW notes, Sorted(l, notes)
    PROVE  Sorted(Rest(l, notes), notes)
<1> DEFINE rest == Rest(l, notes)
           N == Len(Due(l, notes))
<1>2. /\ N \in Nat /\ Len(rest) = Len(l) - N /\ rest \in Seq(S)
      /\ \A i \in 1..Len(rest) : rest[i] = l[N + i]
  BY DueFacts
<1> HIDE DEF rest, N
<1>0. Len(l) \in Nat /\ DOMAIN l = 1..Len(l) /\ Len(rest) \in Nat
  BY <1>2
<1>3. SUFFICES ASSUME NEW i \in 1..Len(rest), NEW j \in 1..Len(rest), i < j
               PROVE  notes[rest[i]].off <= notes[rest[j]].off
  <2>1. DOMAIN rest = 1..Len(rest)
    BY <1>2
  <2> QED BY <2>1 DEF Sorted, rest
<1>4. N + i \in DOMAIN l /\ N + j \in DOMAIN l /\ N + i < N + j
  BY <1>0, <1>2, <1>3
<1> QED BY <1>2, <1>4 DEF Sorted

\* From a list in order, in which nothing is overdue, time_expire takes all that is
\* due, and leaves a list in order in which nothing is due before the next period.
LEMMA ExpireScore ==
    ASSUME TypeOK, NEW notes \in Seq(Notes), NEW l \in Seq(DOMAIN notes), Started(l, notes),
           \A n \in DOMAIN notes : ScoreNoteOK(notes[n], global_kcounter),
           ScoreList(l, notes, global_kcounter)
    PROVE  /\ \A n \in DOMAIN notes : ScoreNoteOK(ExpiredNotes(l, notes)[n], global_kcounter)
           /\ ScoreList(ExpiredList(l, notes), ExpiredNotes(l, notes), global_kcounter + 1)
<1> DEFINE k == global_kcounter
           S == DOMAIN notes
           E == ExpiredNotes(l, notes)
           D == Entries(Due(l, notes))
           R == Entries(Rest(l, notes))
           rest == Rest(l, notes)
           X == ExpiredList(l, notes)
<1>1. /\ E \in Seq(Notes) /\ DOMAIN E = S
      /\ \A n \in S :
           /\ E[n].p2 = notes[n].p2 /\ E[n].p3 = notes[n].p3
           /\ E[n].xtratim = notes[n].xtratim /\ E[n].ran = notes[n].ran
           /\ n \notin D => E[n] = notes[n]
           /\ n \in D =>
                IF Releases(notes, n)
                THEN E[n].state = "release" /\ E[n].off = ksmps * k + ksmps * notes[n].xtratim
                ELSE E[n].state = "off"
  BY ExpireShape
<1>2. \A n \in S : notes[n] \in Notes /\ E[n] \in Notes
  BY <1>1, ElementOfSeq
<1>3. /\ X \in Seq(S) /\ Entries(X) = R \cup Released(Due(l, notes), notes)
      /\ Sorted(rest, E) => Sorted(X, E)
  BY ExpireLists
<1>4. /\ \A n \in D : Expired(notes[n].off) /\ n \in Entries(l)
      /\ rest \in Seq(S)
      /\ Entries(l) = D \cup R
      /\ rest # <<>> => ~Expired(notes[rest[1]].off)
  <2> HIDE DEF S
  <2>1. l \in Seq(S)
    BY DEF S
  <2> QED BY <2>1, DueFacts
<1>5. \A i, j \in DOMAIN rest : i < j => notes[rest[i]].off <= notes[rest[j]].off
  <2>1. l \in Seq(S)
    OBVIOUS
  <2> HIDE DEF S
  <2>2. Sorted(l, notes)
    BY DEF ScoreList
  <2>3. Sorted(Rest(l, notes), notes)
    BY <2>1, <2>2, RestSorted
  <2> QED BY <2>3 DEF Sorted
<1>6. \A n \in S : notes[n].state \in {"on", "release"} <=> n \in Entries(l)
  BY DEF ScoreList
<1>7. \A n \in S : n \in Entries(l) => EndOf(notes[n]) >= k
  BY DEF ScoreList
<1>8. Entries(l) \subseteq S
  BY DEF Entries
<1> HIDE DEF S, E, D, R, X, rest
<1>9. ASSUME NEW n \in S, n \in Entries(l)
      PROVE  /\ notes[n].off = ksmps * EndOf(notes[n]) /\ EndOf(notes[n]) \in Int
             /\ notes[n].ran = k - Boundary(notes[n].p2)
             /\ Expired(notes[n].off) <=> EndOf(notes[n]) <= k
  <2>1. notes[n].state \in {"on", "release"}
    BY <1>6, <1>9
  <2>2. notes[n].off = ksmps * EndOf(notes[n]) /\ notes[n].ran = k - Boundary(notes[n].p2)
    BY <2>1 DEF ScoreNoteOK, S
  <2>3. EndOf(notes[n]) \in Int
    BY <1>2, NoteTimes
  <2> QED BY <2>2, <2>3, ExpiredIs
<1>10. k \in Nat /\ ksmps \in Nat \ {0}
  BY TimesAssumption DEF TypeOK
<1>11. \A n \in D : n \in S /\ EndOf(notes[n]) = k
  <2> TAKE n \in D
  <2>1. n \in S /\ n \in Entries(l) /\ Expired(notes[n].off)
    BY <1>4, <1>8
  <2> QED BY <1>7, <1>9, <1>10, <2>1
<1>12. \A n \in R : n \in S /\ EndOf(notes[n]) >= k + 1 /\ n \in Entries(l)
  <2> SUFFICES ASSUME NEW i \in DOMAIN rest
               PROVE  rest[i] \in S /\ EndOf(notes[rest[i]]) >= k + 1 /\ rest[i] \in Entries(l)
    BY DEF R, Entries, rest
  <2>1. i \in 1..Len(rest) /\ 1 \in DOMAIN rest /\ DOMAIN rest = 1..Len(rest) /\ rest # <<>>
    BY <1>4
  <2>2. rest[i] \in R /\ rest[1] \in R
    BY <2>1 DEF R, Entries, rest
  <2>3. rest[i] \in S /\ rest[1] \in S /\ rest[i] \in Entries(l) /\ rest[1] \in Entries(l)
    BY <1>4, <1>8, <2>2
  <2>4. ~Expired(notes[rest[1]].off)
    BY <1>4, <2>1
  <2>5. notes[rest[1]].off <= notes[rest[i]].off
    <3>1. i = 1 \/ 1 < i
      BY <2>1
    <3>2. notes[rest[1]].off \in Int
      BY <1>2, <2>3 DEF Notes
    <3> QED BY <1>5, <2>1, <3>1, <3>2
  <2>6. ~Expired(notes[rest[i]].off)
    <3>0. icurTimeSamples = ksmps * k /\ ksmps * k \in Int
      BY <1>10 DEF TypeOK
    <3>1. notes[rest[1]].off \in Int /\ notes[rest[i]].off \in Int /\ icurTimeSamples \in Int
      BY <1>2, <2>3, <3>0 DEF Notes
    <3> QED BY <1>10, <2>4, <2>5, <3>1 DEF Expired
  <2>7. EndOf(notes[rest[i]]) \in Int /\ ~(EndOf(notes[rest[i]]) <= k)
    BY <1>9, <2>3, <2>6
  <2> QED BY <1>10, <2>3, <2>7
<1>13. D \cap R = {}
  <2> SUFFICES ASSUME NEW n \in D, n \in R PROVE FALSE
    OBVIOUS
  <2> QED BY <1>10, <1>11, <1>12
\* A note that is due has run for its length, or its length and its release.
<1>14. ASSUME NEW n \in D
       PROVE  /\ n \in S
              /\ Releases(notes, n) =>
                   /\ E[n].state = "release" /\ E[n].off = ksmps * EndOf(E[n])
                   /\ E[n].ran = k - Boundary(E[n].p2) /\ EndOf(E[n]) >= k + 1
              /\ ~Releases(notes, n) => E[n].state = "off" /\ E[n].ran = LengthOf(E[n]) + E[n].xtratim
  <2> DEFINE m == notes[n]
             e == E[n]
             b == Boundary(m.p2)
             c == Boundary(m.p2 + m.p3)
  <2>1. n \in S /\ EndOf(m) = k /\ n \in Entries(l)
    BY <1>4, <1>11
  <2>2. m.state \in {"on", "release"} /\ m.ran = k - b
    BY <1>6, <1>9, <2>1
  <2>3. m \in Notes /\ e \in Notes /\ b \in Int /\ c \in Int /\ LengthOf(m) = c - b
    BY <1>2, <2>1, NoteTimes
  <2>4. EndOf(m) = c + IF m.state = "release" THEN m.xtratim ELSE 0
    BY DEF EndOf
  <2>5. e.p2 = m.p2 /\ e.p3 = m.p3 /\ e.xtratim = m.xtratim /\ e.ran = m.ran
        /\ IF Releases(notes, n)
           THEN e.state = "release" /\ e.off = ksmps * k + ksmps * m.xtratim
           ELSE e.state = "off"
    BY <1>1, <2>1
  <2>6. EndOf(e) = c + IF e.state = "release" THEN m.xtratim ELSE 0
    BY <2>5 DEF EndOf
  <2>7. LengthOf(e) = LengthOf(m)
    BY <2>5 DEF LengthOf
  <2>8. Releases(notes, n) <=> m.xtratim > 0 /\ m.state = "on"
    BY DEF Releases
  <2>9. m.xtratim \in Nat
    BY <2>3 DEF Notes
  <2> HIDE DEF m, e, b, c
  <2>10. ASSUME Releases(notes, n)
         PROVE  e.state = "release" /\ e.off = ksmps * EndOf(e) /\ e.ran = k - b /\ EndOf(e) >= k + 1
    <3>1. e.state = "release" /\ m.state = "on" /\ m.xtratim > 0
      BY <2>5, <2>8, <2>10
    <3>2. c = k /\ EndOf(e) = k + m.xtratim
      BY <2>1, <2>3, <2>4, <2>6, <3>1
    <3>3. ksmps * (k + m.xtratim) = ksmps * k + ksmps * m.xtratim
      BY <1>10, <2>9
    <3> QED BY <1>10, <2>2, <2>5, <2>9, <2>10, <3>1, <3>2, <3>3
  <2>11. ASSUME ~Releases(notes, n) PROVE e.state = "off" /\ e.ran = LengthOf(e) + e.xtratim
    <3>1. k = c + m.xtratim
      BY <1>10, <2>1, <2>2, <2>3, <2>4, <2>8, <2>9, <2>11
    <3> QED BY <1>10, <2>2, <2>3, <2>5, <2>7, <2>9, <2>11, <3>1
  <2>12. b = Boundary(e.p2)
    BY <2>5 DEF b
  <2> QED BY <2>1, <2>10, <2>11, <2>12 DEF e
<1>15. Released(Due(l, notes), notes) = {n \in D : Releases(notes, n)}
  BY DEF Released, D
<1>16. ASSUME NEW n \in S PROVE ScoreNoteOK(E[n], k)
  <2>1. CASE n \notin D
    <3>1. E[n] = notes[n]
      BY <1>1, <2>1
    <3>2. ScoreNoteOK(notes[n], k)
      BY DEF S
    <3> QED BY <3>1, <3>2
  <2>2. CASE n \in D
    BY <1>14, <2>2 DEF ScoreNoteOK
  <2> QED BY <2>1, <2>2
<1>17. \A n \in DOMAIN E : E[n].state \in {"on", "release"} <=> n \in Entries(X)
  <2> SUFFICES ASSUME NEW n \in S PROVE E[n].state \in {"on", "release"} <=> n \in Entries(X)
    BY <1>1
  <2>1. CASE n \notin D
    <3>1. E[n] = notes[n]
      BY <1>1, <2>1
    <3> QED BY <1>3, <1>4, <1>6, <1>15, <2>1, <3>1
  <2>2. CASE n \in D
    <3>1. n \notin R
      BY <1>13, <2>2
    <3> QED BY <1>3, <1>14, <1>15, <2>2, <3>1
  <2> QED BY <2>1, <2>2
<1>18. Sorted(X, E)
  <2>1. \A i \in DOMAIN rest : rest[i] \in R
    BY DEF R, Entries, rest
  <2>2. \A i \in DOMAIN rest : E[rest[i]] = notes[rest[i]]
    BY <1>1, <1>12, <1>13, <2>1
  <2> QED BY <1>3, <1>5, <2>2 DEF Sorted
<1>19. \A n \in Entries(X) : EndOf(E[n]) >= k + 1
  <2> TAKE n \in Entries(X)
  <2>1. CASE n \in R
    <3>1. E[n] = notes[n] /\ EndOf(notes[n]) >= k + 1
      BY <1>1, <1>12, <1>13, <2>1
    <3> QED BY <3>1
  <2>2. CASE n \notin R
    BY <1>3, <1>14, <1>15, <2>2
  <2> QED BY <2>1, <2>2
<1> QED BY <1>16, <1>17, <1>18, <1>19 DEF ScoreList, E, X, S

-----------------------------------------------------------------------------
(* insert_new.                                                             *)

\* The notes and the off-time list, with note n on.
NoteOn(n) == [note EXCEPT ![n].state = "on", ![n].off = offtim(n)]
ListOn(n) == Insort(frstoff, n, NoteOn(n))

\* The end that insert_new gives a note.
LEMMA OffTimeIs ==
    ASSUME TypeOK, NEW n \in DOMAIN note
    PROVE  /\ offtim(n) \in Int
           /\ offtim(n) = ksmps * Boundary(note[n].p2 + note[n].p3)
                            + IF realtime THEN ksmps * global_kcounter - note[n].p2 ELSE 0
<1> DEFINE m == note[n]
           c == Boundary(m.p2 + m.p3)
<1>1. m \in Notes
  BY ElementOfSeq DEF TypeOK
<1>2. m.p2 \in Nat /\ c \in Int
  BY <1>1, NoteTimes DEF Notes
<1>3. ksmps \in Nat /\ global_kcounter \in Nat /\ icurTimeSamples = ksmps * global_kcounter /\ realtime \in BOOLEAN
  BY TimesAssumption DEF TypeOK
<1>4. offtim(n) = c * ksmps + IF realtime THEN icurTimeSamples - m.p2 ELSE 0
  BY DEF offtim
<1> HIDE DEF c, m
<1>5. c * ksmps = ksmps * c /\ ksmps * c \in Int /\ ksmps * global_kcounter \in Int
  BY <1>2, <1>3
<1>6. offtim(n) = ksmps * c + IF realtime THEN ksmps * global_kcounter - m.p2 ELSE 0
  BY <1>3, <1>4, <1>5
<1>7. offtim(n) \in Int
  BY <1>2, <1>3, <1>5, <1>6
<1> QED BY <1>6, <1>7 DEF c, m

\* The notes and the list before insert_new looks at the head.
LEMMA OnShape ==
    ASSUME TypeOK, Started(frstoff, note), NEW n \in DOMAIN note
    PROVE  /\ NoteOn(n) \in Seq(Notes) /\ DOMAIN NoteOn(n) = DOMAIN note
           /\ \A m \in DOMAIN note : m # n => NoteOn(n)[m] = note[m]
           /\ NoteOn(n)[n] = [note[n] EXCEPT !.state = "on", !.off = offtim(n)]
           /\ ListOn(n) \in Seq(DOMAIN note)
           /\ Entries(ListOn(n)) = Entries(frstoff) \cup {n}
           /\ Sorted(frstoff, NoteOn(n)) => Sorted(ListOn(n), NoteOn(n))
           /\ (\A i \in DOMAIN frstoff : NoteOn(n)[frstoff[i]].off > NoteOn(n)[n].off) => ListOn(n)[1] = n
           /\ Started(ListOn(n), NoteOn(n))
<1> DEFINE N == NoteOn(n)
           S == DOMAIN note
           x == offtim(n)
<1>1. x \in Int
  BY OffTimeIs
<1>2. note \in Seq(Notes) /\ S = 1..Len(note) /\ Len(note) \in Nat /\ \A m \in S : note[m] \in Notes
  BY DEF TypeOK
<1>3. N = [note EXCEPT ![n] = [note[n] EXCEPT !.state = "on", !.off = x]]
  BY DEF NoteOn
<1> HIDE DEF x
<1>4. [note[n] EXCEPT !.state = "on", !.off = x] \in Notes
  BY <1>1, <1>2 DEF Notes, States
<1>5. N \in Seq(Notes) /\ DOMAIN N = S
  BY <1>2, <1>3, <1>4
<1>6. (\A m \in S : m # n => N[m] = note[m]) /\ N[n] = [note[n] EXCEPT !.state = "on", !.off = x]
  BY <1>2, <1>3
<1>7. HaveEnd(S, N)
  <2>1. \A m \in S : N[m] \in Notes
    BY <1>5, ElementOfSeq
  <2> HIDE DEF S, N
  <2> QED BY <2>1 DEF HaveEnd, Notes
<1>8. /\ ListOn(n) \in Seq(S)
      /\ Entries(ListOn(n)) = Entries(frstoff) \cup {n}
      /\ Sorted(frstoff, N) => Sorted(ListOn(n), N)
      /\ (\A i \in DOMAIN frstoff : N[frstoff[i]].off > N[n].off) => ListOn(n)[1] = n
  <2>1. frstoff \in Seq(S) /\ n \in S
    BY DEF TypeOK
  <2>2. ListOn(n) = Insort(frstoff, n, N)
    BY DEF ListOn
  <2> HIDE DEF S, N
  <2>3. Insort(frstoff, n, N) \in Seq(S) /\ Entries(Insort(frstoff, n, N)) = Entries(frstoff) \cup {n}
    BY <1>7, <2>1, InsortFacts
  <2>4. Sorted(frstoff, N) => Sorted(Insort(frstoff, n, N), N)
    BY <1>7, <2>1, InsortFacts
  <2>5. (\A i \in DOMAIN frstoff : N[frstoff[i]].off > N[n].off) => Insort(frstoff, n, N)[1] = n
    BY <1>7, <2>1, InsortFacts
  <2> QED BY <2>2, <2>3, <2>4, <2>5
<1>9. Started(ListOn(n), N)
  <2>1. Entries(frstoff) \subseteq S
    BY DEF TypeOK, Entries
  <2>2. N[n].state = "on"
    BY <1>2, <1>6 DEF Notes
  <2> HIDE DEF S, N
  <2> QED BY <1>6, <1>8, <2>1, <2>2 DEF Started
<1> QED BY <1>5, <1>6, <1>8, <1>9 DEF x

\* Either the note is put on the list, or it is due as well, at the head of it.
LEMMA InsertCases ==
    ASSUME NEW n, Insert(n)
    PROVE  \/ /\ ListOn(n)[1] = n /\ Expired(NoteOn(n)[n].off)
              /\ note' = ExpiredNotes(ListOn(n), NoteOn(n)) /\ frstoff' = ExpiredList(ListOn(n), NoteOn(n))
           \/ /\ ~(ListOn(n)[1] = n /\ Expired(NoteOn(n)[n].off))
              /\ note' = NoteOn(n) /\ frstoff' = ListOn(n)
BY DEF Insert, NoteOn, ListOn

\* insert_new starts its note, and changes no other that was not started.
LEMMA InsertShape ==
    ASSUME TypeOK, Started(frstoff, note), NEW n \in DOMAIN note, Insert(n)
    PROVE  /\ note' \in Seq(Notes) /\ DOMAIN note' = DOMAIN note
           /\ frstoff' \in Seq(DOMAIN note)
           /\ Started(frstoff', note')
           /\ \A m \in DOMAIN note : note'[m].p2 = note[m].p2
           /\ \A m \in DOMAIN note :
                m # n /\ note[m].state \notin {"on", "release", "off"} => note'[m] = note[m]
           /\ \A m \in DOMAIN note : note'[m] = note[m] \/ note'[m].state \in {"on", "release", "off"}
           /\ note'[n].state \in {"on", "release", "off"}
<1> DEFINE N == NoteOn(n)
           L == ListOn(n)
           S == DOMAIN note
<1>1. /\ N \in Seq(Notes) /\ DOMAIN N = S
      /\ \A m \in S : m # n => N[m] = note[m]
      /\ N[n] = [note[n] EXCEPT !.state = "on", !.off = offtim(n)]
      /\ L \in Seq(S) /\ Started(L, N)
  BY OnShape
<1>2. \A m \in S : note[m] \in Notes
  BY DEF TypeOK
<1>3. N[n].state = "on" /\ N[n].p2 = note[n].p2
  BY <1>1, <1>2 DEF Notes
<1> HIDE DEF N, L, S
<1>4. L \in Seq(DOMAIN N)
  BY <1>1
<1>5. CASE note' = N /\ frstoff' = L
  BY <1>1, <1>3, <1>5 DEF S
<1>6. CASE note' = ExpiredNotes(L, N) /\ frstoff' = ExpiredList(L, N)
  <2> DEFINE E == ExpiredNotes(L, N)
             D == Entries(Due(L, N))
  <2>1. E \in Seq(Notes) /\ DOMAIN E = DOMAIN N
    BY <1>1, <1>4, ExpireShape
  <2>2. \A m \in DOMAIN N : /\ E[m].p2 = N[m].p2
                            /\ m \notin D => E[m] = N[m]
                            /\ m \in D => E[m].state \in {"release", "off"}
    BY <1>1, <1>4, ExpireShape
  <2>3. ExpiredList(L, N) \in Seq(DOMAIN N) /\ Started(ExpiredList(L, N), E)
    BY <1>1, <1>4, ExpireLists
  <2>4. \A m \in D : N[m].state \in {"on", "release", "off"}
    <3>1. \A m \in D : m \in Entries(L)
      <4>1. L \in Seq(S)
        BY <1>1
      <4> QED BY <4>1, DueFacts
    <3> QED BY <1>1, <3>1 DEF Started
  <2> HIDE DEF E, D
  <2>5. note' = E /\ frstoff' = ExpiredList(L, N)
    BY <1>6 DEF E
  <2>6. ASSUME NEW m \in S, m # n, note[m].state \notin {"on", "release", "off"} PROVE E[m] = note[m]
    <3>1. N[m] = note[m]
      BY <1>1, <2>6
    <3>2. m \notin D
      BY <2>4, <2>6, <3>1
    <3> QED BY <1>1, <2>2, <3>1, <3>2
  <2>7. E[n].state \in {"on", "release", "off"}
    <3>1. n \in DOMAIN N
      BY <1>1 DEF S
    <3> QED BY <1>3, <2>2, <3>1
  <2>8. \A m \in S : E[m].p2 = note[m].p2
    BY <1>1, <1>3, <2>2
  <2>9. \A m \in S : E[m] = note[m] \/ E[m].state \in {"on", "release", "off"}
    <3> TAKE m \in S
    <3>1. CASE m = n
      BY <2>7, <3>1
    <3>2. CASE m # n
      BY <1>1, <2>2, <3>2
    <3> QED BY <3>1, <3>2
  <2> QED BY <1>1, <2>1, <2>3, <2>5, <2>6, <2>7, <2>8, <2>9 DEF S
<1> QED BY <1>5, <1>6, InsertCases DEF N, L

\* In realtime mode the end is moved with the insertion.
LEMMA InsertRt ==
    ASSUME TypeOK, Started(frstoff, note), NEW n \in DOMAIN note, note[n].state = "queued", Insert(n), realtime,
           \A m \in DOMAIN note : RtNote(note[m], global_kcounter)
    PROVE  \A m \in DOMAIN note : RtNote(note'[m], global_kcounter)
<1> DEFINE N == NoteOn(n)
           L == ListOn(n)
           k == global_kcounter
<1>1. /\ N \in Seq(Notes) /\ DOMAIN N = DOMAIN note
      /\ \A m \in DOMAIN note : m # n => N[m] = note[m]
      /\ N[n] = [note[n] EXCEPT !.state = "on", !.off = offtim(n)]
      /\ L \in Seq(DOMAIN note) /\ Started(L, N)
  BY OnShape
<1>2. note[n] \in Notes
  BY ElementOfSeq DEF TypeOK
<1>3. /\ N[n].state = "on" /\ N[n].p2 = note[n].p2 /\ N[n].p3 = note[n].p3 /\ N[n].ran = note[n].ran
      /\ N[n].off = offtim(n)
  BY <1>1, <1>2 DEF Notes
<1>4. note[n].ran = 0
  BY DEF RtNote
<1>5. offtim(n) = ksmps * Boundary(note[n].p2 + note[n].p3) + (ksmps * k - note[n].p2)
  BY OffTimeIs
<1>6. RtNote(N[n], k)
  <2>1. k - N[n].ran = k
    BY <1>3, <1>4 DEF TypeOK
  <2>2. ksmps * Boundary(note[n].p2 + note[n].p3) \in Int /\ ksmps * k \in Int /\ note[n].p2 \in Int
    <3>1. ksmps \in Nat /\ k \in Nat /\ Boundary(note[n].p2 + note[n].p3) \in Int
      BY <1>2, NoteTimes, TimesAssumption DEF TypeOK
    <3>2. note[n].p2 \in Int
      BY <1>2 DEF Notes
    <3> QED BY <3>1, <3>2
  <2>3. N[n].off = ksmps * Boundary(N[n].p2 + N[n].p3) + ksmps * (k - N[n].ran) - N[n].p2
    BY <1>3, <1>5, <2>1, <2>2
  <2> HIDE DEF N
  <2> QED BY <1>3, <2>3 DEF RtNote
<1> HIDE DEF N, L
<1>7. \A m \in DOMAIN N : RtNote(N[m], k)
  BY <1>1, <1>6
<1>8. CASE note' = N
  BY <1>1, <1>7, <1>8
<1>9. CASE note' = ExpiredNotes(L, N)
  <2>1. L \in Seq(DOMAIN N)
    BY <1>1
  <2>2. \A m \in DOMAIN N : RtNote(ExpiredNotes(L, N)[m], k)
    BY <1>1, <1>7, <2>1, ExpireRt
  <2> QED BY <1>1, <1>9, <2>2
<1> QED BY <1>8, <1>9, InsertCases DEF N, L

\* Otherwise a note that is inserted next to its p2 joins the list in its order,
\* and if it is due already then it is the head.
LEMMA InsertScore ==
    ASSUME TypeOK, Started(frstoff, note), NEW n \in DOMAIN note, note[n].state = "read", Insert(n), ~realtime,
           global_kcounter = Boundary(note[n].p2),
           \A m \in DOMAIN note : ScoreNoteOK(note[m], global_kcounter),
           ScoreList(frstoff, note, global_kcounter + 1)
    PROVE  /\ \A m \in DOMAIN note : ScoreNoteOK(note'[m], global_kcounter)
           /\ ScoreList(frstoff', note', global_kcounter + 1)
<1> DEFINE N == NoteOn(n)
           L == ListOn(n)
           k == global_kcounter
           S == DOMAIN note
<1>1. /\ N \in Seq(Notes) /\ DOMAIN N = S
      /\ \A m \in S : m # n => N[m] = note[m]
      /\ N[n] = [note[n] EXCEPT !.state = "on", !.off = offtim(n)]
      /\ L \in Seq(S) /\ Started(L, N)
      /\ Entries(L) = Entries(frstoff) \cup {n}
      /\ Sorted(frstoff, N) => Sorted(L, N)
      /\ (\A i \in DOMAIN frstoff : N[frstoff[i]].off > N[n].off) => L[1] = n
  BY OnShape
<1>2. \A m \in S : note[m] \in Notes /\ N[m] \in Notes
  BY <1>1, ElementOfSeq DEF TypeOK
<1>3. /\ N[n].state = "on" /\ N[n].p2 = note[n].p2 /\ N[n].p3 = note[n].p3 /\ N[n].ran = note[n].ran
      /\ N[n].off = offtim(n)
  BY <1>1, <1>2 DEF Notes
<1>4. note[n].ran = 0 /\ k \in Nat
  BY DEF ScoreNoteOK, TypeOK
<1>5. offtim(n) = ksmps * Boundary(note[n].p2 + note[n].p3) + 0
  BY OffTimeIs
<1>6. EndOf(N[n]) = Boundary(note[n].p2 + note[n].p3) + 0
  BY <1>3 DEF EndOf
<1>7. /\ Boundary(note[n].p2 + note[n].p3) \in Int /\ ksmps * Boundary(note[n].p2 + note[n].p3) \in Int
      /\ k <= Boundary(note[n].p2 + note[n].p3)
  <2>1. note[n] \in Notes
    BY <1>2
  <2>2. /\ Boundary(note[n].p2 + note[n].p3) \in Int /\ k <= Boundary(note[n].p2 + note[n].p3)
    BY <2>1, NoteTimes
  <2> QED BY <2>2, TimesAssumption
<1>8. N[n].off = ksmps * EndOf(N[n]) /\ EndOf(N[n]) >= k /\ EndOf(N[n]) \in Int /\ N[n].ran = k - Boundary(N[n].p2)
  BY <1>3, <1>4, <1>5, <1>6, <1>7
<1>9. ScoreNoteOK(N[n], k)
  <2> HIDE DEF N
  <2> QED BY <1>3, <1>8 DEF ScoreNoteOK
<1>10. Entries(frstoff) \subseteq S
  BY DEF TypeOK, Entries
<1> HIDE DEF N, L, S
<1>11. \A m \in S : ScoreNoteOK(N[m], k)
  BY <1>1, <1>9 DEF S
<1>12. n \in S /\ n \notin Entries(frstoff)
  BY DEF S, Started
<1>13. /\ \A m \in S : note[m].state \in {"on", "release"} <=> m \in Entries(frstoff)
       /\ Sorted(frstoff, note)
       /\ \A m \in Entries(frstoff) : EndOf(note[m]) >= k + 1
  BY DEF ScoreList, S
<1>14. \A m \in S : N[m].state \in {"on", "release"} <=> m \in Entries(L)
  BY <1>1, <1>3, <1>12, <1>13
<1>15. \A m \in Entries(frstoff) : N[m] = note[m]
  BY <1>1, <1>10, <1>12
<1>16. Sorted(L, N)
  <2>1. \A i \in DOMAIN frstoff : frstoff[i] \in Entries(frstoff)
    BY DEF Entries
  <2>2. Sorted(frstoff, N)
    BY <1>13, <1>15, <2>1 DEF Sorted
  <2> QED BY <1>1, <2>2
<1>17. \A m \in Entries(L) : m \in S /\ EndOf(N[m]) \in Int /\ N[m].off = ksmps * EndOf(N[m])
  <2> TAKE m \in Entries(L)
  <2>1. m \in S
    BY <1>1, <1>10, <1>12
  <2>2. N[m].state \in {"on", "release"}
    BY <1>14, <2>1
  <2>3. EndOf(N[m]) \in Int
    BY <1>2, <2>1, NoteTimes
  <2> QED BY <1>11, <2>1, <2>2, <2>3 DEF ScoreNoteOK
<1>18. CASE EndOf(N[n]) <= k
  <2>1. Expired(N[n].off)
    BY <1>8, <1>18, ExpiredIs
  <2>2. \A m \in Entries(frstoff) : N[m].off > N[n].off
    <3> TAKE m \in Entries(frstoff)
    <3>1. m \in Entries(L) /\ EndOf(N[m]) >= k + 1
      BY <1>1, <1>13, <1>15
    <3>2. m \in S /\ EndOf(N[m]) \in Int /\ ~(EndOf(N[m]) <= k) /\ N[m].off = ksmps * EndOf(N[m])
      BY <1>4, <1>17, <3>1
    <3>3. ~Expired(N[m].off)
      BY <3>2, ExpiredIs
    <3>4. N[m].off \in Int /\ N[n].off \in Int
      BY <1>2, <1>12, <3>2 DEF Notes
    <3>5. ksmps \in Nat /\ icurTimeSamples \in Int
      <4>1. ksmps \in Nat /\ icurTimeSamples = ksmps * k
        BY TimesAssumption DEF TypeOK
      <4> QED BY <1>4, <4>1
    <3> QED BY <2>1, <3>3, <3>4, <3>5 DEF Expired
  <2>3. L[1] = n
    BY <1>1, <2>2 DEF Entries
  <2>4. note' = ExpiredNotes(L, N) /\ frstoff' = ExpiredList(L, N)
    BY <2>1, <2>3, InsertCases DEF N, L
  <2>5. ScoreList(L, N, k)
    <3>1. \A m \in Entries(L) : EndOf(N[m]) >= k
      <4> TAKE m \in Entries(L)
      <4>1. CASE m = n
        BY <1>8, <4>1
      <4>2. CASE m # n
        BY <1>1, <1>4, <1>13, <1>15, <1>17, <4>2
      <4> QED BY <4>1, <4>2
    <3> QED BY <1>1, <1>14, <1>16, <3>1 DEF ScoreList
  <2>6. L \in Seq(DOMAIN N)
    BY <1>1
  <2>7. /\ \A m \in DOMAIN N : ScoreNoteOK(ExpiredNotes(L, N)[m], k)
        /\ ScoreList(ExpiredList(L, N), ExpiredNotes(L, N), k + 1)
    BY <1>1, <1>11, <2>5, <2>6, ExpireScore
  <2> QED BY <1>1, <2>4, <2>7 DEF S
<1>19. CASE ~(EndOf(N[n]) <= k)
  <2>1. ~Expired(N[n].off)
    BY <1>8, <1>19, ExpiredIs
  <2>2. note' = N /\ frstoff' = L
    BY <2>1, InsertCases DEF N, L
  <2>3. \A m \in Entries(L) : EndOf(N[m]) >= k + 1
    BY <1>1, <1>4, <1>8, <1>13, <1>15, <1>19
  <2> QED BY <1>1, <1>11, <1>14, <1>16, <2>2, <2>3 DEF ScoreList, S
<1> QED BY <1>18, <1>19

-----------------------------------------------------------------------------
(* The steps.                                                              *)

\* The invariant holds when the performance begins.
LEMMA InitInv == ASSUME Init PROVE IInv
<1>1. ksmps \in Nat \ {0} /\ ksmps * 0 = 0 /\ Boundary(0) = 0
  <2>1. ksmps \in Nat \ {0} /\ ksmps * 0 = 0
    BY TimesAssumption
  <2> QED BY <2>1, BoundaryOfPeriod
<1>2. TypeOK
  BY <1>1 DEF Init, TypeOK, NoEvent
<1>3. TimeInv
  BY <1>1 DEF Init, TimeInv, EvtWaits, NoQueue, WaitLeads, BetweenEvents, WaitsOn, LastTimes, NoEvent
<1>4. LengthInv
  BY DEF Init, LengthInv, Started, Entries, ScoreList, Sorted
<1>5. RtEventsInv
  BY DEF Init, RtEventsInv, Ordered
<1> QED BY <1>2, <1>3, <1>4, <1>5 DEF IInv

\* A step that leaves the notes, the list and the period alone.
LEMMA LengthSame ==
    ASSUME LengthInv, UNCHANGED <<realtime, global_kcounter, frstoff, note>>,
           sense'.rtsection = sense.rtsection, nextEnd' = nextEnd
    PROVE  LengthInv'
BY DEF LengthInv

\* The times of the notes do not change.
LEMMA TimesSame ==
    ASSUME DOMAIN note' = DOMAIN note, \A m \in DOMAIN note : note'[m].p2 = note[m].p2, timeOffs' = timeOffs
    PROVE  LastTimes' = LastTimes
BY DEF LastTimes

\* time_expire on the off-time list
LEMMA ExpireSame ==
    ASSUME TypeOK, Started(frstoff, note),
           note' = ExpiredNotes(frstoff, note), frstoff' = ExpiredList(frstoff, note)
    PROVE  /\ note' \in Seq(Notes) /\ DOMAIN note' = DOMAIN note
           /\ frstoff' \in Seq(DOMAIN note)
           /\ Started(frstoff', note')
           /\ \A m \in DOMAIN note : note'[m].p2 = note[m].p2
           /\ \A m \in DOMAIN note : note[m].state \notin {"on", "release", "off"} => note'[m] = note[m]
           /\ \A m \in DOMAIN note : note'[m] = note[m] \/ note'[m].state \in {"release", "off"}
<1> DEFINE E == ExpiredNotes(frstoff, note)
           D == Entries(Due(frstoff, note))
<1>1. note \in Seq(Notes) /\ frstoff \in Seq(DOMAIN note)
  BY DEF TypeOK
<1>2. E \in Seq(Notes) /\ DOMAIN E = DOMAIN note
  BY <1>1, ExpireShape
<1>3. \A m \in DOMAIN note : /\ E[m].p2 = note[m].p2
                             /\ m \notin D => E[m] = note[m]
                             /\ m \in D => E[m].state \in {"release", "off"}
  BY <1>1, ExpireShape
<1>4. ExpiredList(frstoff, note) \in Seq(DOMAIN note) /\ Started(ExpiredList(frstoff, note), E)
  BY <1>1, ExpireLists
<1>5. \A m \in D : note[m].state \in {"on", "release", "off"}
  <2>1. \A m \in D : m \in Entries(frstoff)
    BY <1>1, DueFacts
  <2> QED BY <2>1 DEF Started
<1> HIDE DEF E, D
<1>6. note' = E
  BY DEF E
<1> QED BY <1>2, <1>3, <1>4, <1>5, <1>6

\* A leaf of the steps below: what the clock and the events are.
LEMMA TypeFacts ==
    ASSUME TypeOK
    PROVE  /\ realtime \in BOOLEAN /\ global_kcounter \in Nat /\ cyclesRemaining \in Int /\ nxtim \in Int
           /\ evt.opcod \in {"0", "i", "s", "e"} /\ evt.note \in Nat
           /\ sense.pc \in {"sense", "score", "events", "perform", "ended"}
           /\ sense.rtsection \in BOOLEAN /\ sense.waited \in BOOLEAN
           /\ icurTimeSamples = ksmps * global_kcounter /\ icurTimeSamples \in Nat /\ ksmps \in Nat \ {0}
<1>1. ksmps \in Nat \ {0} /\ global_kcounter \in Nat
  BY TimesAssumption DEF TypeOK
<1>2. ksmps * global_kcounter \in Nat
  BY <1>1
<1> QED BY <1>1, <1>2 DEF TypeOK

\* The start of sense_events: time_expire, unless the lock is busy, and one period less to wait.
LEMMA SenseKeeps ==
    ASSUME IInv, NEW busy \in BOOLEAN, Sense(busy)
    PROVE  IInv'
<1>1. /\ sense.pc = "sense" /\ (busy => realtime)
      /\ cyclesRemaining' = IF cyclesRemaining = 0 THEN 0 ELSE cyclesRemaining - 1
      /\ sense' = [sense EXCEPT !.pc = "score", !.waited = FALSE]
      /\ UNCHANGED <<realtime, icurTimeSamples, global_kcounter, timeOffs, nxtim, evt, OrcTrigEvts>>
  BY DEF Sense, MayBeBusy, clock
<1>2. \/ busy /\ note' = note /\ frstoff' = frstoff
      \/ ~busy /\ note' = ExpiredNotes(frstoff, note) /\ frstoff' = ExpiredList(frstoff, note)
  BY DEF Sense
<1>3. TypeOK /\ TimeInv /\ LengthInv /\ RtEventsInv
  BY DEF IInv
<1>4. note \in Seq(Notes) /\ frstoff \in Seq(DOMAIN note) /\ Started(frstoff, note)
  BY <1>3 DEF TypeOK, LengthInv
<1>5. /\ note' \in Seq(Notes) /\ DOMAIN note' = DOMAIN note
      /\ frstoff' \in Seq(DOMAIN note)
      /\ Started(frstoff', note')
      /\ \A m \in DOMAIN note : note'[m].p2 = note[m].p2
      /\ \A m \in DOMAIN note : note[m].state \notin {"on", "release", "off"} => note'[m] = note[m]
      /\ \A m \in DOMAIN note : note'[m] = note[m] \/ note'[m].state \in {"release", "off"}
  BY <1>2, <1>3, <1>4, ExpireSame
<1>6. /\ sense'.pc = "score" /\ sense'.rtsection = sense.rtsection /\ sense'.waited = FALSE
      /\ sense' \in [pc : {"sense", "score", "events", "perform", "ended"}, made : Nat, section : Nat,
                     rtsection : BOOLEAN, waited : BOOLEAN]
  BY <1>1, <1>3 DEF TypeOK
<1>7. TypeOK'
  BY <1>1, <1>3, <1>5, <1>6 DEF TypeOK
<1>8. TimeInv'
  <2>1. EvtWaits'
    BY <1>1, <1>3, <1>5 DEF TimeInv, EvtWaits
  <2>2. NoQueue'
    BY <1>1, <1>3, <1>5 DEF TimeInv, NoQueue
  <2>3. waitTime' = waitTime
    <3>1. cyclesRemaining \in Int
      BY <1>3, TypeFacts
    <3> QED BY <1>1, <1>6, <3>1 DEF waitTime
  <2>4. WaitLeads'
    BY <1>1, <1>3, <1>5, <1>6, <2>3 DEF TimeInv, WaitLeads, EvtWaits
  <2>5. BetweenEvents'
    BY <1>1, <1>3, <1>5, <1>6, TimesSame, TypeFacts DEF TimeInv, BetweenEvents
  <2>6. WaitsOn'
    BY <1>6 DEF WaitsOn
  <2> QED BY <2>1, <2>2, <2>4, <2>5, <2>6 DEF TimeInv
<1>9. LengthInv'
  <2>1. realtime' => \A n \in DOMAIN note' : RtNote(note'[n], global_kcounter')
    <3>1. CASE busy
      BY <1>1, <1>2, <1>3, <3>1 DEF LengthInv
    <3>2. CASE ~busy
      BY <1>1, <1>2, <1>3, <1>4, <1>5, <3>2, ExpireRt DEF LengthInv
    <3> QED BY <3>1, <3>2
  <2>2. ~realtime' /\ ~sense'.rtsection =>
          /\ \A n \in DOMAIN note' : ScoreNoteOK(note'[n], global_kcounter')
          /\ ScoreList(frstoff', note', nextEnd')
    <3> SUFFICES ASSUME ~realtime, ~sense.rtsection
                 PROVE  /\ \A n \in DOMAIN note : ScoreNoteOK(note'[n], global_kcounter)
                        /\ ScoreList(frstoff', note', nextEnd')
      BY <1>1, <1>5, <1>6
    <3>1. nextEnd = global_kcounter /\ nextEnd' = global_kcounter + 1
      <4>1. global_kcounter \in Nat
        BY <1>3, TypeFacts
      <4> QED BY <1>1, <1>6, <4>1 DEF nextEnd
    <3>2. /\ \A n \in DOMAIN note : ScoreNoteOK(note[n], global_kcounter)
          /\ ScoreList(frstoff, note, global_kcounter)
      BY <1>3, <3>1 DEF LengthInv
    <3>3. note' = ExpiredNotes(frstoff, note) /\ frstoff' = ExpiredList(frstoff, note)
      BY <1>1, <1>2
    <3> QED BY <1>3, <1>4, <3>1, <3>2, <3>3, ExpireScore
  <2> QED BY <1>5, <2>1, <2>2 DEF LengthInv
<1>10. RtEventsInv'
  BY <1>1, <1>3, <1>6 DEF RtEventsInv
<1> QED BY <1>7, <1>8, <1>9, <1>10 DEF IInv

\* At the score no period is left of the wait.
LEMMA AtScoreFacts ==
    ASSUME TypeOK, TimeInv, AtScore
    PROVE  /\ sense.pc = "score" /\ cyclesRemaining <= 0 /\ waitTime = 0 /\ ~sense.waited
           /\ nextEnd = global_kcounter + 1
           /\ evt.opcod = "i" => /\ evt.note \in DOMAIN note /\ note[evt.note].state = "read"
                                 /\ global_kcounter >= Boundary(note[evt.note].p2)
                                 /\ sense.rtsection \/ global_kcounter = Boundary(note[evt.note].p2)
<1>1. sense.pc = "score" /\ cyclesRemaining <= 0
  BY DEF AtScore
<1>2. cyclesRemaining \in Int /\ global_kcounter \in Nat
  BY TypeFacts
<1>3. waitTime = 0 /\ nextEnd = global_kcounter + 1
  BY <1>1, <1>2 DEF waitTime, nextEnd
<1>4. ~sense.waited
  BY <1>1, <1>2 DEF TimeInv, WaitsOn
<1>5. evt.opcod = "i" => /\ evt.note \in DOMAIN note /\ note[evt.note].state = "read"
                         /\ global_kcounter >= Boundary(note[evt.note].p2)
                         /\ sense.rtsection \/ global_kcounter = Boundary(note[evt.note].p2)
  BY <1>2, <1>3 DEF TimeInv, EvtWaits, WaitLeads
<1> QED BY <1>1, <1>3, <1>4, <1>5

\* The wait for a note, from now on.
LEMMA AheadOf ==
    ASSUME TypeOK, NEW t \in Nat, Ahead(t, FALSE)
    PROVE  /\ cyclesRemaining' \in Int /\ nxtim' \in Int
           /\ t >= ksmps * global_kcounter =>
                 cyclesRemaining' = Boundary(t) - global_kcounter /\ Boundary(t) >= global_kcounter
           /\ t < ksmps * global_kcounter => cyclesRemaining' <= 0 /\ Boundary(t) <= global_kcounter
<1> DEFINE k == global_kcounter
           w == ksmps * k
           r == RNDINT64(t - w, ksmps)
<1>1. ksmps \in Nat \ {0} /\ k \in Nat /\ icurTimeSamples = w /\ w \in Nat
  BY TypeFacts
<1>2. cyclesRemaining' = r /\ nxtim' = r * ksmps + w
  BY <1>1 DEF Ahead, Cycles
<1>3. r \in Int
  <2>1. t - w \in Int
    BY <1>1
  <2> HIDE DEF w
  <2> QED BY <1>1, <2>1, RoundInt
<1>4. t >= w => r = Boundary(t) - k /\ Boundary(t) >= k
  <2> SUFFICES ASSUME t >= w PROVE r = Boundary(t) - k /\ Boundary(t) >= k
    OBVIOUS
  <2>1. t \in Int /\ k \in Int /\ w <= t /\ w \in Int
    BY <1>1
  <2>2. r = Boundary(t) - k
    BY <2>1, WaitAhead
  <2>3. Boundary(t) >= Boundary(w) /\ Boundary(w) = k
    <3>1. Boundary(w) = k
      BY <2>1, BoundaryOfPeriod
    <3> HIDE DEF w
    <3>2. Boundary(w) <= Boundary(t) /\ Boundary(t) \in Int
      BY <2>1, BoundaryMonotone, BoundaryRange
    <3> QED BY <2>1, <3>1, <3>2
  <2> QED BY <2>2, <2>3
<1>5. t < w => r <= 0 /\ Boundary(t) <= k
  <2> SUFFICES ASSUME t < w PROVE r <= 0 /\ Boundary(t) <= k
    OBVIOUS
  <2> QED BY <1>1, WaitBehind
<1> HIDE DEF r
<1>6. r * ksmps + w \in Int
  <2>1. r * ksmps \in Int
    BY <1>1, <1>3
  <2> QED BY <1>1, <2>1
<1> QED BY <1>2, <1>3, <1>4, <1>5, <1>6

\* A note read from the score: the wait leads to its boundary.
LEMMA ReadNoteKeeps ==
    ASSUME IInv, NEW p2 \in Starts, NEW p3 \in Lengths, NEW xtra \in Extras, ReadNote(p2, p3, xtra)
    PROVE  IInv'
<1> DEFINE t == p2 + timeOffs
           x == [p2 |-> t, p3 |-> p3, xtratim |-> xtra, state |-> "read", off |-> 0, ran |-> 0]
           k == global_kcounter
<1>1. /\ AtScore /\ evt = NoEvent /\ (\A s \in LastTimes : s <= t)
      /\ note' = Append(note, x)
      /\ evt' = [opcod |-> "i", note |-> Len(note) + 1]
      /\ Ahead(t, FALSE)
      /\ UNCHANGED <<realtime, icurTimeSamples, global_kcounter, timeOffs, frstoff, OrcTrigEvts, sense>>
  BY DEF ReadNote, clock, LastTimes
<1>2. TypeOK /\ TimeInv /\ LengthInv /\ RtEventsInv
  BY DEF IInv
<1>3. p2 \in Nat /\ p3 \in Nat \ {0} /\ xtra \in Nat /\ timeOffs \in Nat /\ t \in Nat
  BY <1>2, TimesAssumption DEF TypeOK
<1>4. x \in Notes /\ x.state = "read" /\ x.ran = 0 /\ x.p2 = t
  BY <1>3 DEF Notes, States
<1> HIDE DEF x, t
<1>5. note \in Seq(Notes) /\ Len(note) \in Nat /\ DOMAIN note = 1..Len(note)
  BY <1>2 DEF TypeOK
<1>6. /\ note' \in Seq(Notes) /\ DOMAIN note' = 1..(Len(note) + 1)
      /\ note'[Len(note) + 1] = x /\ \A m \in DOMAIN note : note'[m] = note[m]
  BY <1>1, <1>4, <1>5
<1>7. DOMAIN note' = DOMAIN note \cup {Len(note) + 1} /\ Len(note) + 1 \notin DOMAIN note
  BY <1>5, <1>6
<1>8. Entries(frstoff) \subseteq DOMAIN note /\ Entries(frstoff)' = Entries(frstoff)
  BY <1>1, <1>2 DEF TypeOK, Entries
<1>9. /\ cyclesRemaining' \in Int /\ nxtim' \in Int
      /\ t >= ksmps * k => cyclesRemaining' = Boundary(t) - k /\ Boundary(t) >= k
      /\ t < ksmps * k => cyclesRemaining' <= 0 /\ Boundary(t) <= k
  BY <1>1, <1>2, <1>3, AheadOf
<1>10. TypeOK'
  <2>1. frstoff' \in Seq(DOMAIN note')
    <3>1. frstoff \in Seq(DOMAIN note)
      BY <1>2 DEF TypeOK
    <3> QED BY <1>1, <1>7, <3>1
  <2>2. evt' \in [opcod : {"0", "i", "s", "e"}, note : Nat]
    BY <1>1, <1>5
  <2> QED BY <1>1, <1>2, <1>6, <1>9, <2>1, <2>2 DEF TypeOK
<1>11. evt'.opcod = "i" /\ evt'.note = Len(note) + 1 /\ evt.opcod = "0"
  BY <1>1 DEF NoEvent
<1>12. TimeInv'
  <2>1. /\ sense.pc = "score" /\ cyclesRemaining <= 0 /\ ~sense.waited
    BY <1>1, <1>2, AtScoreFacts
  <2>2. EvtWaits'
    BY <1>4, <1>6, <1>7, <1>11 DEF EvtWaits
  <2>3. NoQueue'
    BY <1>1, <1>2, <1>4, <1>6, <1>7 DEF TimeInv, NoQueue
  <2>4. Boundary(t) \in Int /\ k \in Nat /\ ksmps * k \in Nat
    <3>1. t \in Int
      BY <1>3
    <3> QED BY <1>2, <3>1, BoundaryRange, TypeFacts
  <2>5. sense.rtsection \/ t >= ksmps * k \/ Boundary(t) = k
    <3> SUFFICES ASSUME ~sense.rtsection, t < ksmps * k PROVE Boundary(t) = k
      BY <1>3, <2>4
    <3>1. PICK s \in LastTimes : Boundary(s) = k
      BY <1>2, <1>11 DEF TimeInv, BetweenEvents
    <3>2. s <= t /\ s \in Int
      <4>1. \A m \in DOMAIN note : note[m].p2 \in Nat
        <5>1. \A m \in DOMAIN note : note[m] \in Notes
          BY <1>5
        <5> QED BY <5>1 DEF Notes
      <4> QED BY <1>1, <1>3, <4>1 DEF LastTimes
    <3>3. Boundary(s) <= Boundary(t)
      BY <1>3, <3>2, BoundaryMonotone
    <3> QED BY <1>9, <2>4, <3>1, <3>3
  <2>6. waitTime' = IF cyclesRemaining' <= 0 THEN 0 ELSE cyclesRemaining'
    BY <1>1, <2>1 DEF waitTime
  <2>7. WaitLeads'
    <3> SUFFICES /\ k + waitTime' >= Boundary(t)
                 /\ sense.rtsection \/ k + waitTime' = Boundary(t)
      BY <1>1, <1>4, <1>6, <1>11 DEF WaitLeads
    <3>1. CASE t >= ksmps * k
      BY <1>9, <2>4, <2>6, <3>1
    <3>2. CASE t < ksmps * k
      BY <1>9, <2>4, <2>5, <2>6, <3>2
    <3> QED BY <1>3, <2>4, <3>1, <3>2
  <2>8. BetweenEvents' /\ WaitsOn'
    BY <1>1, <1>11, <2>1 DEF BetweenEvents, WaitsOn
  <2> QED BY <2>2, <2>3, <2>7, <2>8 DEF TimeInv
<1>13. LengthInv'
  <2>1. Started(frstoff', note')
    BY <1>1, <1>2, <1>6, <1>8 DEF LengthInv, Started
  <2>2. realtime' => \A n \in DOMAIN note' : RtNote(note'[n], k')
    <3>1. RtNote(x, k)
      BY <1>4 DEF RtNote
    <3> QED BY <1>1, <1>2, <1>6, <1>7, <3>1 DEF LengthInv
  <2>3. ASSUME ~realtime, ~sense.rtsection
        PROVE  /\ \A n \in DOMAIN note' : ScoreNoteOK(note'[n], k')
               /\ ScoreList(frstoff', note', nextEnd')
    <3>1. ScoreNoteOK(x, k)
      BY <1>4 DEF ScoreNoteOK
    <3>2. (\A n \in DOMAIN note : ScoreNoteOK(note[n], k)) /\ ScoreList(frstoff, note, nextEnd)
      BY <1>2, <2>3 DEF LengthInv
    <3>3. nextEnd' = nextEnd
      BY <1>1 DEF nextEnd
    <3>4. \A i \in DOMAIN frstoff : frstoff[i] \in Entries(frstoff)
      BY DEF Entries
    <3>5. ScoreList(frstoff, note', nextEnd)
      BY <1>4, <1>6, <1>7, <1>8, <3>2, <3>4 DEF ScoreList, Sorted
    <3> QED BY <1>1, <1>6, <1>7, <3>1, <3>2, <3>3, <3>5
  <2> QED BY <1>1, <2>1, <2>2, <2>3 DEF LengthInv
<1>14. RtEventsInv'
  BY <1>1, <1>2 DEF RtEventsInv
<1> QED BY <1>10, <1>12, <1>13, <1>14 DEF IInv

\* A step of the list of realtime events, or of the place in sense_events.
LEMMA EasyKeeps ==
    ASSUME IInv, TypeOK', TimeInv',
           UNCHANGED <<realtime, global_kcounter, frstoff, note, OrcTrigEvts>>,
           sense'.rtsection = sense.rtsection, sense'.pc # "sense", sense.pc # "sense",
           sense'.pc = "perform" => sense.pc = "perform"
    PROVE  IInv'
<1>1. nextEnd' = nextEnd
  BY DEF nextEnd
<1>2. LengthInv'
  BY <1>1, LengthSame DEF IInv
<1>3. RtEventsInv'
  <2>1. global_kcounter \in Nat /\ \A i \in DOMAIN OrcTrigEvts : OrcTrigEvts[i] \in Nat
    BY DEF IInv, TypeOK
  <2> QED BY <2>1 DEF IInv, RtEventsInv
<1> QED BY <1>2, <1>3 DEF IInv

\* A section end or a score end read from the score.
LEMMA ReadEndKeeps ==
    ASSUME IInv, NEW opcod \in {"s", "e"}, ReadEnd(opcod)
    PROVE  IInv'
<1>1. /\ AtScore /\ evt' = [opcod |-> opcod, note |-> 0]
      /\ UNCHANGED <<realtime, icurTimeSamples, global_kcounter, timeOffs, cyclesRemaining, nxtim, frstoff, note,
                     OrcTrigEvts, sense>>
  BY DEF ReadEnd, clock
<1>2. TypeOK /\ TimeInv /\ evt'.opcod = opcod
  BY <1>1 DEF IInv
<1>3. TypeOK'
  BY <1>1, <1>2 DEF TypeOK
<1>4. TimeInv'
  BY <1>1, <1>2 DEF TimeInv, EvtWaits, NoQueue, WaitLeads, BetweenEvents, WaitsOn, AtScore
<1> QED BY <1>1, <1>3, <1>4, EasyKeeps DEF AtScore

\* The wait of an end for the notes takes a period at least.
LEMMA WaitKeeps ==
    ASSUME IInv, NEW busy \in BOOLEAN, Wait(busy)
    PROVE  IInv'
<1>1. /\ AtScore /\ evt.opcod \in {"s", "e"}
      /\ sense' = [sense EXCEPT !.waited = TRUE]
      /\ UNCHANGED <<realtime, icurTimeSamples, global_kcounter, timeOffs, evt, frstoff, note, OrcTrigEvts>>
  BY DEF Wait, clock
<1>2. TypeOK /\ TimeInv
  BY DEF IInv
<1>3. \E t \in Int : Ahead(t, TRUE)
  <2>1. icurTimeSamples + ksmps \in Int /\ nxtim \in Int
    BY <1>2, TypeFacts
  <2>2. frstoff # <<>> => note[frstoff[1]].off \in Int
    <3> SUFFICES ASSUME frstoff # <<>> PROVE note[frstoff[1]].off \in Int
      OBVIOUS
    <3>1. frstoff[1] \in DOMAIN note
      BY <1>2 DEF TypeOK
    <3>2. note[frstoff[1]] \in Notes
      BY <1>2, <3>1 DEF TypeOK
    <3> QED BY <3>2 DEF Notes
  <2>3. CASE Ahead(icurTimeSamples + ksmps, TRUE)
    BY <2>1, <2>3
  <2>4. CASE frstoff # <<>> /\ Ahead(IF busy THEN nxtim ELSE note[frstoff[1]].off, TRUE)
    <3>1. (IF busy THEN nxtim ELSE note[frstoff[1]].off) \in Int
      BY <2>1, <2>2, <2>4
    <3> QED BY <2>4, <3>1
  <2> QED BY <2>3, <2>4 DEF Wait
<1>4. PICK t \in Int : Ahead(t, TRUE)
  BY <1>3
<1>5. cyclesRemaining' \in Int /\ cyclesRemaining' > 0 /\ nxtim' \in Int
  <2> DEFINE r == RNDINT64(t - icurTimeSamples, ksmps)
  <2>1. r \in Int
    <3>1. t - icurTimeSamples \in Int /\ ksmps \in Nat \ {0}
      BY <1>2, TypeFacts
    <3> QED BY <3>1, RoundInt
  <2>2. cyclesRemaining' = (IF r <= 0 THEN 1 ELSE r) /\ nxtim' = r * ksmps + icurTimeSamples
    BY <1>4 DEF Ahead, Cycles
  <2> HIDE DEF r
  <2>3. r * ksmps + icurTimeSamples \in Int
    <3>1. ksmps \in Int /\ icurTimeSamples \in Int
      BY <1>2, TypeFacts
    <3>2. r * ksmps \in Int
      BY <2>1, <3>1
    <3> QED BY <3>1, <3>2
  <2> QED BY <2>1, <2>2, <2>3
<1>6. /\ sense'.pc = "score" /\ sense.pc = "score" /\ sense'.rtsection = sense.rtsection
      /\ sense' \in [pc : {"sense", "score", "events", "perform", "ended"}, made : Nat, section : Nat,
                     rtsection : BOOLEAN, waited : BOOLEAN]
  BY <1>1, <1>2 DEF TypeOK, AtScore
<1>7. TypeOK'
  BY <1>1, <1>2, <1>5, <1>6 DEF TypeOK
<1>8. TimeInv'
  BY <1>1, <1>2, <1>5, <1>6 DEF TimeInv, EvtWaits, NoQueue, WaitLeads, BetweenEvents, WaitsOn
<1> QED BY <1>1, <1>6, <1>7, <1>8, EasyKeeps

\* sense_events leaves the score for the realtime events.
LEMMA ScoreDoneKeeps ==
    ASSUME IInv, ScoreDone
    PROVE  IInv'
<1>1. /\ sense.pc = "score" /\ cyclesRemaining > 0 /\ sense' = [sense EXCEPT !.pc = "events"]
      /\ UNCHANGED <<realtime, icurTimeSamples, global_kcounter, timeOffs, cyclesRemaining, nxtim, evt, frstoff, note,
                     OrcTrigEvts>>
  BY DEF ScoreDone, SenseGoes, clock
<1>2. TypeOK /\ TimeInv
  BY DEF IInv
<1>3. /\ sense'.pc = "events" /\ sense'.rtsection = sense.rtsection
      /\ sense' \in [pc : {"sense", "score", "events", "perform", "ended"}, made : Nat, section : Nat,
                     rtsection : BOOLEAN, waited : BOOLEAN]
  BY <1>1, <1>2 DEF TypeOK
<1>4. TypeOK'
  BY <1>1, <1>2, <1>3 DEF TypeOK
<1>5. waitTime' = waitTime
  BY <1>1, <1>3 DEF waitTime
<1>6. evt.opcod # "0" \/ sense.rtsection
  BY <1>1, <1>2, TypeFacts DEF TimeInv, BetweenEvents
<1>7. TimeInv'
  BY <1>1, <1>2, <1>3, <1>5, <1>6 DEF TimeInv, EvtWaits, NoQueue, WaitLeads, BetweenEvents, WaitsOn
<1> QED BY <1>1, <1>3, <1>4, <1>7, EasyKeeps

\* A score note is queued in realtime mode, and inserted otherwise.
LEMMA ScoreNoteKeeps ==
    ASSUME IInv, ScoreNote
    PROVE  IInv'
<1> DEFINE n == evt.note
           k == global_kcounter
<1>1. /\ AtScore /\ evt.opcod = "i" /\ evt' = NoEvent
      /\ UNCHANGED <<realtime, icurTimeSamples, global_kcounter, timeOffs, cyclesRemaining, nxtim, OrcTrigEvts, sense>>
      /\ \/ realtime /\ note' = [note EXCEPT ![n].state = "queued"] /\ frstoff' = frstoff
         \/ ~realtime /\ Insert(n)
  BY DEF ScoreNote, Dispatch, clock
<1>2. TypeOK /\ TimeInv /\ LengthInv /\ RtEventsInv
  BY DEF IInv
<1>3. /\ sense.pc = "score" /\ cyclesRemaining <= 0 /\ ~sense.waited
      /\ nextEnd = k + 1
      /\ n \in DOMAIN note /\ note[n].state = "read"
      /\ sense.rtsection \/ k = Boundary(note[n].p2)
  BY <1>1, <1>2, AtScoreFacts
<1>4. Started(frstoff, note) /\ note \in Seq(Notes) /\ frstoff \in Seq(DOMAIN note)
      /\ \A m \in DOMAIN note : note[m] \in Notes
  BY <1>2 DEF LengthInv, TypeOK
<1>5. CASE realtime
  <2>1. note' = [note EXCEPT ![n] = [note[n] EXCEPT !.state = "queued"]] /\ frstoff' = frstoff
    BY <1>1, <1>5
  <2>2. [note[n] EXCEPT !.state = "queued"] \in Notes
    BY <1>3, <1>4 DEF Notes, States
  <2>3. note[n].ran = 0
    BY <1>2, <1>3, <1>5 DEF LengthInv, RtNote
  <2> DEFINE x == [note[n] EXCEPT !.state = "queued"]
  <2>4. x.state = "queued" /\ x.ran = 0 /\ x.p2 = note[n].p2
    BY <1>3, <1>4, <2>3 DEF Notes
  <2> HIDE DEF x
  <2>5. /\ note' \in Seq(Notes) /\ DOMAIN note' = DOMAIN note /\ note'[n] = x
        /\ \A m \in DOMAIN note : m # n => note'[m] = note[m]
    BY <1>3, <1>4, <2>1, <2>2 DEF x
  <2>6. n \notin Entries(frstoff)
    BY <1>3, <1>4 DEF Started
  <2>7. Entries(frstoff) \subseteq DOMAIN note
    BY <1>4 DEF Entries
  <2>8. Started(frstoff', note')
    BY <1>4, <2>1, <2>5, <2>6, <2>7 DEF Started
  <2>9. \A m \in DOMAIN note : RtNote(note'[m], k)
    <3>1. RtNote(x, k)
      BY <2>4 DEF RtNote
    <3>2. \A m \in DOMAIN note : RtNote(note[m], k)
      BY <1>2, <1>5 DEF LengthInv
    <3> QED BY <2>5, <3>1, <3>2
  <2> QED
    <3>1. TypeOK'
      BY <1>1, <1>2, <1>4, <2>1, <2>5 DEF TypeOK, NoEvent
    <3>2. TimeInv'
      <4>1. LastTimes' = LastTimes
        BY <1>1, <2>4, <2>5, TimesSame
      <4>2. BetweenEvents'
        BY <1>1, <1>3, <2>4, <2>5 DEF BetweenEvents, LastTimes
      <4> QED BY <1>1, <1>2, <1>3, <1>5, <4>2 DEF TimeInv, EvtWaits, NoQueue, WaitLeads, WaitsOn, NoEvent
    <3>3. LengthInv'
      BY <1>1, <1>5, <2>5, <2>8, <2>9 DEF LengthInv
    <3>4. RtEventsInv'
      BY <1>1, <1>2 DEF RtEventsInv
    <3> QED BY <3>1, <3>2, <3>3, <3>4 DEF IInv
<1>6. CASE ~realtime
  <2>1. Insert(n)
    BY <1>1, <1>6
  <2>2. /\ note' \in Seq(Notes) /\ DOMAIN note' = DOMAIN note
        /\ frstoff' \in Seq(DOMAIN note)
        /\ Started(frstoff', note')
        /\ \A m \in DOMAIN note : note'[m].p2 = note[m].p2
        /\ \A m \in DOMAIN note :
             m # n /\ note[m].state \notin {"on", "release", "off"} => note'[m] = note[m]
        /\ \A m \in DOMAIN note : note'[m] = note[m] \/ note'[m].state \in {"on", "release", "off"}
        /\ note'[n].state \in {"on", "release", "off"}
    BY <1>2, <1>3, <1>4, <2>1, InsertShape
  <2>3. TypeOK'
    BY <1>1, <1>2, <2>2 DEF TypeOK, NoEvent
  <2>4. TimeInv'
    <3>1. \A m \in DOMAIN note' : note'[m].state # "queued"
      BY <1>2, <1>6, <2>2 DEF TimeInv, NoQueue
    <3>2. BetweenEvents'
      BY <1>1, <1>3, <2>2 DEF BetweenEvents, LastTimes
    <3> QED BY <1>1, <1>2, <1>3, <1>6, <3>1, <3>2 DEF TimeInv, EvtWaits, NoQueue, WaitLeads, WaitsOn, NoEvent
  <2>5. LengthInv'
    <3> SUFFICES ASSUME ~sense.rtsection
                 PROVE  /\ \A m \in DOMAIN note : ScoreNoteOK(note'[m], k)
                        /\ ScoreList(frstoff', note', nextEnd')
      BY <1>1, <1>6, <2>2 DEF LengthInv
    <3>1. /\ \A m \in DOMAIN note : ScoreNoteOK(note[m], k)
          /\ ScoreList(frstoff, note, k + 1)
      BY <1>2, <1>3, <1>6 DEF LengthInv
    <3>2. k = Boundary(note[n].p2)
      BY <1>3
    <3>3. nextEnd' = k + 1
      BY <1>1, <1>3 DEF nextEnd
    <3> QED BY <1>2, <1>3, <1>4, <1>6, <2>1, <3>1, <3>2, <3>3, InsertScore
  <2>6. RtEventsInv'
    BY <1>1, <1>2 DEF RtEventsInv
  <2> QED BY <2>3, <2>4, <2>5, <2>6 DEF IInv
<1> QED BY <1>5, <1>6

\* The event thread inserts a note, at any moment.
LEMMA EventInsertKeeps ==
    ASSUME IInv, NEW n, EventInsert(n)
    PROVE  IInv'
<1> DEFINE k == global_kcounter
<1>1. /\ n \in DOMAIN note /\ note[n].state = "queued" /\ Insert(n)
      /\ UNCHANGED <<realtime, icurTimeSamples, global_kcounter, timeOffs, cyclesRemaining, nxtim, evt, OrcTrigEvts, sense>>
  BY DEF EventInsert, clock
<1>2. TypeOK /\ TimeInv /\ LengthInv /\ RtEventsInv
  BY DEF IInv
<1>3. realtime /\ Started(frstoff, note)
  BY <1>1, <1>2 DEF TimeInv, NoQueue, LengthInv
<1>4. /\ note' \in Seq(Notes) /\ DOMAIN note' = DOMAIN note
      /\ frstoff' \in Seq(DOMAIN note)
      /\ Started(frstoff', note')
      /\ \A m \in DOMAIN note : note'[m].p2 = note[m].p2
      /\ \A m \in DOMAIN note :
           m # n /\ note[m].state \notin {"on", "release", "off"} => note'[m] = note[m]
  BY <1>1, <1>2, <1>3, InsertShape
<1>5. \A m \in DOMAIN note : RtNote(note'[m], k)
  <2>1. \A m \in DOMAIN note : RtNote(note[m], k)
    BY <1>2, <1>3 DEF LengthInv
  <2> QED BY <1>1, <1>2, <1>3, <2>1, InsertRt
<1>6. TypeOK'
  BY <1>1, <1>2, <1>4 DEF TypeOK
<1>7. TimeInv'
  <2>1. EvtWaits'
    BY <1>1, <1>2, <1>4 DEF TimeInv, EvtWaits
  <2>2. waitTime' = waitTime
    BY <1>1 DEF waitTime
  <2>3. LastTimes' = LastTimes
    BY <1>1, <1>4, TimesSame
  <2>4. WaitLeads'
    BY <1>1, <1>2, <1>4, <2>2 DEF TimeInv, WaitLeads, EvtWaits
  <2>5. BetweenEvents' /\ WaitsOn' /\ NoQueue'
    BY <1>1, <1>2, <1>3, <2>3 DEF TimeInv, BetweenEvents, WaitsOn, NoQueue
  <2> QED BY <2>1, <2>4, <2>5 DEF TimeInv
<1>8. LengthInv'
  BY <1>1, <1>3, <1>4, <1>5 DEF LengthInv
<1>9. RtEventsInv'
  BY <1>1, <1>2 DEF RtEventsInv
<1> QED BY <1>6, <1>7, <1>8, <1>9 DEF IInv

\* A section or the score ends once no note is left.
LEMMA ScoreEndKeeps ==
    ASSUME IInv, ScoreEnd
    PROVE  IInv'
<1>1. /\ AtScore /\ evt.opcod \in {"s", "e"} /\ frstoff = <<>>
      /\ UNCHANGED <<realtime, icurTimeSamples, global_kcounter, cyclesRemaining, frstoff, note>>
      /\ \/ NewSection(FALSE)
         \/ SenseGoes("ended") /\ UNCHANGED <<timeOffs, nxtim, evt, OrcTrigEvts>>
  BY DEF ScoreEnd, NewSection, clock
<1>2. TypeOK /\ TimeInv /\ LengthInv /\ RtEventsInv
  BY DEF IInv
<1>3. sense.pc = "score" /\ cyclesRemaining <= 0 /\ ~sense.waited
  BY <1>1, <1>2, AtScoreFacts
<1>4. CASE NewSection(FALSE)
  <2>1. /\ evt' = NoEvent /\ OrcTrigEvts' = <<>> /\ timeOffs' = icurTimeSamples /\ nxtim' = icurTimeSamples
        /\ sense' = [sense EXCEPT !.pc = "score", !.section = @ + 1, !.rtsection = @ \/ FALSE]
    BY <1>4 DEF NewSection
  <2>2. sense.section + 1 \in Nat /\ sense.rtsection \in BOOLEAN
    BY <1>2 DEF TypeOK
  <2>3. sense' = [sense EXCEPT !.section = sense.section + 1]
    BY <1>2, <1>3, <2>1 DEF TypeOK
  <2>4. /\ sense'.pc = "score" /\ sense'.rtsection = sense.rtsection /\ sense'.waited = sense.waited
        /\ sense' \in [pc : {"sense", "score", "events", "perform", "ended"}, made : Nat, section : Nat,
                       rtsection : BOOLEAN, waited : BOOLEAN]
    BY <1>2, <1>3, <2>2, <2>3 DEF TypeOK
  <2>5. TypeOK'
    <3>1. icurTimeSamples \in Nat
      BY <1>2, TypeFacts
    <3> QED BY <1>1, <1>2, <2>1, <2>4, <3>1 DEF TypeOK, NoEvent
  <2>6. TimeInv'
    <3>1. icurTimeSamples \in LastTimes' /\ Boundary(icurTimeSamples) = global_kcounter
      <4>1. icurTimeSamples = ksmps * global_kcounter /\ global_kcounter \in Int
        BY <1>2, TypeFacts
      <4>2. Boundary(ksmps * global_kcounter) = global_kcounter
        BY <4>1, BoundaryOfPeriod
      <4> QED BY <2>1, <4>1, <4>2 DEF LastTimes
    <3>2. BetweenEvents'
      BY <1>1, <1>3, <2>4, <3>1 DEF BetweenEvents
    <3> QED BY <1>1, <1>2, <1>3, <2>1, <2>4, <3>2 DEF TimeInv, EvtWaits, NoQueue, WaitLeads, WaitsOn, NoEvent
  <2>7. nextEnd' = nextEnd
    BY <1>1, <1>3, <2>4 DEF nextEnd
  <2>8. LengthInv'
    BY <1>1, <1>2, <2>4, <2>7, LengthSame
  <2>9. RtEventsInv'
    BY <2>1 DEF RtEventsInv, Ordered
  <2> QED BY <2>5, <2>6, <2>8, <2>9 DEF IInv
<1>5. CASE SenseGoes("ended") /\ UNCHANGED <<timeOffs, nxtim, evt, OrcTrigEvts>>
  <2>1. /\ sense'.pc = "ended" /\ sense'.rtsection = sense.rtsection
        /\ sense' \in [pc : {"sense", "score", "events", "perform", "ended"}, made : Nat, section : Nat,
                       rtsection : BOOLEAN, waited : BOOLEAN]
    BY <1>2, <1>5 DEF TypeOK, SenseGoes
  <2>2. TypeOK'
    BY <1>1, <1>2, <1>5, <2>1 DEF TypeOK
  <2>3. TimeInv'
    BY <1>1, <1>2, <1>5, <2>1 DEF TimeInv, EvtWaits, NoQueue, WaitLeads, BetweenEvents, WaitsOn
  <2> QED BY <1>1, <1>3, <1>5, <2>1, <2>2, <2>3, EasyKeeps
<1> QED BY <1>1, <1>4, <1>5

\* The list with an event, as insert_event_node leaves it
NodeIn(l, k) == InsertAt(l, First(l, {i \in DOMAIN l : l[i] > k}), k)

\* insert_event_node keeps the order.
LEMMA NodeFacts ==
    ASSUME NEW l \in Seq(Nat), NEW k \in Nat, Ordered(l)
    PROVE  /\ NodeIn(l, k) \in Seq(Nat) /\ Ordered(NodeIn(l, k))
           /\ Entries(NodeIn(l, k)) \subseteq Entries(l) \cup {k}
<1> DEFINE P == {i \in DOMAIN l : l[i] > k}
           p == First(l, P)
           r == NodeIn(l, k)
<1>1. Len(l) \in Nat /\ DOMAIN l = 1..Len(l) /\ \A i \in 1..Len(l) : l[i] \in Nat
  OBVIOUS
<1>2. /\ p \in 1..(Len(l) + 1)
      /\ p <= Len(l) => p \in P
      /\ \A i \in 1..(p - 1) : i \in DOMAIN l /\ i \notin P
  BY FirstPlace
<1>3. r = InsertAt(l, p, k)
  BY DEF NodeIn
<1> HIDE DEF p, r
<1>4. /\ r \in Seq(Nat) /\ Len(r) = Len(l) + 1
      /\ \A i \in 1..(Len(l) + 1) : r[i] = IF i < p THEN l[i] ELSE IF i = p THEN k ELSE l[i - 1]
  <2>1. /\ InsertAt(l, p, k) \in Seq(Nat) /\ Len(InsertAt(l, p, k)) = Len(l) + 1
        /\ \A i \in 1..(Len(l) + 1) :
             InsertAt(l, p, k)[i] = IF i < p THEN l[i] ELSE IF i = p THEN k ELSE l[i - 1]
    <3>1. PICK S : S = Nat
      OBVIOUS
    <3>2. l \in Seq(S) /\ k \in S
      BY <3>1
    <3>3. /\ InsertAt(l, p, k) \in Seq(S) /\ Len(InsertAt(l, p, k)) = Len(l) + 1
          /\ \A i \in 1..(Len(l) + 1) :
               InsertAt(l, p, k)[i] = IF i < p THEN l[i] ELSE IF i = p THEN k ELSE l[i - 1]
      BY <1>2, <3>2, Inserted
    <3> QED BY <3>1, <3>3
  <2> QED BY <1>3, <2>1
<1>5. DOMAIN r = 1..(Len(l) + 1)
  BY <1>4
<1>6. ASSUME NEW i \in 1..(Len(l) + 1)
      PROVE  \/ i < p /\ i \in 1..Len(l) /\ r[i] = l[i] /\ l[i] <= k
             \/ i = p /\ r[i] = k
             \/ i > p /\ i - 1 \in 1..Len(l) /\ p \in 1..Len(l) /\ r[i] = l[i - 1]
  <2>1. CASE i < p
    <3>1. i \in DOMAIN l /\ i \notin P
      BY <1>1, <1>2, <2>1
    <3> QED BY <1>1, <1>4, <2>1, <3>1
  <2>2. CASE i = p
    <3>1. ~(i < p)
      BY <1>2, <2>2
    <3> QED BY <1>4, <2>2, <3>1
  <2>3. CASE i > p
    <3>1. i - 1 \in 1..Len(l) /\ p \in 1..Len(l) /\ ~(i < p) /\ i # p
      BY <1>1, <1>2, <2>3
    <3>2. r[i] = l[i - 1]
      BY <1>4, <3>1
    <3> QED BY <2>3, <3>1, <3>2
  <2> QED BY <1>1, <1>2, <2>1, <2>2, <2>3
<1>7. Entries(r) \subseteq Entries(l) \cup {k}
  <2> SUFFICES ASSUME NEW i \in 1..(Len(l) + 1) PROVE r[i] \in Entries(l) \cup {k}
    BY <1>5 DEF Entries
  <2>1. \A j \in 1..Len(l) : l[j] \in Entries(l)
    BY <1>1 DEF Entries
  <2> QED BY <1>6, <2>1
<1>8. Ordered(r)
  <2> SUFFICES ASSUME NEW i \in 1..(Len(l) + 1), NEW j \in 1..(Len(l) + 1), i < j PROVE r[i] <= r[j]
    BY <1>5 DEF Ordered
  <2>0. ASSUME NEW a \in 1..Len(l), NEW b \in 1..Len(l), a <= b PROVE l[a] <= l[b]
    <3>1. CASE a = b
      BY <1>1, <3>1
    <3>2. CASE a # b
      <4>1. a < b
        BY <1>1, <2>0, <3>2
      <4> QED BY <1>1, <4>1 DEF Ordered
    <3> QED BY <3>1, <3>2
  <2>1. CASE j < p
    <3>1. i \in 1..Len(l) /\ r[i] = l[i] /\ j \in 1..Len(l) /\ r[j] = l[j] /\ i <= j
      BY <1>1, <1>2, <1>4, <2>1
    <3> QED BY <2>0, <3>1
  <2>2. CASE j = p
    <3>1. r[i] = l[i] /\ l[i] <= k
      BY <1>1, <1>2, <1>6, <2>2
    <3>2. r[j] = k
      BY <1>1, <1>2, <1>6, <2>2
    <3> QED BY <3>1, <3>2
  <2>3. CASE j > p
    <3>1. j - 1 \in 1..Len(l) /\ p \in 1..Len(l) /\ r[j] = l[j - 1] /\ p <= j - 1 /\ p \in P
      BY <1>1, <1>2, <1>6, <2>3
    <3>2. l[p] > k /\ l[p] <= l[j - 1] /\ l[j - 1] \in Nat /\ l[p] \in Nat
      BY <1>1, <2>0, <3>1
    <3>3. CASE i <= p
      <4>1. r[i] <= k /\ r[i] \in Nat
        BY <1>1, <1>2, <1>6, <3>3
      <4> QED BY <3>1, <3>2, <4>1
    <3>4. CASE i > p
      <4>1. i - 1 \in 1..Len(l) /\ r[i] = l[i - 1]
        BY <1>1, <1>2, <1>6, <3>4
      <4>2. i - 1 <= j - 1
        OBVIOUS
      <4> QED BY <2>0, <3>1, <4>1, <4>2
    <3> QED BY <1>1, <1>2, <3>3, <3>4
  <2> QED BY <1>1, <1>2, <2>1, <2>2, <2>3
<1> QED BY <1>4, <1>7, <1>8 DEF r

\* insert_event_node
LEMMA MakeRtKeeps ==
    ASSUME IInv, NEW delay \in Delays, MakeRt(delay)
    PROVE  IInv'
<1> DEFINE k == global_kcounter + delay
<1>1. /\ sense.pc \in {"events", "perform"}
      /\ OrcTrigEvts' = NodeIn(OrcTrigEvts, k)
      /\ sense' = [sense EXCEPT !.made = @ + 1]
      /\ UNCHANGED <<realtime, icurTimeSamples, global_kcounter, timeOffs, cyclesRemaining, nxtim, evt, frstoff, note>>
  BY DEF MakeRt, InsertNode, NodeIn, clock
<1>2. TypeOK /\ TimeInv /\ LengthInv /\ RtEventsInv
  BY DEF IInv
<1>3. k \in Nat /\ global_kcounter \in Nat /\ k >= global_kcounter
  BY <1>2, TypeFacts, TimesAssumption
<1>4. OrcTrigEvts \in Seq(Nat) /\ Ordered(OrcTrigEvts)
  BY <1>2 DEF TypeOK, RtEventsInv
<1> HIDE DEF k
<1>5. /\ OrcTrigEvts' \in Seq(Nat)
      /\ Ordered(OrcTrigEvts')
      /\ Entries(OrcTrigEvts') \subseteq Entries(OrcTrigEvts) \cup {k}
  BY <1>1, <1>3, <1>4, NodeFacts
<1>6. /\ sense'.pc = sense.pc /\ sense'.rtsection = sense.rtsection /\ sense'.waited = sense.waited
      /\ sense' \in [pc : {"sense", "score", "events", "perform", "ended"}, made : Nat, section : Nat,
                     rtsection : BOOLEAN, waited : BOOLEAN]
  <2>1. sense.made + 1 \in Nat
    BY <1>2 DEF TypeOK
  <2> QED BY <1>1, <1>2, <2>1 DEF TypeOK
<1>7. TypeOK'
  BY <1>1, <1>2, <1>5, <1>6 DEF TypeOK
<1>8. TimeInv'
  <2>1. waitTime' = waitTime
    BY <1>1, <1>6 DEF waitTime
  <2>2. LastTimes' = LastTimes
    BY <1>1 DEF LastTimes
  <2> QED BY <1>1, <1>2, <1>6, <2>1, <2>2
          DEF TimeInv, EvtWaits, NoQueue, WaitLeads, BetweenEvents, WaitsOn
<1>9. LengthInv'
  <2>1. nextEnd' = nextEnd
    BY <1>1, <1>6 DEF nextEnd
  <2> QED BY <1>1, <1>2, <1>6, <2>1, LengthSame
<1>10. RtEventsInv'
  <2>1. ASSUME ~realtime, NEW i \in DOMAIN OrcTrigEvts'
        PROVE  OrcTrigEvts'[i] >= global_kcounter - IF sense.pc = "perform" THEN 0 ELSE 1
    <3>1. CASE OrcTrigEvts'[i] = k
      BY <1>3, <3>1
    <3>2. CASE \E j \in DOMAIN OrcTrigEvts : OrcTrigEvts'[i] = OrcTrigEvts[j]
      BY <1>2, <2>1, <3>2 DEF RtEventsInv
    <3> QED BY <1>5, <3>1, <3>2 DEF Entries
  <2> QED BY <1>1, <1>5, <1>6, <2>1 DEF RtEventsInv
<1> QED BY <1>7, <1>8, <1>9, <1>10 DEF IInv

\* The list without its head
LEMMA TailFacts ==
    ASSUME NEW l \in Seq(Nat), l # <<>>, Ordered(l)
    PROVE  /\ Tail(l) \in Seq(Nat) /\ Ordered(Tail(l))
           /\ Entries(Tail(l)) \subseteq Entries(l)
<1>1. /\ Len(l) \in Nat \ {0} /\ DOMAIN l = 1..Len(l) /\ Tail(l) \in Seq(Nat)
      /\ DOMAIN Tail(l) = 1..(Len(l) - 1) /\ \A i \in 1..(Len(l) - 1) : Tail(l)[i] = l[i + 1]
  OBVIOUS
<1>2. \A i \in 1..(Len(l) - 1) : i + 1 \in DOMAIN l
  BY <1>1
<1>3. Ordered(Tail(l))
  <2> SUFFICES ASSUME NEW i \in 1..(Len(l) - 1), NEW j \in 1..(Len(l) - 1), i < j
               PROVE  Tail(l)[i] <= Tail(l)[j]
    BY <1>1 DEF Ordered
  <2>1. i + 1 \in DOMAIN l /\ j + 1 \in DOMAIN l /\ i + 1 < j + 1
    BY <1>2
  <2> QED BY <1>1, <2>1 DEF Ordered
<1>4. Entries(Tail(l)) \subseteq Entries(l)
  BY <1>1, <1>2 DEF Entries
<1> QED BY <1>1, <1>3, <1>4

\* A realtime event happens.
LEMMA TakeRtKeeps ==
    ASSUME IInv, TakeRt
    PROVE  IInv'
<1>1. /\ OrcTrigEvts # <<>> /\ OrcTrigEvts' = Tail(OrcTrigEvts)
      /\ UNCHANGED <<realtime, icurTimeSamples, global_kcounter, timeOffs, cyclesRemaining, nxtim, evt, frstoff,
                     note, sense>>
  BY DEF TakeRt, DueRt, clock
<1>2. TypeOK /\ TimeInv /\ LengthInv /\ RtEventsInv
  BY DEF IInv
<1>3. OrcTrigEvts' \in Seq(Nat) /\ Ordered(OrcTrigEvts') /\ Entries(OrcTrigEvts') \subseteq Entries(OrcTrigEvts)
  <2>1. OrcTrigEvts \in Seq(Nat) /\ Ordered(OrcTrigEvts)
    BY <1>2 DEF TypeOK, RtEventsInv
  <2> QED BY <1>1, <2>1, TailFacts
<1>4. TypeOK'
  BY <1>1, <1>2, <1>3 DEF TypeOK
<1>5. TimeInv'
  BY <1>1, <1>2 DEF TimeInv, EvtWaits, NoQueue, WaitLeads, BetweenEvents, WaitsOn, waitTime, LastTimes
<1>6. LengthInv'
  BY <1>1, <1>2 DEF LengthInv, nextEnd
<1>7. RtEventsInv'
  <2>1. ASSUME ~realtime, NEW i \in DOMAIN OrcTrigEvts'
        PROVE  OrcTrigEvts'[i] >= global_kcounter - IF sense.pc = "perform" THEN 0 ELSE 1
    <3>1. PICK j \in DOMAIN OrcTrigEvts : OrcTrigEvts'[i] = OrcTrigEvts[j]
      BY <1>3 DEF Entries
    <3> QED BY <1>2, <2>1, <3>1 DEF RtEventsInv
  <2> QED BY <1>1, <1>3, <2>1 DEF RtEventsInv
<1> QED BY <1>4, <1>5, <1>6, <1>7 DEF IInv

\* A section end among the realtime events turns the listed notes off.
LEMMA RtSectionKeeps ==
    ASSUME IInv, RtSection
    PROVE  IInv'
<1> DEFINE Cut(m) == IF m \in Entries(frstoff) THEN [note[m] EXCEPT !.state = "cut"] ELSE note[m]
<1>1. /\ sense.pc = "events" /\ frstoff' = <<>>
      /\ note' = [m \in DOMAIN note |-> Cut(m)]
      /\ evt' = NoEvent /\ OrcTrigEvts' = <<>> /\ timeOffs' = icurTimeSamples /\ nxtim' = icurTimeSamples
      /\ sense' = [sense EXCEPT !.pc = "score", !.section = @ + 1, !.rtsection = @ \/ TRUE]
      /\ UNCHANGED <<realtime, icurTimeSamples, global_kcounter, cyclesRemaining>>
  <2>1. note' = [m \in DOMAIN note |-> IF \E i \in DOMAIN frstoff : frstoff[i] = m
                                       THEN [note[m] EXCEPT !.state = "cut"] ELSE note[m]]
    BY DEF RtSection
  <2>2. \A m : (\E i \in DOMAIN frstoff : frstoff[i] = m) <=> m \in Entries(frstoff)
    BY DEF Entries
  <2>3. note' = [m \in DOMAIN note |-> Cut(m)]
    BY <2>1, <2>2
  <2> HIDE DEF Cut
  <2> QED BY <2>3 DEF RtSection, NewSection
<1>2. TypeOK /\ TimeInv /\ LengthInv
  BY DEF IInv
<1>3. note \in Seq(Notes) /\ DOMAIN note = 1..Len(note) /\ Len(note) \in Nat
      /\ \A m \in DOMAIN note : note[m] \in Notes
  BY <1>2 DEF TypeOK
<1>4. \A m \in DOMAIN note : Cut(m) \in Notes /\ (Cut(m) = note[m] \/ Cut(m).state = "cut")
  BY <1>3 DEF Notes, States
<1> HIDE DEF Cut
<1>5. note' \in Seq(Notes) /\ DOMAIN note' = DOMAIN note /\ \A m \in DOMAIN note : note'[m] = Cut(m)
  BY <1>1, <1>3, <1>4
<1>6. /\ sense'.pc = "score" /\ sense'.rtsection /\ sense'.rtsection \in BOOLEAN
      /\ sense' \in [pc : {"sense", "score", "events", "perform", "ended"}, made : Nat, section : Nat,
                     rtsection : BOOLEAN, waited : BOOLEAN]
  <2>1. sense.section + 1 \in Nat /\ (sense.rtsection \/ TRUE) = TRUE
    BY <1>2 DEF TypeOK
  <2>2. sense' = [sense EXCEPT !.pc = "score", !.section = sense.section + 1, !.rtsection = TRUE]
    BY <1>1, <1>2, <2>1 DEF TypeOK
  <2> QED BY <1>2, <2>1, <2>2 DEF TypeOK
<1>7. TypeOK'
  <2>1. icurTimeSamples \in Nat
    BY <1>2, TypeFacts
  <2>2. frstoff' \in Seq(DOMAIN note') /\ OrcTrigEvts' \in Seq(Nat)
    BY <1>1
  <2> QED BY <1>1, <1>2, <1>5, <1>6, <2>1, <2>2 DEF TypeOK, NoEvent
<1>8. TimeInv'
  <2>1. cyclesRemaining > 0
    BY <1>1, <1>2 DEF TimeInv, WaitsOn
  <2>2. NoQueue'
    BY <1>1, <1>2, <1>4, <1>5 DEF TimeInv, NoQueue
  <2> QED BY <1>1, <1>6, <2>1, <2>2 DEF TimeInv, EvtWaits, WaitLeads, BetweenEvents, WaitsOn, NoEvent
<1>9. LengthInv'
  <2>1. Started(frstoff', note')
    BY <1>1 DEF Started, Entries
  <2>2. realtime => \A m \in DOMAIN note : RtNote(note'[m], global_kcounter)
    <3> SUFFICES ASSUME realtime, NEW m \in DOMAIN note PROVE RtNote(note'[m], global_kcounter)
      OBVIOUS
    <3>1. RtNote(note[m], global_kcounter)
      BY <1>2 DEF LengthInv
    <3>2. CASE Cut(m) = note[m]
      BY <1>5, <3>1, <3>2
    <3>3. CASE Cut(m).state = "cut"
      BY <1>5, <3>3 DEF RtNote
    <3> QED BY <1>4, <3>2, <3>3
  <2> QED BY <1>1, <1>5, <1>6, <2>1, <2>2 DEF LengthInv
<1>10. RtEventsInv'
  BY <1>1 DEF RtEventsInv, Ordered
<1> QED BY <1>7, <1>8, <1>9, <1>10 DEF IInv

\* sense_events is left for kperf when no event is due, or the lock is busy.
LEMMA RtDoneKeeps ==
    ASSUME IInv, NEW busy \in BOOLEAN, RtDone(busy)
    PROVE  IInv'
<1>1. /\ sense.pc = "events" /\ (busy => realtime) /\ (busy \/ ~DueRt)
      /\ sense' = [sense EXCEPT !.pc = "perform"]
      /\ UNCHANGED <<realtime, icurTimeSamples, global_kcounter, timeOffs, cyclesRemaining, nxtim, evt, frstoff, note,
                     OrcTrigEvts>>
  BY DEF RtDone, SenseGoes, MayBeBusy, clock
<1>2. TypeOK /\ TimeInv /\ LengthInv /\ RtEventsInv
  BY DEF IInv
<1>3. /\ sense'.pc = "perform" /\ sense'.rtsection = sense.rtsection /\ sense'.waited = sense.waited
      /\ sense' \in [pc : {"sense", "score", "events", "perform", "ended"}, made : Nat, section : Nat,
                     rtsection : BOOLEAN, waited : BOOLEAN]
  BY <1>1, <1>2 DEF TypeOK
<1>4. TypeOK'
  BY <1>1, <1>2, <1>3 DEF TypeOK
<1>5. TimeInv'
  <2>1. waitTime' = waitTime
    BY <1>1, <1>3 DEF waitTime
  <2> QED BY <1>1, <1>2, <1>3, <2>1 DEF TimeInv, EvtWaits, NoQueue, WaitLeads, BetweenEvents, WaitsOn
<1>6. LengthInv'
  <2>1. nextEnd' = nextEnd
    BY <1>1, <1>3 DEF nextEnd
  <2> QED BY <1>1, <1>2, <1>3, <2>1, LengthSame
<1>7. RtEventsInv'
  <2>1. ASSUME ~realtime, NEW i \in DOMAIN OrcTrigEvts
        PROVE  OrcTrigEvts[i] >= global_kcounter - 0
    <3>1. OrcTrigEvts \in Seq(Nat) /\ global_kcounter \in Nat
      BY <1>2 DEF TypeOK
    <3>2. OrcTrigEvts # <<>> /\ 1 \in DOMAIN OrcTrigEvts /\ (1 = i \/ 1 < i) /\ OrcTrigEvts[1] \in Nat
          /\ OrcTrigEvts[i] \in Nat
      BY <2>1, <3>1
    <3>3. OrcTrigEvts[1] > global_kcounter
      BY <1>1, <2>1, <3>1, <3>2 DEF DueRt
    <3>4. OrcTrigEvts[1] <= OrcTrigEvts[i]
      BY <1>2, <2>1, <3>2 DEF RtEventsInv, Ordered
    <3> QED BY <3>1, <3>2, <3>3, <3>4
  <2> QED BY <1>1, <1>2, <1>3, <2>1 DEF RtEventsInv
<1> QED BY <1>4, <1>5, <1>6, <1>7 DEF IInv

\* A control period passes for every note that is on.
LEMMA PerformKeeps ==
    ASSUME IInv, Perform
    PROVE  IInv'
<1> DEFINE k == global_kcounter
           Ran(m) == IF note[m].state \in {"on", "release"} THEN [note[m] EXCEPT !.ran = @ + 1] ELSE note[m]
<1>1. /\ sense.pc = "perform" /\ note' = [m \in DOMAIN note |-> Ran(m)]
      /\ icurTimeSamples' = icurTimeSamples + ksmps /\ global_kcounter' = k + 1
      /\ sense' = [sense EXCEPT !.pc = "sense"]
      /\ UNCHANGED <<realtime, timeOffs, cyclesRemaining, nxtim, evt, frstoff, OrcTrigEvts>>
  BY DEF Perform, SenseGoes
<1>2. TypeOK /\ TimeInv /\ LengthInv /\ RtEventsInv
  BY DEF IInv
<1>3. note \in Seq(Notes) /\ DOMAIN note = 1..Len(note) /\ Len(note) \in Nat
      /\ \A m \in DOMAIN note : note[m] \in Notes
  BY <1>2 DEF TypeOK
<1>4. ASSUME NEW m \in DOMAIN note
      PROVE  /\ Ran(m) \in Notes /\ Ran(m).state = note[m].state /\ Ran(m).p2 = note[m].p2
             /\ Ran(m).p3 = note[m].p3 /\ Ran(m).xtratim = note[m].xtratim /\ Ran(m).off = note[m].off
             /\ note[m].state \in {"on", "release"} => Ran(m).ran = note[m].ran + 1
             /\ note[m].state \notin {"on", "release"} => Ran(m) = note[m]
  <2>1. note[m] \in Notes /\ note[m].ran + 1 \in Nat
    BY <1>3 DEF Notes
  <2> QED BY <2>1 DEF Notes
<1> HIDE DEF Ran
<1>5. note' \in Seq(Notes) /\ DOMAIN note' = DOMAIN note /\ \A m \in DOMAIN note : note'[m] = Ran(m)
  BY <1>1, <1>3, <1>4
<1>6. /\ sense'.pc = "sense" /\ sense'.rtsection = sense.rtsection
      /\ sense' \in [pc : {"sense", "score", "events", "perform", "ended"}, made : Nat, section : Nat,
                     rtsection : BOOLEAN, waited : BOOLEAN]
  BY <1>1, <1>2 DEF TypeOK
<1>7. k \in Nat /\ ksmps \in Nat \ {0} /\ cyclesRemaining \in Int /\ cyclesRemaining > 0
  BY <1>1, <1>2, TypeFacts DEF TimeInv, WaitsOn
<1>8. TypeOK'
  <2>1. icurTimeSamples' = ksmps * global_kcounter' /\ global_kcounter' \in Nat
    <3>1. icurTimeSamples = ksmps * k
      BY <1>2 DEF TypeOK
    <3>2. ksmps * (k + 1) = ksmps * k + ksmps
      BY <1>7
    <3> QED BY <1>1, <1>7, <3>1, <3>2
  <2> QED BY <1>1, <1>2, <1>5, <1>6, <2>1 DEF TypeOK
<1>9. TimeInv'
  <2>1. \A m \in DOMAIN note : note'[m].p2 = note[m].p2 /\ note'[m].state = note[m].state
    BY <1>4, <1>5
  <2>2. EvtWaits' /\ NoQueue'
    BY <1>1, <1>2, <1>5, <2>1 DEF TimeInv, EvtWaits, NoQueue
  <2>3. waitTime = cyclesRemaining /\ waitTime' = cyclesRemaining - 1
    BY <1>1, <1>6, <1>7 DEF waitTime
  <2>4. global_kcounter' + waitTime' = k + waitTime
    BY <1>1, <1>7, <2>3
  <2>5. WaitLeads'
    BY <1>1, <1>2, <1>5, <1>6, <2>1, <2>4 DEF TimeInv, WaitLeads, EvtWaits
  <2>6. BetweenEvents'
    BY <1>1, <1>2, <1>6 DEF TimeInv, BetweenEvents
  <2>7. WaitsOn'
    BY <1>1, <1>6, <1>7 DEF WaitsOn
  <2> QED BY <2>2, <2>5, <2>6, <2>7 DEF TimeInv
<1>10. LengthInv'
  <2>1. Started(frstoff', note')
    <3>1. Entries(frstoff) \subseteq DOMAIN note
      BY <1>2 DEF TypeOK, Entries
    <3> QED BY <1>1, <1>2, <1>4, <1>5, <3>1 DEF LengthInv, Started
  <2>2. ASSUME realtime, NEW m \in DOMAIN note PROVE RtNote(note'[m], k + 1)
    <3> DEFINE a == note[m]
               b == Ran(m)
    <3>1. RtNote(a, k) /\ a \in Notes
      BY <1>2, <1>3, <2>2 DEF LengthInv
    <3>2. /\ b.state = a.state /\ b.p2 = a.p2 /\ b.p3 = a.p3 /\ b.xtratim = a.xtratim /\ b.off = a.off
          /\ a.state \in {"on", "release"} => b.ran = a.ran + 1
          /\ a.state \notin {"on", "release"} => b = a
      BY <1>4
    <3>3. a.ran \in Nat
      BY <3>1 DEF Notes
    <3> HIDE DEF a, b
    <3>4. LengthOf(b) = LengthOf(a)
      BY <3>2 DEF LengthOf
    <3>5. CASE a.state \in {"on", "release"}
      <4>1. (k + 1) - b.ran = k - a.ran
        BY <1>7, <3>2, <3>3, <3>5
      <4>2. PICK d : d = k - a.ran
        OBVIOUS
      <4>3. (k + 1) - b.ran = d
        BY <4>1, <4>2
      <4>4. a.state = "on" => b.off = ksmps * Boundary(b.p2 + b.p3) + ksmps * d - b.p2
        BY <3>1, <3>2, <4>2 DEF RtNote
      <4>5. a.state = "release" => b.off >= ksmps * (d + LengthOf(b) - 1 + b.xtratim)
        BY <3>1, <3>2, <3>4, <4>2 DEF RtNote
      <4>6. b.state = "on" =>
              b.off = ksmps * Boundary(b.p2 + b.p3) + ksmps * ((k + 1) - b.ran) - b.p2
        BY <3>2, <4>3, <4>4
      <4>7. b.state = "release" => b.off >= ksmps * ((k + 1) - b.ran + LengthOf(b) - 1 + b.xtratim)
        BY <3>2, <4>3, <4>5
      <4>8. b.state \in {"on", "release"}
        BY <3>2, <3>5
      <4>9. RtNote(b, k + 1)
        BY <4>6, <4>7, <4>8 DEF RtNote
      <4> QED BY <1>5, <4>9 DEF b
    <3>6. CASE a.state \notin {"on", "release"}
      <4>1. RtNote(b, k + 1)
        BY <3>1, <3>2, <3>6 DEF RtNote
      <4> QED BY <1>5, <4>1 DEF b
    <3> QED BY <3>5, <3>6
  <2>3. ASSUME ~realtime, ~sense.rtsection
        PROVE  /\ \A m \in DOMAIN note : ScoreNoteOK(note'[m], k + 1)
               /\ ScoreList(frstoff, note', nextEnd')
    <3>1. nextEnd = k + 1 /\ nextEnd' = k + 1
      BY <1>1, <1>6, <1>7 DEF nextEnd
    <3>2. (\A m \in DOMAIN note : ScoreNoteOK(note[m], k)) /\ ScoreList(frstoff, note, k + 1)
      BY <1>2, <2>3, <3>1 DEF LengthInv
    <3>3. ASSUME NEW m \in DOMAIN note PROVE ScoreNoteOK(note'[m], k + 1) /\ EndOf(note'[m]) = EndOf(note[m])
      <4> DEFINE a == note[m]
                 b == Ran(m)
      <4>1. ScoreNoteOK(a, k) /\ a \in Notes
        BY <1>3, <3>2
      <4>2. /\ b.state = a.state /\ b.p2 = a.p2 /\ b.p3 = a.p3 /\ b.xtratim = a.xtratim /\ b.off = a.off
            /\ a.state \in {"on", "release"} => b.ran = a.ran + 1
            /\ a.state \notin {"on", "release"} => b = a
        BY <1>4
      <4>3. a.ran \in Nat /\ Boundary(a.p2) \in Int
        BY <4>1, NoteTimes DEF Notes
      <4> HIDE DEF a, b
      <4>4. LengthOf(b) = LengthOf(a) /\ EndOf(b) = EndOf(a)
        BY <4>2 DEF LengthOf, EndOf
      <4>5. ScoreNoteOK(b, k + 1)
        <5>1. CASE a.state \in {"on", "release"}
          BY <1>7, <4>1, <4>2, <4>3, <4>4, <5>1 DEF ScoreNoteOK
        <5>2. CASE a.state \notin {"on", "release"}
          BY <4>1, <4>2, <5>2 DEF ScoreNoteOK
        <5> QED BY <5>1, <5>2
      <4> QED BY <1>5, <4>4, <4>5 DEF a, b
    <3>4. Entries(frstoff) \subseteq DOMAIN note /\ \A i \in DOMAIN frstoff : frstoff[i] \in DOMAIN note
      BY <1>2 DEF TypeOK, Entries
    <3>5. \A m \in DOMAIN note : note'[m].state = note[m].state /\ note'[m].off = note[m].off
      BY <1>4, <1>5
    <3>6. ScoreList(frstoff, note', k + 1)
      BY <1>5, <3>2, <3>3, <3>4, <3>5 DEF ScoreList, Sorted
    <3> QED BY <3>1, <3>3, <3>6
  <2> QED BY <1>1, <1>5, <1>6, <2>1, <2>2, <2>3 DEF LengthInv
<1>11. RtEventsInv'
  <2>1. \A i \in DOMAIN OrcTrigEvts : OrcTrigEvts[i] \in Nat
    BY <1>2 DEF TypeOK
  <2> QED BY <1>1, <1>2, <1>6, <1>7, <2>1 DEF RtEventsInv
<1> QED BY <1>8, <1>9, <1>10, <1>11 DEF IInv

\* Every step keeps the invariant.
LEMMA Step ==
    ASSUME IInv, [Next]_vars
    PROVE  IInv'
<1>1. CASE ScoreNote
  BY <1>1, ScoreNoteKeeps
<1>2. CASE ScoreEnd
  BY <1>2, ScoreEndKeeps
<1>3. CASE ScoreDone
  BY <1>3, ScoreDoneKeeps
<1>4. CASE TakeRt
  BY <1>4, TakeRtKeeps
<1>5. CASE RtSection
  BY <1>5, RtSectionKeeps
<1>6. CASE Perform
  BY <1>6, PerformKeeps
<1>7. CASE \E busy \in BOOLEAN : Sense(busy) \/ Wait(busy) \/ RtDone(busy)
  BY <1>7, SenseKeeps, WaitKeeps, RtDoneKeeps
<1>8. CASE \E p2 \in Starts, p3 \in Lengths, xtra \in Extras : ReadNote(p2, p3, xtra)
  BY <1>8, ReadNoteKeeps
<1>9. CASE \E opcod \in {"s", "e"} : ReadEnd(opcod)
  BY <1>9, ReadEndKeeps
<1>10. CASE \E n \in 1..MaxNotes : EventInsert(n)
  BY <1>10, EventInsertKeeps
<1>11. CASE \E delay \in Delays : MakeRt(delay)
  BY <1>11, MakeRtKeeps
<1>12. CASE UNCHANGED vars
  <2>1. UNCHANGED <<realtime, icurTimeSamples, global_kcounter, timeOffs, cyclesRemaining, nxtim, evt, frstoff, note,
                    OrcTrigEvts, sense>>
    BY <1>12 DEF vars, clock
  <2>2. TypeOK'
    BY <2>1 DEF IInv, TypeOK
  <2>3. TimeInv'
    BY <2>1 DEF IInv, TimeInv, EvtWaits, NoQueue, WaitLeads, BetweenEvents, WaitsOn, waitTime, LastTimes
  <2>4. LengthInv'
    BY <2>1 DEF IInv, LengthInv, nextEnd
  <2>5. RtEventsInv'
    BY <2>1 DEF IInv, RtEventsInv
  <2> QED BY <2>2, <2>3, <2>4, <2>5 DEF IInv
<1> QED BY <1>1, <1>2, <1>3, <1>4, <1>5, <1>6, <1>7, <1>8, <1>9, <1>10, <1>11, <1>12 DEF Next

\* The inductive invariant: the types, where the wait of sense_events leads, the
\* length of every note so far, and the order of the realtime events.
THEOREM Invariance == Spec => []IInv
<1>1. Init => IInv
  BY InitInv
<1>2. IInv /\ [Next]_vars => IInv'
  BY Step
<1> QED BY <1>1, <1>2, PTL DEF Spec

\* The length of a note that is off is in the invariant, and a note that plays is
\* on a list in which nothing is overdue.
LEMMA LengthFollows == IInv => LengthKept
<1> SUFFICES ASSUME IInv, NEW n \in DOMAIN note
             PROVE  IF realtime THEN note[n].state = "off" => note[n].ran >= periods(note[n]) - 1
                    ELSE \/ sense.rtsection
                         \/ /\ note[n].ran <= periods(note[n])
                            /\ note[n].state = "off" => note[n].ran = periods(note[n])
  BY DEF LengthKept, Range
<1> DEFINE m == note[n]
           b == Boundary(m.p2)
           c == Boundary(m.p2 + m.p3)
           k == global_kcounter
<1>1. TypeOK /\ LengthInv
  BY DEF IInv
<1>2. m \in Notes
  BY <1>1, ElementOfSeq DEF TypeOK
<1>3. b \in Int /\ c \in Int /\ b <= c /\ LengthOf(m) = c - b
  BY <1>2, NoteTimes
<1>4. m.xtratim \in Nat /\ m.ran \in Nat /\ m.state \in States /\ k \in Nat
  BY <1>1, <1>2 DEF Notes, TypeOK
<1>5. EndOf(m) = c + IF m.state = "release" THEN m.xtratim ELSE 0
  BY DEF EndOf
<1>6. realtime => RtNote(m, k)
  BY <1>1 DEF LengthInv
<1>7. ~realtime /\ ~sense.rtsection =>
         ScoreNoteOK(m, k) /\ (m.state \in {"on", "release"} => EndOf(m) >= k)
  <2> SUFFICES ASSUME ~realtime, ~sense.rtsection
               PROVE  ScoreNoteOK(m, k) /\ (m.state \in {"on", "release"} => EndOf(m) >= k)
    OBVIOUS
  <2>1. ScoreNoteOK(m, k) /\ ScoreList(frstoff, note, nextEnd)
    BY <1>1 DEF LengthInv
  <2>2. nextEnd >= k /\ nextEnd \in Int
    BY <1>4 DEF nextEnd
  <2>3. m.state \in {"on", "release"} => EndOf(m) >= nextEnd
    BY <2>1 DEF ScoreList
  <2>4. EndOf(m) \in Int
    BY <1>2, NoteTimes
  <2> HIDE DEF m
  <2> QED BY <1>4, <2>1, <2>2, <2>3, <2>4
<1> HIDE DEF m, b, c, k
<1>8. realtime => (m.state = "off" => m.ran >= c - b + m.xtratim - 1)
  BY <1>3, <1>4, <1>6 DEF RtNote
<1>9. ~realtime /\ ~sense.rtsection => m.ran <= c - b + m.xtratim /\ (m.state = "off" => m.ran = c - b + m.xtratim)
  <2> SUFFICES ASSUME ~realtime, ~sense.rtsection
               PROVE  m.ran <= c - b + m.xtratim /\ (m.state = "off" => m.ran = c - b + m.xtratim)
    OBVIOUS
  <2>1. m.state \in {"read", "on", "release", "off"}
    <3>1. m.state # "queued"
      BY DEF IInv, TimeInv, NoQueue, m
    <3> QED BY <1>4, <1>7, <3>1 DEF States, ScoreNoteOK
  <2>2. CASE m.state = "read"
    BY <1>3, <1>4, <1>7, <2>2 DEF ScoreNoteOK
  <2>3. CASE m.state \in {"on", "release"}
    <3>1. m.ran = k - b /\ EndOf(m) >= k
      BY <1>7, <2>3 DEF ScoreNoteOK, b
    <3> QED BY <1>3, <1>4, <1>5, <2>3, <3>1
  <2>4. CASE m.state = "off"
    BY <1>3, <1>4, <1>7, <2>4 DEF ScoreNoteOK
  <2> QED BY <2>1, <2>2, <2>3, <2>4
<1>10. periods(m) = c - b + m.xtratim
  BY DEF periods, b, c
<1>11. IF realtime THEN m.state = "off" => m.ran >= periods(m) - 1
       ELSE sense.rtsection \/ (m.ran <= periods(m) /\ (m.state = "off" => m.ran = periods(m)))
  <2>1. periods(m) - 1 = c - b + m.xtratim - 1
    BY <1>3, <1>4, <1>10
  <2> QED BY <1>1, <1>8, <1>9, <1>10, <2>1 DEF TypeOK
<1> QED BY <1>11 DEF m

\* Every note lasts as long as time_expire and insert_new promise.
THEOREM NotesKeepLength == Spec => []LengthKept
BY Invariance, LengthFollows, PTL

\* sense_events dispatches a score note in the period next to its p2, and realtime
\* events in their order and on time.
THEOREM StartsPunctual == Spec => Punctual
<1>1. IInv /\ [Next]_vars =>
        [ /\ ScoreNote => /\ global_kcounter >= Boundary(note[evt.note].p2)
                          /\ sense.rtsection \/ global_kcounter = Boundary(note[evt.note].p2)
          /\ TakeRt \/ RtSection =>
                /\ \A i \in DOMAIN OrcTrigEvts : OrcTrigEvts[1] <= OrcTrigEvts[i]
                /\ OrcTrigEvts[1] <= global_kcounter
                /\ realtime \/ OrcTrigEvts[1] >= global_kcounter - 1 ]_vars
  <2>1. ASSUME IInv, ScoreNote
        PROVE  /\ global_kcounter >= Boundary(note[evt.note].p2)
               /\ sense.rtsection \/ global_kcounter = Boundary(note[evt.note].p2)
    BY <2>1, AtScoreFacts DEF IInv, ScoreNote
  <2>2. ASSUME IInv, TakeRt \/ RtSection
        PROVE  /\ \A i \in DOMAIN OrcTrigEvts : OrcTrigEvts[1] <= OrcTrigEvts[i]
               /\ OrcTrigEvts[1] <= global_kcounter
               /\ realtime \/ OrcTrigEvts[1] >= global_kcounter - 1
    <3>1. OrcTrigEvts # <<>> /\ OrcTrigEvts[1] <= global_kcounter /\ sense.pc = "events"
      BY <2>2 DEF TakeRt, RtSection, DueRt
    <3>2. OrcTrigEvts \in Seq(Nat) /\ global_kcounter \in Nat /\ RtEventsInv
      BY <2>2 DEF IInv, TypeOK
    <3>3. 1 \in DOMAIN OrcTrigEvts /\ OrcTrigEvts[1] \in Nat
      BY <3>1, <3>2
    <3>4. \A i \in DOMAIN OrcTrigEvts : OrcTrigEvts[1] <= OrcTrigEvts[i]
      <4> TAKE i \in DOMAIN OrcTrigEvts
      <4>1. i = 1 \/ 1 < i
        BY <3>2
      <4> QED BY <3>2, <3>3, <4>1 DEF RtEventsInv, Ordered
    <3>5. realtime \/ OrcTrigEvts[1] >= global_kcounter - 1
      BY <3>1, <3>2, <3>3 DEF RtEventsInv
    <3> QED BY <3>1, <3>4, <3>5
  <2> QED BY <2>1, <2>2
<1> QED BY <1>1, Invariance, PTL DEF Spec, Punctual

\* sense_events never waits for the notes twice without a period in between.
THEOREM NeverSpins == Spec => NoSpin
<1>1. IInv /\ [Next]_vars => [\A busy \in BOOLEAN : Wait(busy) => ~sense.waited]_vars
  <2> SUFFICES ASSUME IInv, NEW busy \in BOOLEAN, Wait(busy) PROVE ~sense.waited
    OBVIOUS
  <2> QED BY AtScoreFacts DEF IInv, Wait
<1> QED BY <1>1, Invariance, PTL DEF Spec, NoSpin
=============================================================================
