------------------------- MODULE ParLifecycle_proofs -------------------------
(***************************************************************************)
(* What the start barrier and the two flags guarantee, for every number of *)
(* threads and of starts: every worker finds its index, and none performs  *)
(* but inside the control period that released it.  A reset waits for no   *)
(* worker: what the barrier guarantees holds all the same, and the rest    *)
(* holds until a reset has overtaken one.                                  *)
(***************************************************************************)
EXTENDS ParLifecycle, FiniteSets, FiniteSetTheorems, TLAPS

\* The workers of the current start that wait at the barrier.
Waiting == {i \in Slot : wpc[<<starts, i>>] = "wait"}

\* The host is in csoundStart and has not come to the barrier.
Starting == {"create", "link"}

\* The instance is empty.
Idle == {"new", "clear"}

\* Threads created so far by the current csoundStart.
Created == IF hpc = "link" THEN Len(threadInfo) + 1 ELSE Len(threadInfo)

\* The list holds the threads of the current start, in the order of creation,
\* and all of them once csoundStart has left its loop.
ListInv ==
    /\ \A i \in DOMAIN threadInfo : threadInfo[i] = <<starts, i>>
    /\ hpc \in Idle => threadInfo = <<>>
    /\ hpc = "link" => Len(threadInfo) < numThreads - 1
    /\ hpc \notin Idle \cup Starting => Len(threadInfo) = numThreads - 1
    /\ hpc \notin Idle => taskflag \in [Slot -> 0..1]
    /\ hpc # "new" => starts > 0

\* Threads of later starts do not exist; those of earlier ones have gone or
\* were overtaken by the reset after it, when they had passed their barrier.
GenerationInv ==
    /\ \A t \in Worker : t[1] > starts => wpc[t] = "none" /\ wflag[t] = 0
    /\ \A s \in Start : s > starts => barrier[s] = [count |-> 0, iteration |-> 0]
    /\ \A t \in Worker : t[1] < starts \/ hpc \in Idle => Gone(t) \/ t \in overtaken
    /\ \A t \in overtaken :
           /\ (t[1] < starts \/ (t[1] = starts /\ hpc \in Idle))
           /\ wpc[t] \notin {"none", "start"}

\* The barrier counts those that wait, and opens when all have come.
BarrierInv ==
    hpc \notin Idle =>
        IF barrier[starts].iteration = 0
        THEN /\ hpc \in Starting \cup {"wait"}
             /\ \A i \in Slot : wpc[<<starts, i>>] \in {"none", "start", "wait"}
             /\ barrier[starts].count =
                    Cardinality(Waiting) + (IF hpc = "wait" THEN 1 ELSE 0)
        ELSE /\ hpc \notin Starting
             /\ \A i \in Slot : wpc[<<starts, i>>] \notin {"none", "start"}

\* Threads exist from their creation on.
CreatedInv ==
    hpc \in Starting =>
        \A i \in Slot : IF i > Created THEN wpc[<<starts, i>>] = "none"
                                       ELSE wpc[<<starts, i>>] # "none"

\* Between the calls of the host every worker has seen the flag and answered.
ReadyInv ==
    overtaken = {} /\ hpc \in Starting \cup {"wait", "ready"}
    /\ multiThreadedComplete = 0 =>
        \A i \in Slot :
            /\ taskflag[i] = parflag
            /\ wflag[<<starts, i>>] = parflag
            /\ wpc[<<starts, i>>] \notin {"test", "perform"}

\* In a control period a worker has answered, or answers with this flag.
GatherInv ==
    overtaken = {} /\ hpc = "gather" /\ multiThreadedComplete = 0 =>
        \A i \in Slot :
            /\ taskflag[i] = parflag =>
                   wpc[<<starts, i>>] = "spin" /\ wflag[<<starts, i>>] = parflag
            /\ wpc[<<starts, i>>] \in {"test", "perform"} =>
                   wflag[<<starts, i>>] = parflag

\* No worker performs once the end is marked.
CompleteInv ==
    /\ hpc \in Starting \cup {"wait"} => multiThreadedComplete = 0
    /\ hpc \in {"ending", "stopping", "cleanup"} => multiThreadedComplete = 1
    /\ overtaken = {} /\ multiThreadedComplete = 1 =>
           \A t \in Worker : wpc[t] # "perform"

IInv ==
    /\ TypeOK
    /\ ListInv
    /\ GenerationInv
    /\ BarrierInv
    /\ CreatedInv
    /\ ReadyInv
    /\ GatherInv
    /\ CompleteInv
    /\ EveryWorkerHasIndex

-----------------------------------------------------------------------------
(* The set of slots, and workers as pairs.                                 *)

\* The slots of a start are finitely many, one less than the threads.
LEMMA Slots == IsFiniteSet(Slot) /\ Cardinality(Slot) = numThreads - 1
<1>1. numThreads - 1 \in Nat /\ numThreads \in Int
  BY ThreadsAssumption
<1>2. /\ IsFiniteSet(Slot)
      /\ Cardinality(Slot) = IF 1 > numThreads - 1 THEN 0 ELSE (numThreads - 1) - 1 + 1
  BY <1>1, FS_Interval DEF Slot
<1> QED BY <1>1, <1>2, ThreadsAssumption

\* A worker is the pair of its start and its slot.
LEMMA Pairs ==
    /\ \A t \in Worker : t = <<t[1], t[2]>> /\ t[1] \in Start /\ t[2] \in Slot
    /\ \A s \in Start, i \in Slot : <<s, i>> \in Worker
  BY DEF Worker

\* Starts and slots are numbers from 1 on.
LEMMA Numbers ==
    /\ \A s \in Start : s \in Nat /\ s > 0
    /\ \A i \in Slot : i \in Nat /\ i > 0 /\ i < numThreads
    /\ 1 \in Slot /\ numThreads \in Nat /\ numThreads > 1
    /\ MaxStarts \in Nat
  BY ThreadsAssumption, BoundsAssumption DEF Start, Slot

\* A task flag array that is there is not the empty sequence.
LEMMA Allocated == ASSUME taskflag \in [Slot -> 0..1] PROVE taskflag # <<>>
<1>1. DOMAIN taskflag = Slot /\ 1 \in Slot
  BY Numbers
<1>2. DOMAIN <<>> = {}
  OBVIOUS
<1> QED BY <1>1, <1>2

-----------------------------------------------------------------------------
(* The barrier.                                                            *)

\* At most all workers wait, and if as many wait as there are, all do.
LEMMA WaitingBound ==
    /\ IsFiniteSet(Waiting) /\ Cardinality(Waiting) \in Nat
    /\ Cardinality(Waiting) <= numThreads - 1
    /\ Cardinality(Waiting) = numThreads - 1 => Waiting = Slot
<1>1. Waiting \subseteq Slot
  BY DEF Waiting
<1> QED BY <1>1, Slots, FS_Subset, FS_CardinalityType

\* A thread that has not gone and was not overtaken is of the current start.
LEMMA Current ==
    ASSUME IInv, NEW t \in Worker, ~Gone(t), t \notin overtaken
    PROVE  starts \in Start /\ hpc \notin Idle /\ t[2] \in Slot /\ t = <<starts, t[2]>>
<1>1. t = <<t[1], t[2]>> /\ t[1] \in Start /\ t[2] \in Slot
  BY Pairs
<1>2. ~(t[1] > starts) /\ ~(t[1] < starts) /\ hpc \notin Idle
  BY DEF IInv, GenerationInv, Gone
<1>3. t[1] = starts
  BY <1>1, <1>2, Numbers DEF IInv, TypeOK
<1> QED BY <1>1, <1>2, <1>3

\* A worker that comes to the barrier comes before it opened, and makes one
\* more that waits.
LEMMA Arrival ==
    ASSUME IInv, NEW t \in Worker, t \notin overtaken, WorkerArrives(t)
    PROVE  /\ barrier[starts].iteration = 0
           /\ Waiting' = Waiting \cup {t[2]}
           /\ Cardinality(Waiting') = Cardinality(Waiting) + 1
<1>1. wpc[t] = "start" /\ wpc' = [wpc EXCEPT ![t] = "wait"] /\ UNCHANGED <<starts, hpc>>
  BY DEF WorkerArrives, Goto
<1>2. starts \in Start /\ hpc \notin Idle /\ t = <<starts, t[2]>> /\ t[2] \in Slot
  BY <1>1, Current DEF Gone
<1>3. barrier[starts].iteration = 0
  BY <1>1, <1>2 DEF IInv, BarrierInv
<1>4. \A j \in Slot : wpc'[<<starts', j>>] = IF j = t[2] THEN "wait" ELSE wpc[<<starts, j>>]
  BY <1>1, <1>2, Pairs DEF IInv, TypeOK
<1>5. Waiting' = Waiting \cup {t[2]} /\ t[2] \notin Waiting
  BY <1>1, <1>2, <1>4 DEF Waiting
<1> QED BY <1>3, <1>5, WaitingBound, FS_AddElement

-----------------------------------------------------------------------------
(* One lemma for each action of the host.                                  *)

\* BeginStart: a new generation of threads, none of which exists yet.
LEMMA BeginStartStep ==
    ASSUME IInv, BeginStart
    PROVE  IInv'
<1> USE Numbers DEF IInv, BeginStart, Idle, Starting, flags, tables, local
<1>a. starts + 1 \in Start /\ starts + 1 > starts /\ threadInfo = <<>>
  BY DEF TypeOK, ListInv, Start
<1>b. \A j \in Slot : wpc[<<starts + 1, j>>] = "none" /\ wflag[<<starts + 1, j>>] = 0
  BY <1>a, Pairs DEF GenerationInv
<1>c. barrier[starts + 1] = [count |-> 0, iteration |-> 0]
  BY <1>a DEF GenerationInv
<1>1. TypeOK'
  <2>1. threadInfo' \in Seq({starts'} \X Slot) /\ Len(threadInfo') = 0
    BY <1>a
  <2>2. taskflag' \in [Slot -> 0..1]
    OBVIOUS
  <2> QED BY <2>1, <2>2 DEF TypeOK
<1>2. ListInv'
  BY <1>a DEF ListInv, TypeOK
<1>3. GenerationInv'
  <2>1. \A u \in Worker : Gone(u) \/ u \in overtaken
    BY DEF GenerationInv
  <2>2. \A u \in overtaken : u[1] < starts + 1 /\ wpc[u] \notin {"none", "start"}
    <3>1. \A u \in overtaken : /\ (u[1] < starts \/ u[1] = starts)
                             /\ wpc[u] \notin {"none", "start"}
      BY DEF GenerationInv
    <3>2. \A u \in overtaken : u[1] \in Nat /\ starts \in Nat
      BY Pairs DEF TypeOK
    <3> QED BY <3>1, <3>2
  <2>3. \A u \in Worker : u[1] > starts + 1 => wpc[u] = "none" /\ wflag[u] = 0
    BY <1>a, Pairs DEF GenerationInv, Start, TypeOK
  <2>4. \A s \in Start : s > starts + 1 => barrier[s] = [count |-> 0, iteration |-> 0]
    BY <1>a DEF GenerationInv, Start, TypeOK
  <2> QED BY <1>a, <2>1, <2>2, <2>3, <2>4 DEF GenerationInv, Gone
<1>4. BarrierInv'
  <2>1. Waiting' = {}
    BY <1>b DEF Waiting
  <2> QED BY <2>1, <1>b, <1>c, FS_EmptySet DEF BarrierInv
<1>5. CreatedInv'
  BY <1>a, <1>b DEF CreatedInv, Created
<1>6. ReadyInv'
  BY <1>b DEF ReadyInv
<1>7. GatherInv'
  BY DEF GatherInv
<1>8. CompleteInv'
  BY DEF CompleteInv
<1>9. EveryWorkerHasIndex'
  BY DEF EveryWorkerHasIndex
<1> QED BY <1>1, <1>2, <1>3, <1>4, <1>5, <1>6, <1>7, <1>8, <1>9

\* CreateThread preserves the invariant.
LEMMA CreateThreadStep ==
    ASSUME IInv, CreateThread
    PROVE  IInv'
<1> USE Numbers DEF IInv, CreateThread, Idle, Starting, flags, tables, local
<1>a. starts \in Start /\ Len(threadInfo) + 1 \in Slot
  BY DEF TypeOK, ListInv, Start, Slot
<1>b. \A j \in Slot : wpc'[<<starts', j>>] =
          IF j = Len(threadInfo) + 1 THEN "start" ELSE wpc[<<starts, j>>]
  BY <1>a, Pairs DEF TypeOK
<1>c. wpc[<<starts, Len(threadInfo) + 1>>] = "none"
  BY <1>a DEF CreatedInv, Created, TypeOK
<1>1. TypeOK'
  BY <1>a, Pairs DEF TypeOK
<1>2. ListInv'
  BY DEF ListInv
<1>3. GenerationInv'
  <2>1. \A u \in Worker : u[1] # starts => wpc'[u] = wpc[u]
    BY <1>a, Pairs DEF TypeOK
  <2> QED BY <2>1, <1>a DEF GenerationInv, Gone, TypeOK
<1>4. BarrierInv'
  <2>1. Waiting' = Waiting
    BY <1>b, <1>c DEF Waiting
  <2> QED BY <2>1, <1>b DEF BarrierInv
<1>5. CreatedInv'
  BY <1>a, <1>b DEF CreatedInv, Created, TypeOK
<1>6. ReadyInv'
  BY <1>b DEF ReadyInv
<1>7. GatherInv'
  BY DEF GatherInv
<1>8. CompleteInv'
  BY DEF CompleteInv, TypeOK
<1>9. EveryWorkerHasIndex'
  BY <1>a DEF EveryWorkerHasIndex, TypeOK
<1> QED BY <1>1, <1>2, <1>3, <1>4, <1>5, <1>6, <1>7, <1>8, <1>9

\* LinkThread preserves the invariant.
LEMMA LinkThreadStep ==
    ASSUME IInv, LinkThread
    PROVE  IInv'
<1> USE Numbers DEF IInv, LinkThread, Idle, Starting, flags, tables, local
<1>a. starts \in Start /\ Len(threadInfo) + 1 \in Slot /\ Len(threadInfo) \in Nat
  BY DEF TypeOK, ListInv, Start, Slot
<1>b. /\ threadInfo' \in Seq({starts} \X Slot) /\ Len(threadInfo') = Len(threadInfo) + 1
      /\ \A i \in DOMAIN threadInfo' : threadInfo'[i] =
             IF i \in DOMAIN threadInfo THEN threadInfo[i] ELSE <<starts, i>>
  <2>1. threadInfo \in Seq({starts} \X Slot) /\ <<starts, Len(threadInfo) + 1>> \in {starts} \X Slot
    BY <1>a DEF TypeOK
  <2> QED BY <2>1
<1>1. TypeOK'
  BY <1>a, <1>b DEF TypeOK, Slot
<1>2. ListInv'
  BY <1>a, <1>b DEF ListInv, TypeOK, Slot
<1>3. GenerationInv'
  BY DEF GenerationInv, Gone
<1>4. BarrierInv'
  BY DEF BarrierInv, Waiting
<1>5. CreatedInv'
  BY <1>a, <1>b DEF CreatedInv, Created
<1>6. ReadyInv'
  BY DEF ReadyInv
<1>7. GatherInv'
  BY DEF GatherInv
<1>8. CompleteInv'
  BY DEF CompleteInv
<1>9. EveryWorkerHasIndex'
  BY DEF EveryWorkerHasIndex
<1> QED BY <1>1, <1>2, <1>3, <1>4, <1>5, <1>6, <1>7, <1>8, <1>9

\* HostArrives: the host comes to the barrier when the list is complete.
LEMMA HostArrivesStep ==
    ASSUME IInv, HostArrives
    PROVE  IInv'
<1> USE Numbers DEF IInv, HostArrives, Idle, Starting, flags, tables, local
<1>a. starts \in Start
  BY DEF TypeOK, ListInv, Start
<1>b. /\ barrier[starts].iteration = 0
      /\ barrier[starts].count = Cardinality(Waiting)
      /\ \A i \in Slot : wpc[<<starts, i>>] \in {"none", "start", "wait"}
  BY WaitingBound DEF BarrierInv
<1>c. barrier' = [barrier EXCEPT ![starts] =
          IF Waiting = Slot
          THEN [count |-> 0, iteration |-> 1]
          ELSE [count |-> barrier[starts].count + 1, iteration |-> 0]]
  <2>1. barrier[starts].count + 1 >= numThreads <=> Waiting = Slot
    BY <1>b, WaitingBound, Slots
  <2>2. barrier' = [barrier EXCEPT ![starts] =
            IF barrier[starts].count + 1 >= numThreads
            THEN [count |-> 0, iteration |-> barrier[starts].iteration + 1]
            ELSE [count |-> barrier[starts].count + 1,
                  iteration |-> barrier[starts].iteration]]
    BY DEF Arrive, BarrierMax
  <2>3. (IF barrier[starts].count + 1 >= numThreads
         THEN [count |-> 0, iteration |-> barrier[starts].iteration + 1]
         ELSE [count |-> barrier[starts].count + 1,
               iteration |-> barrier[starts].iteration])
        = (IF Waiting = Slot
           THEN [count |-> 0, iteration |-> 1]
           ELSE [count |-> barrier[starts].count + 1, iteration |-> 0])
    <3>1. CASE Waiting = Slot
      BY <2>1, <3>1, <1>b
    <3>2. CASE ~(Waiting = Slot)
      BY <2>1, <3>2, <1>b
    <3> QED BY <3>1, <3>2
  <2> QED BY <2>2, <2>3
<1>d. Waiting' = Waiting
  BY DEF Waiting
<1>1. TypeOK'
  <2>1. Waiting # Slot => barrier[starts].count + 1 \in 0..(numThreads - 1)
    BY <1>b, WaitingBound
  <2> QED BY <1>a, <1>c, <2>1 DEF TypeOK
<1>2. ListInv'
  BY DEF ListInv
<1>3. GenerationInv'
  BY <1>a, <1>c DEF GenerationInv, Gone, TypeOK
<1>4. BarrierInv'
  <2>1. Waiting = Slot => \A i \in Slot : wpc[<<starts, i>>] = "wait"
    BY DEF Waiting
  <2> QED BY <1>a, <1>b, <1>c, <1>d, <2>1 DEF BarrierInv, TypeOK
<1>5. CreatedInv'
  BY DEF CreatedInv, Created
<1>6. ReadyInv'
  BY DEF ReadyInv
<1>7. GatherInv'
  BY DEF GatherInv
<1>8. CompleteInv'
  BY DEF CompleteInv
<1>9. EveryWorkerHasIndex'
  BY DEF EveryWorkerHasIndex
<1> QED BY <1>1, <1>2, <1>3, <1>4, <1>5, <1>6, <1>7, <1>8, <1>9

\* HostPasses preserves the invariant.
LEMMA HostPassesStep ==
    ASSUME IInv, HostPasses
    PROVE  IInv'
<1> USE Numbers DEF IInv, HostPasses, Idle, Starting, flags, tables, local
<1>1. TypeOK'
  BY DEF TypeOK
<1>2. ListInv'
  BY DEF ListInv
<1>3. GenerationInv'
  BY DEF GenerationInv, Gone
<1>4. BarrierInv'
  BY DEF BarrierInv, Open
<1>5. CreatedInv'
  BY DEF CreatedInv, Created
<1>6. ReadyInv'
  BY DEF ReadyInv
<1>7. GatherInv'
  BY DEF GatherInv
<1>8. CompleteInv'
  BY DEF CompleteInv
<1>9. EveryWorkerHasIndex'
  BY DEF EveryWorkerHasIndex
<1> QED BY <1>1, <1>2, <1>3, <1>4, <1>5, <1>6, <1>7, <1>8, <1>9

\* Cycle preserves the invariant.
LEMMA CycleStep ==
    ASSUME IInv, Cycle
    PROVE  IInv'
<1> USE Numbers DEF IInv, Cycle, MayPerform, Idle, Starting, flags, tables, local
<1>1. TypeOK'
  BY DEF TypeOK, Not
<1>2. ListInv'
  BY DEF ListInv
<1>3. GenerationInv'
  BY DEF GenerationInv, Gone
<1>4. BarrierInv'
  BY DEF BarrierInv, Waiting
<1>5. CreatedInv'
  BY DEF CreatedInv, Created
<1>6. ReadyInv'
  BY DEF ReadyInv
<1>7. GatherInv'
  BY DEF ReadyInv, GatherInv, Not, TypeOK
<1>8. CompleteInv'
  BY DEF CompleteInv
<1>9. EveryWorkerHasIndex'
  BY DEF EveryWorkerHasIndex
<1> QED BY <1>1, <1>2, <1>3, <1>4, <1>5, <1>6, <1>7, <1>8, <1>9

\* Gather: all answers are there, so all workers are back in the loop.
LEMMA GatherStep ==
    ASSUME IInv, Gather
    PROVE  IInv'
<1> USE Numbers DEF IInv, Gather, Idle, Starting, flags, tables, local
<1>1. TypeOK'
  BY DEF TypeOK
<1>2. ListInv'
  BY DEF ListInv
<1>3. GenerationInv'
  BY DEF GenerationInv, Gone
<1>4. BarrierInv'
  BY DEF BarrierInv, Waiting
<1>5. CreatedInv'
  BY DEF CreatedInv, Created
<1>6. ReadyInv'
  BY DEF ReadyInv, GatherInv
<1>7. GatherInv'
  BY DEF GatherInv
<1>8. CompleteInv'
  BY DEF CompleteInv
<1>9. EveryWorkerHasIndex'
  BY DEF EveryWorkerHasIndex
<1> QED BY <1>1, <1>2, <1>3, <1>4, <1>5, <1>6, <1>7, <1>8, <1>9

\* EndScore: the end is marked when no worker performs.
LEMMA EndScoreStep ==
    ASSUME IInv, EndScore
    PROVE  IInv'
<1> USE Numbers DEF IInv, EndScore, MayPerform, Idle, Starting, flags, tables, local
<1>1. TypeOK'
  BY DEF TypeOK
<1>2. ListInv'
  BY DEF ListInv
<1>3. GenerationInv'
  BY DEF GenerationInv, Gone
<1>4. BarrierInv'
  BY DEF BarrierInv, Waiting
<1>5. CreatedInv'
  BY DEF CreatedInv, Created
<1>6. ReadyInv'
  BY DEF ReadyInv
<1>7. GatherInv'
  BY DEF GatherInv
<1>8. CompleteInv'
  <2> SUFFICES ASSUME NEW t \in Worker, wpc[t] = "perform", overtaken = {},
                      multiThreadedComplete = 0
               PROVE  FALSE
    BY DEF CompleteInv, TypeOK
  <2>1. t[2] \in Slot /\ t = <<starts, t[2]>>
    BY Current DEF Gone
  <2> QED BY <2>1 DEF ReadyInv
<1>9. EveryWorkerHasIndex'
  BY DEF EveryWorkerHasIndex
<1> QED BY <1>1, <1>2, <1>3, <1>4, <1>5, <1>6, <1>7, <1>8, <1>9

\* FlipAtEnd preserves the invariant.
LEMMA FlipAtEndStep ==
    ASSUME IInv, FlipAtEnd
    PROVE  IInv'
<1> USE Numbers DEF IInv, FlipAtEnd, Idle, Starting, flags, tables, local
<1>1. TypeOK'
  BY DEF TypeOK, Not
<1>2. ListInv'
  BY DEF ListInv
<1>3. GenerationInv'
  BY DEF GenerationInv, Gone
<1>4. BarrierInv'
  BY DEF BarrierInv, Waiting
<1>5. CreatedInv'
  BY DEF CreatedInv, Created
<1>6. ReadyInv'
  BY DEF ReadyInv, CompleteInv
<1>7. GatherInv'
  BY DEF GatherInv
<1>8. CompleteInv'
  BY DEF CompleteInv
<1>9. EveryWorkerHasIndex'
  BY DEF EveryWorkerHasIndex
<1> QED BY <1>1, <1>2, <1>3, <1>4, <1>5, <1>6, <1>7, <1>8, <1>9

\* BeginReset preserves the invariant.
LEMMA BeginResetStep ==
    ASSUME IInv, BeginReset
    PROVE  IInv'
<1> USE Numbers DEF IInv, BeginReset, Idle, Starting, flags, tables, local
<1>1. TypeOK'
  BY DEF TypeOK
<1>2. ListInv'
  BY DEF ListInv
<1>3. GenerationInv'
  BY DEF GenerationInv, Gone
<1>4. BarrierInv'
  BY DEF BarrierInv, Waiting
<1>5. CreatedInv'
  BY DEF CreatedInv, Created
<1>6. ReadyInv'
  BY DEF ReadyInv
<1>7. GatherInv'
  BY DEF GatherInv
<1>8. CompleteInv'
  <2> SUFFICES ASSUME NEW t \in Worker, wpc[t] = "perform", overtaken = {},
                      multiThreadedComplete = 0
               PROVE  FALSE
    BY DEF CompleteInv, TypeOK
  <2>1. t[2] \in Slot /\ t = <<starts, t[2]>>
    BY Current DEF Gone
  <2> QED BY <2>1 DEF ReadyInv
<1>9. EveryWorkerHasIndex'
  BY DEF EveryWorkerHasIndex
<1> QED BY <1>1, <1>2, <1>3, <1>4, <1>5, <1>6, <1>7, <1>8, <1>9

\* StopWorkers preserves the invariant.
LEMMA StopWorkersStep ==
    ASSUME IInv, StopWorkers
    PROVE  IInv'
<1> USE Numbers DEF IInv, StopWorkers, Idle, Starting, flags, tables, local
<1>1. TypeOK'
  BY DEF TypeOK, Not
<1>2. ListInv'
  BY DEF ListInv
<1>3. GenerationInv'
  BY DEF GenerationInv, Gone
<1>4. BarrierInv'
  BY DEF BarrierInv, Waiting
<1>5. CreatedInv'
  BY DEF CreatedInv, Created
<1>6. ReadyInv'
  BY DEF ReadyInv, CompleteInv
<1>7. GatherInv'
  BY DEF GatherInv
<1>8. CompleteInv'
  BY DEF CompleteInv
<1>9. EveryWorkerHasIndex'
  BY DEF EveryWorkerHasIndex
<1> QED BY <1>1, <1>2, <1>3, <1>4, <1>5, <1>6, <1>7, <1>8, <1>9

\* Memreset: the lists are freed when all workers have gone.
LEMMA MemresetStep ==
    ASSUME IInv, Memreset
    PROVE  IInv'
<1> USE Numbers DEF IInv, Memreset, Idle, Starting, flags, tables, local
<1>1. TypeOK'
  BY DEF TypeOK
<1>2. ListInv'
  BY DEF ListInv
<1>3. GenerationInv'
  <2>1. hpc \notin Idle /\ hpc' \in Idle /\ UNCHANGED <<starts, barrier, wpc, wflag>>
    OBVIOUS
  <2>2. \A u \in Worker : ~Gone(u) => u \in overtaken' /\ wpc[u] # "none"
    BY DEF Gone
  <2>3. barrier[starts].iteration # 0
    BY DEF BarrierInv
  <2>4. \A i \in Slot : wpc[<<starts, i>>] \notin {"none", "start"}
    BY <2>3 DEF BarrierInv
  <2>5. \A u \in Worker : u[1] = starts => wpc[u] \notin {"none", "start"}
    BY <2>4, Pairs
  <2>6. \A u \in Worker : /\ (u[1] > starts => wpc[u] = "none")
                         /\ (u[1] < starts => Gone(u) \/ u \in overtaken)
                         /\ u[1] \in Nat /\ starts \in Nat
    <3>1. \A u \in Worker : u[1] \in Nat /\ starts \in Nat
      BY Pairs DEF TypeOK
    <3> QED BY <3>1 DEF GenerationInv
  <2>7. \A u \in overtaken' : u \in Worker /\ (u \in overtaken \/ ~Gone(u))
    <3>1. overtaken \subseteq Worker
      BY DEF TypeOK
    <3>2. overtaken' = overtaken \cup {u \in Worker : ~Gone(u)}
      OBVIOUS
    <3> QED BY <3>1, <3>2
  <2>8. \A u \in overtaken' : /\ (u[1] < starts \/ u[1] = starts)
                             /\ wpc[u] \notin {"none", "start"}
    <3> SUFFICES ASSUME NEW u \in overtaken'
                 PROVE  /\ (u[1] < starts \/ u[1] = starts)
                        /\ wpc[u] \notin {"none", "start"}
      OBVIOUS
    <3>1. CASE u \in overtaken
      BY <3>1, <2>1 DEF GenerationInv
    <3>2. CASE u \notin overtaken
      <4>1. u \in Worker /\ ~Gone(u) /\ u[1] \in Nat /\ starts \in Nat
        BY <3>2, <2>6, <2>7
      <4>2. ~(u[1] > starts) /\ ~(u[1] < starts)
        BY <3>2, <4>1, <2>6 DEF Gone
      <4>3. u[1] = starts
        BY <4>1, <4>2
      <4> QED BY <4>1, <4>3, <2>5
    <3> QED BY <3>1, <3>2
  <2>9. \A u \in Worker : Gone(u)' \/ u \in overtaken'
    BY <2>1, <2>2 DEF Gone
  <2> QED BY <2>1, <2>8, <2>9 DEF GenerationInv
<1>4. BarrierInv'
  BY DEF BarrierInv, Waiting
<1>5. CreatedInv'
  BY DEF CreatedInv, Created
<1>6. ReadyInv'
  BY DEF ReadyInv
<1>7. GatherInv'
  BY DEF GatherInv
<1>8. CompleteInv'
  BY DEF CompleteInv
<1>9. EveryWorkerHasIndex'
  BY DEF EveryWorkerHasIndex
<1> QED BY <1>1, <1>2, <1>3, <1>4, <1>5, <1>6, <1>7, <1>8, <1>9

\* Clear preserves the invariant.
LEMMA ClearStep ==
    ASSUME IInv, Clear
    PROVE  IInv'
<1> USE Numbers DEF IInv, Clear, Idle, Starting, flags, tables, local
<1>1. TypeOK'
  BY DEF TypeOK
<1>2. ListInv'
  BY DEF ListInv
<1>3. GenerationInv'
  BY DEF GenerationInv, Gone
<1>4. BarrierInv'
  BY DEF BarrierInv, Waiting
<1>5. CreatedInv'
  BY DEF CreatedInv, Created
<1>6. ReadyInv'
  BY DEF ReadyInv
<1>7. GatherInv'
  BY DEF GatherInv
<1>8. CompleteInv'
  BY DEF CompleteInv
<1>9. EveryWorkerHasIndex'
  BY DEF EveryWorkerHasIndex
<1> QED BY <1>1, <1>2, <1>3, <1>4, <1>5, <1>6, <1>7, <1>8, <1>9

-----------------------------------------------------------------------------
(* One lemma for each action of a worker.                                  *)

\* WorkerArrives: the barrier opens only if the host has come.
LEMMA WorkerArrivesStep ==
    ASSUME IInv, NEW t \in Worker, t \notin overtaken, WorkerArrives(t)
    PROVE  IInv'
<1> USE Numbers DEF IInv, WorkerArrives, Goto, Idle, Starting, flags, tables, shared
<1>a. /\ wpc[t] = "start" /\ starts \in Start /\ hpc \notin Idle
      /\ t[2] \in Slot /\ t = <<starts, t[2]>>
  BY Current DEF Gone
<1>b. \A j \in Slot : wpc'[<<starts', j>>] = IF j = t[2] THEN "wait" ELSE wpc[<<starts, j>>]
  BY <1>a, Pairs DEF TypeOK
<1>c. barrier[starts].iteration = 0 /\ Cardinality(Waiting') = Cardinality(Waiting) + 1
  BY Arrival
<1>d. /\ hpc \in Starting \cup {"wait"}
      /\ barrier[starts].count = Cardinality(Waiting) + (IF hpc = "wait" THEN 1 ELSE 0)
  BY <1>a, <1>c DEF BarrierInv
<1>e. Waiting' \subseteq Slot /\ Cardinality(Waiting') \in Nat /\ Cardinality(Waiting) \in Nat
  <2>1. Waiting' \subseteq Slot
    BY DEF Waiting
  <2> QED BY <2>1, Slots, FS_Subset, FS_CardinalityType, WaitingBound
<1>f. /\ Cardinality(Waiting') <= numThreads - 1
      /\ Cardinality(Waiting') = numThreads - 1 => Waiting' = Slot
  BY <1>e, Slots, FS_Subset
<1>g. LET b == barrier[starts]
      IN  barrier' = [barrier EXCEPT ![starts] =
              IF hpc = "wait" /\ Waiting' = Slot
              THEN [count |-> 0, iteration |-> 1]
              ELSE [count |-> b.count + 1, iteration |-> 0]]
  <2>1. barrier[starts].count + 1 >= numThreads <=> hpc = "wait" /\ Waiting' = Slot
    BY <1>c, <1>d, <1>e, <1>f, Slots
  <2>2. t[1] = starts
    BY <1>a
  <2>3. barrier' = [barrier EXCEPT ![starts] =
            IF barrier[starts].count + 1 >= numThreads
            THEN [count |-> 0, iteration |-> barrier[starts].iteration + 1]
            ELSE [count |-> barrier[starts].count + 1,
                  iteration |-> barrier[starts].iteration]]
    BY <2>2 DEF Arrive, BarrierMax
  <2>4. (IF barrier[starts].count + 1 >= numThreads
         THEN [count |-> 0, iteration |-> barrier[starts].iteration + 1]
         ELSE [count |-> barrier[starts].count + 1,
               iteration |-> barrier[starts].iteration])
        = (IF hpc = "wait" /\ Waiting' = Slot
           THEN [count |-> 0, iteration |-> 1]
           ELSE [count |-> barrier[starts].count + 1, iteration |-> 0])
    <3>1. CASE hpc = "wait" /\ Waiting' = Slot
      BY <2>1, <3>1, <1>c
    <3>2. CASE ~(hpc = "wait" /\ Waiting' = Slot)
      BY <2>1, <3>2, <1>c
    <3> QED BY <3>1, <3>2
  <2> QED BY <2>3, <2>4
<1>h. UNCHANGED <<hpc, starts, flags, tables, index, wflag, overtaken>> /\ wpc' = [wpc EXCEPT ![t] = "wait"]
  OBVIOUS
<1> HIDE DEF WorkerArrives
<1>1. TypeOK'
  <2>1. barrier' \in [Start -> [count : 0..(numThreads - 1), iteration : 0..1]]
    <3>1. barrier[starts].count + 1 \in 0..(numThreads - 1) \/ (hpc = "wait" /\ Waiting' = Slot)
      BY <1>c, <1>d, <1>e, <1>f
    <3>2. barrier \in [Start -> [count : 0..(numThreads - 1), iteration : 0..1]]
      BY DEF TypeOK
    <3> QED BY <1>a, <1>g, <3>1, <3>2
  <2>2. wpc' \in [Worker -> {"none", "start", "wait", "lookup", "spin", "test",
                             "perform", "exited", "died"}]
    BY <1>h DEF TypeOK
  <2> QED BY <2>1, <2>2, <1>h DEF TypeOK
<1>2. ListInv'
  BY <1>h DEF ListInv
<1>3. GenerationInv'
  <2>1. \A u \in Worker : u[1] # starts => wpc'[u] = wpc[u]
    BY <1>a, <1>h, Pairs DEF TypeOK
  <2>2. \A s \in Start : s # starts => barrier'[s] = barrier[s]
    BY <1>g DEF TypeOK
  <2> QED BY <1>a, <1>h, <2>1, <2>2 DEF GenerationInv, Gone, TypeOK
<1>4. BarrierInv'
  <2>1. CASE hpc = "wait" /\ Waiting' = Slot
    <3>1. \A j \in Slot : wpc'[<<starts', j>>] = "wait"
      BY <2>1 DEF Waiting
    <3>2. barrier'[starts'].iteration = 1
      BY <2>1, <1>a, <1>g, <1>h DEF TypeOK
    <3> QED BY <2>1, <3>1, <3>2, <1>h DEF BarrierInv
  <2>2. CASE ~(hpc = "wait" /\ Waiting' = Slot)
    <3>1. barrier'[starts'] = [count |-> barrier[starts].count + 1, iteration |-> 0]
      BY <2>2, <1>a, <1>g, <1>h DEF TypeOK
    <3>2. \A j \in Slot : wpc'[<<starts', j>>] \in {"none", "start", "wait"}
      BY <1>a, <1>b, <1>c DEF BarrierInv
    <3>3. barrier[starts].count + 1 = Cardinality(Waiting') + (IF hpc = "wait" THEN 1 ELSE 0)
      BY <1>c, <1>d, <1>e
    <3> QED BY <3>1, <3>2, <3>3, <1>d, <1>h DEF BarrierInv
  <2> QED BY <2>1, <2>2
<1>5. CreatedInv'
  BY <1>a, <1>b, <1>h DEF CreatedInv, Created
<1>6. ReadyInv'
  BY <1>a, <1>b, <1>h DEF ReadyInv
<1>7. GatherInv'
  BY <1>d, <1>h DEF GatherInv
<1>8. CompleteInv'
  BY <1>h DEF CompleteInv, TypeOK
<1>9. EveryWorkerHasIndex'
  BY <1>a, <1>h DEF EveryWorkerHasIndex, TypeOK
<1> QED BY <1>1, <1>2, <1>3, <1>4, <1>5, <1>6, <1>7, <1>8, <1>9

\* WorkerPasses preserves the invariant.
LEMMA WorkerPassesStep ==
    ASSUME IInv, NEW t \in Worker, t \notin overtaken, WorkerPasses(t)
    PROVE  IInv'
<1> USE Numbers DEF IInv, WorkerPasses, Goto, Idle, Starting, flags, tables, shared
<1>a. /\ wpc[t] = "wait" /\ starts \in Start /\ hpc \notin Idle
      /\ t[2] \in Slot /\ t = <<starts, t[2]>>
  BY Current DEF Gone
<1>b. \A j \in Slot : wpc'[<<starts', j>>] = IF j = t[2] THEN "lookup" ELSE wpc[<<starts, j>>]
  BY <1>a, Pairs DEF TypeOK
<1>c. barrier[starts].iteration # 0 /\ hpc \notin Starting
  BY <1>a DEF BarrierInv, Open
<1>1. TypeOK'
  BY <1>a DEF TypeOK
<1>2. ListInv'
  BY DEF ListInv
<1>3. GenerationInv'
  BY <1>a, Pairs DEF GenerationInv, Gone, TypeOK
<1>4. BarrierInv'
  BY <1>a, <1>b, <1>c DEF BarrierInv
<1>5. CreatedInv'
  BY <1>c DEF CreatedInv
<1>6. ReadyInv'
  BY <1>a, <1>b DEF ReadyInv
<1>7. GatherInv'
  BY <1>a, <1>b DEF GatherInv
<1>8. CompleteInv'
  BY DEF CompleteInv, TypeOK
<1>9. EveryWorkerHasIndex'
  BY DEF EveryWorkerHasIndex, TypeOK
<1> QED BY <1>1, <1>2, <1>3, <1>4, <1>5, <1>6, <1>7, <1>8, <1>9

\* Lookup: a thread past the barrier finds the whole list.
LEMMA LookupStep ==
    ASSUME IInv, NEW t \in Worker, t \notin overtaken, Lookup(t)
    PROVE  IInv'
<1> USE Numbers DEF IInv, Lookup, Goto, Idle, Starting, flags, tables, shared
<1>a. /\ wpc[t] = "lookup" /\ starts \in Start /\ hpc \notin Idle
      /\ t[2] \in Slot /\ t = <<starts, t[2]>>
  BY Current DEF Gone
<1>c. barrier[starts].iteration # 0 /\ hpc \notin Starting
  BY <1>a DEF BarrierInv
<1>d. DOMAIN threadInfo = Slot
  BY <1>a, <1>c DEF TypeOK, ListInv, Slot
<1>e. threadInfo[t[2]] = t /\ \A i \in DOMAIN threadInfo : threadInfo[i] = t => i = t[2]
  <2>1. \A i \in Slot : threadInfo[i] = <<starts, i>>
    BY <1>d DEF ListInv
  <2>2. \A i \in Slot : <<starts, i>> = <<starts, t[2]>> => i = t[2]
    OBVIOUS
  <2> QED BY <1>a, <1>d, <2>1, <2>2
<1>f. wpc' = [wpc EXCEPT ![t] = "spin"] /\ index' = [index EXCEPT ![t] = t[2]]
  BY <1>a, <1>d, <1>e
<1>g. UNCHANGED <<shared, wflag>>
  OBVIOUS
<1> HIDE DEF Lookup
<1>b. \A j \in Slot : wpc'[<<starts', j>>] = IF j = t[2] THEN "spin" ELSE wpc[<<starts, j>>]
  BY <1>a, <1>f, <1>g, Pairs DEF TypeOK
<1>1. TypeOK'
  BY <1>a, <1>f, <1>g DEF TypeOK, Slot
<1>2. ListInv'
  BY <1>g DEF ListInv
<1>3. GenerationInv'
  BY <1>a, <1>f, <1>g, Pairs DEF GenerationInv, Gone, TypeOK
<1>4. BarrierInv'
  BY <1>a, <1>b, <1>c, <1>g DEF BarrierInv
<1>5. CreatedInv'
  BY <1>c, <1>g DEF CreatedInv
<1>6. ReadyInv'
  BY <1>a, <1>b, <1>g DEF ReadyInv
<1>7. GatherInv'
  BY <1>a, <1>b, <1>g DEF GatherInv
<1>8. CompleteInv'
  BY <1>f, <1>g DEF CompleteInv, TypeOK
<1>9. EveryWorkerHasIndex'
  BY <1>a, <1>f, <1>g DEF EveryWorkerHasIndex, TypeOK
<1> QED BY <1>1, <1>2, <1>3, <1>4, <1>5, <1>6, <1>7, <1>8, <1>9

\* Spin: a flag not seen yet means a control period or the end.
LEMMA SpinStep ==
    ASSUME IInv, NEW t \in Worker, t \notin overtaken, Spin(t)
    PROVE  IInv'
<1> USE Numbers DEF IInv, Spin, Goto, Idle, Starting, flags, tables, shared
<1>a. /\ wpc[t] = "spin" /\ starts \in Start /\ hpc \notin Idle
      /\ t[2] \in Slot /\ t = <<starts, t[2]>>
  BY Current DEF Gone
<1>b. \A j \in Slot : wpc'[<<starts', j>>] = IF j = t[2] THEN "test" ELSE wpc[<<starts, j>>]
  BY <1>a, Pairs DEF TypeOK
<1>c. barrier[starts].iteration # 0 /\ hpc \notin Starting
  BY <1>a DEF BarrierInv
<1>d. \A j \in Slot : wflag'[<<starts', j>>] = IF j = t[2] THEN parflag ELSE wflag[<<starts, j>>]
  BY <1>a, Pairs DEF TypeOK
<1>1. TypeOK'
  BY <1>a DEF TypeOK
<1>2. ListInv'
  BY DEF ListInv
<1>3. GenerationInv'
  BY <1>a, Pairs DEF GenerationInv, Gone, TypeOK
<1>4. BarrierInv'
  BY <1>a, <1>b, <1>c DEF BarrierInv
<1>5. CreatedInv'
  BY <1>c DEF CreatedInv
<1>6. ReadyInv'
  BY <1>a, <1>b, <1>d DEF ReadyInv
<1>7. GatherInv'
  BY <1>a, <1>b, <1>d DEF GatherInv
<1>8. CompleteInv'
  BY DEF CompleteInv, TypeOK
<1>9. EveryWorkerHasIndex'
  BY DEF EveryWorkerHasIndex, TypeOK
<1> QED BY <1>1, <1>2, <1>3, <1>4, <1>5, <1>6, <1>7, <1>8, <1>9

\* Test preserves the invariant.
LEMMA TestStep ==
    ASSUME IInv, NEW t \in Worker, t \notin overtaken, Test(t)
    PROVE  IInv'
<1> USE Numbers DEF IInv, Test, Goto, Idle, Starting, flags, tables, shared
<1>a. /\ wpc[t] = "test" /\ starts \in Start /\ hpc \notin Idle
      /\ t[2] \in Slot /\ t = <<starts, t[2]>>
  BY Current DEF Gone
<1>b. \A j \in Slot : wpc'[<<starts', j>>] =
          IF j = t[2] THEN (IF multiThreadedComplete = 1 THEN "exited" ELSE "perform")
                      ELSE wpc[<<starts, j>>]
  BY <1>a, Pairs DEF TypeOK
<1>c. barrier[starts].iteration # 0 /\ hpc \notin Starting
  BY <1>a DEF BarrierInv
<1>1. TypeOK'
  BY <1>a DEF TypeOK
<1>2. ListInv'
  BY DEF ListInv
<1>3. GenerationInv'
  BY <1>a, Pairs DEF GenerationInv, Gone, TypeOK
<1>4. BarrierInv'
  BY <1>a, <1>b, <1>c DEF BarrierInv
<1>5. CreatedInv'
  BY <1>c DEF CreatedInv
<1>6. ReadyInv'
  BY <1>a, <1>b DEF ReadyInv
<1>7. GatherInv'
  BY <1>a, <1>b, <1>c DEF GatherInv
<1>8. CompleteInv'
  BY DEF CompleteInv, TypeOK
<1>9. EveryWorkerHasIndex'
  BY DEF EveryWorkerHasIndex, TypeOK
<1> QED BY <1>1, <1>2, <1>3, <1>4, <1>5, <1>6, <1>7, <1>8, <1>9

\* Report: the answer goes to the slot of the thread.
LEMMA ReportStep ==
    ASSUME IInv, NEW t \in Worker, t \notin overtaken, Report(t)
    PROVE  IInv'
<1> USE Numbers DEF IInv, Report, Goto, Idle, Starting, flags, tables, shared
<1>a. /\ wpc[t] = "perform" /\ starts \in Start /\ hpc \notin Idle
      /\ t[2] \in Slot /\ t = <<starts, t[2]>>
  BY Current DEF Gone
<1>c. barrier[starts].iteration # 0 /\ hpc \notin Starting
  BY <1>a DEF BarrierInv
<1>d. taskflag # <<>> /\ taskflag \in [Slot -> 0..1] /\ index[t] = t[2]
  BY <1>a, Allocated DEF ListInv, EveryWorkerHasIndex
<1>e. wpc' = [wpc EXCEPT ![t] = "spin"] /\ taskflag' = [taskflag EXCEPT ![t[2]] = wflag[t]]
  BY <1>d
<1>f. overtaken = {} =>
          multiThreadedComplete = 0 /\ hpc = "gather" /\ wflag[t] = parflag
  BY <1>a, <1>c DEF TypeOK, CompleteInv, ReadyInv, GatherInv
<1>g. UNCHANGED <<hpc, starts, flags, threadInfo, barrier, index, wflag, overtaken>>
  OBVIOUS
<1> HIDE DEF Report
<1>b. \A j \in Slot : wpc'[<<starts', j>>] = IF j = t[2] THEN "spin" ELSE wpc[<<starts, j>>]
  BY <1>a, <1>e, <1>g, Pairs DEF TypeOK
<1>1. TypeOK'
  BY <1>a, <1>d, <1>e, <1>g DEF TypeOK
<1>2. ListInv'
  BY <1>a, <1>d, <1>e, <1>f, <1>g DEF ListInv, TypeOK
<1>3. GenerationInv'
  BY <1>a, <1>e, <1>g, Pairs DEF GenerationInv, Gone, TypeOK
<1>4. BarrierInv'
  BY <1>a, <1>b, <1>c, <1>g DEF BarrierInv
<1>5. CreatedInv'
  BY <1>c, <1>g DEF CreatedInv
<1>6. ReadyInv'
  BY <1>f, <1>g DEF ReadyInv
<1>7. GatherInv'
  BY <1>a, <1>b, <1>d, <1>e, <1>f, <1>g DEF GatherInv
<1>8. CompleteInv'
  BY <1>f, <1>g DEF CompleteInv
<1>9. EveryWorkerHasIndex'
  BY <1>a, <1>d, <1>e, <1>g DEF EveryWorkerHasIndex, TypeOK
<1> QED BY <1>1, <1>2, <1>3, <1>4, <1>5, <1>6, <1>7, <1>8, <1>9

\* A worker that a reset overtook is of an earlier start, or finds the instance
\* cleared: nothing of the current start depends on what it does.
LEMMA OvertakenStep ==
    ASSUME IInv, NEW t \in overtaken, WorkerStep(t)
    PROVE  IInv'
<1> USE Numbers DEF IInv
<1>a. /\ t \in Worker /\ wpc[t] \notin {"none", "start"}
      /\ (t[1] < starts \/ (t[1] = starts /\ hpc \in Idle))
      /\ t[1] \in Nat /\ starts \in Nat
  BY Pairs DEF TypeOK, GenerationInv, Start
<1>b. \A i \in DOMAIN threadInfo : threadInfo[i] # t
  <2>1. CASE t[1] < starts
    BY <2>1, <1>a DEF ListInv
  <2>2. CASE hpc \in Idle
    BY <2>2 DEF ListInv
  <2> QED BY <1>a, <2>1, <2>2
<1>c. UNCHANGED <<hpc, starts, flags, threadInfo, barrier, index, overtaken>>
  BY <1>a, <1>b DEF WorkerStep, WorkerArrives, WorkerPasses, Lookup, Spin, Test,
     Report, Goto, shared, tables
<1>d. \E x \in {"lookup", "spin", "test", "perform", "exited", "died"} :
          /\ wpc' = [wpc EXCEPT ![t] = x]
          /\ x \in {"spin", "test", "perform"} => wpc[t] \in {"spin", "test", "perform"}
  BY <1>a, <1>b DEF WorkerStep, WorkerArrives, WorkerPasses, Lookup, Spin, Test,
     Report, Goto
<1>e. wflag' = wflag \/ wflag' = [wflag EXCEPT ![t] = parflag]
  BY <1>a, <1>b DEF WorkerStep, WorkerArrives, WorkerPasses, Lookup, Spin, Test,
     Report, Goto
<1>f. \/ taskflag' = taskflag
      \/ /\ taskflag # <<>> /\ index[t] = t[2]
         /\ taskflag' = [taskflag EXCEPT ![t[2]] = wflag[t]]
  BY <1>a, <1>b DEF WorkerStep, WorkerArrives, WorkerPasses, Lookup, Spin, Test,
     Report, Goto, shared, tables, EveryWorkerHasIndex
<1>g. \A u \in Worker : u # t => wpc'[u] = wpc[u] /\ wflag'[u] = wflag[u]
  BY <1>d, <1>e DEF TypeOK
<1>h. hpc \notin Idle => \A i \in Slot : t # <<starts, i>> /\ <<starts, i>> \in Worker
  <2>1. ASSUME hpc \notin Idle PROVE starts \in Start
    BY <2>1, <1>a DEF TypeOK, ListInv, Idle, Start
  <2>2. ASSUME hpc \notin Idle PROVE t[1] # starts
    BY <2>2, <1>a
  <2>3. \A i \in Slot : <<starts, i>>[1] = starts
    OBVIOUS
  <2> QED BY <2>1, <2>2, <2>3, Pairs
<1>i. wpc'[t] \in {"lookup", "spin", "test", "perform", "exited", "died"}
  BY <1>a, <1>d DEF TypeOK
<1>1. TypeOK'
  <2>1. taskflag' = <<>> \/ taskflag' \in [Slot -> 0..1]
    BY <1>a, <1>f DEF TypeOK
  <2>2. wpc' \in [Worker -> {"none", "start", "wait", "lookup", "spin", "test",
                             "perform", "exited", "died"}]
    BY <1>a, <1>d DEF TypeOK
  <2>3. wflag' \in [Worker -> 0..1]
    BY <1>a, <1>e DEF TypeOK
  <2> QED BY <1>c, <2>1, <2>2, <2>3 DEF TypeOK, flags
<1>2. ListInv'
  <2>1. hpc \notin Idle => taskflag' \in [Slot -> 0..1]
    BY <1>a, <1>f DEF ListInv, TypeOK
  <2> QED BY <1>c, <2>1 DEF ListInv, Idle
<1>3. GenerationInv'
  <2>1. \A u \in Worker : u[1] > starts => u # t
    BY <1>a
  <2>2. \A u \in Worker : u # t => wpc'[u] = wpc[u] /\ wflag'[u] = wflag[u]
    BY <1>g
  <2>3. \A u \in Worker : (u[1] < starts \/ hpc \in Idle) => u \in overtaken \/ (u # t /\ Gone(u))
    BY DEF GenerationInv
  <2>4. \A u \in Worker : u # t /\ Gone(u) => Gone(u)'
    BY <2>2 DEF Gone
  <2>5. \A u \in overtaken : u \in Worker /\ wpc'[u] \notin {"none", "start"}
    BY <2>2, <1>i DEF GenerationInv, TypeOK
  <2> QED BY <1>c, <2>1, <2>2, <2>3, <2>4, <2>5 DEF GenerationInv, Idle
<1>4. BarrierInv'
  <2> SUFFICES ASSUME hpc \notin Idle PROVE BarrierInv'
    BY <1>c DEF BarrierInv, Idle
  <2>1. \A i \in Slot : wpc'[<<starts, i>>] = wpc[<<starts, i>>]
    BY <1>g, <1>h
  <2>2. Waiting' = Waiting
    BY <1>c, <2>1 DEF Waiting
  <2> QED BY <1>c, <2>1, <2>2 DEF BarrierInv
<1>5. CreatedInv'
  <2>1. hpc \in Starting => \A i \in Slot : wpc'[<<starts, i>>] = wpc[<<starts, i>>]
    BY <1>g, <1>h DEF Starting, Idle
  <2> QED BY <1>c, <2>1 DEF CreatedInv, Created, Starting
<1>6. ReadyInv' /\ GatherInv' /\ CompleteInv'
  BY <1>c DEF ReadyInv, GatherInv, CompleteInv, flags, Starting
<1>7. EveryWorkerHasIndex'
  BY <1>a, <1>c, <1>d, <1>g DEF EveryWorkerHasIndex, TypeOK
<1> QED BY <1>1, <1>2, <1>3, <1>4, <1>5, <1>6, <1>7

-----------------------------------------------------------------------------
(* The theorems.                                                           *)

\* The invariant holds initially.
LEMMA Initially == Init => IInv
<1> SUFFICES ASSUME Init PROVE IInv
  OBVIOUS
<1> USE Numbers DEF Init, Idle, Starting
<1>1. TypeOK
  BY DEF TypeOK
<1>2. ListInv /\ GenerationInv
  BY DEF ListInv, GenerationInv, Gone
<1>3. BarrierInv /\ CreatedInv /\ ReadyInv /\ GatherInv
  BY DEF BarrierInv, CreatedInv, ReadyInv, GatherInv
<1>4. CompleteInv /\ EveryWorkerHasIndex
  BY DEF CompleteInv, EveryWorkerHasIndex
<1> QED BY <1>1, <1>2, <1>3, <1>4 DEF IInv

\* A step that changes nothing preserves the invariant.
LEMMA Stuttering == ASSUME IInv, UNCHANGED vars PROVE IInv'
  BY DEF vars, flags, tables, local, IInv, TypeOK, ListInv, GenerationInv,
     BarrierInv, CreatedInv, ReadyInv, GatherInv, CompleteInv, EveryWorkerHasIndex,
     Gone, Waiting, Created

\* The start barrier, the flags and the list keep the invariant, whether or not
\* the workers leave before reset clears the instance.
THEOREM Invariance == Spec => []IInv
<1>1. ASSUME IInv, [Next]_vars PROVE IInv'
  <2>1. CASE UNCHANGED vars
    BY <1>1, <2>1, Stuttering
  <2>2. CASE Host
    BY <1>1, <2>2, BeginStartStep, CreateThreadStep, LinkThreadStep, 
       HostArrivesStep, HostPassesStep, CycleStep, GatherStep, 
       EndScoreStep, FlipAtEndStep, BeginResetStep, 
       StopWorkersStep, MemresetStep, ClearStep DEF Host
  <2>3. ASSUME NEW t \in Worker, WorkerStep(t) PROVE IInv'
    <3>1. CASE t \in overtaken
      BY <1>1, <2>3, <3>1, OvertakenStep
    <3>2. CASE t \notin overtaken
      BY <1>1, <2>3, <3>2, WorkerArrivesStep, WorkerPassesStep, LookupStep,
         SpinStep, TestStep, ReportStep DEF WorkerStep
    <3> QED BY <3>1, <3>2
  <2> QED BY <1>1, <2>1, <2>2, <2>3 DEF Next
<1> QED BY <1>1, Initially, PTL DEF Spec

\* Type correctness of the flags, the list, the barriers and the threads.
THEOREM TypeCorrect == Spec => []TypeOK
<1>1. IInv => TypeOK
  BY DEF IInv
<1> QED BY <1>1, Invariance, PTL

\* No thread but one that a reset overtook dies with "Bad ThreadId", and each has
\* a slot of its own, also in the starts after a reset that overtook workers: the
\* barrier of csoundStart keeps get_thread_index off a half-built list.
THEOREM Indexed == Spec => []EveryWorkerHasIndex
<1>1. IInv => EveryWorkerHasIndex
  BY DEF IInv
<1> QED BY <1>1, Invariance, PTL

\* Until a reset has overtaken a worker, a worker performs only inside the control
\* period that released it.
THEOREM Released == Spec => []OnlyReleasedWorkersPerform
<1>1. IInv => OnlyReleasedWorkersPerform
  <2> SUFFICES ASSUME IInv, overtaken = {}, NEW t \in Worker, wpc[t] = "perform"
               PROVE  hpc = "gather" /\ t[1] = starts
    BY DEF OnlyReleasedWorkersPerform
  <2>1. hpc \notin Idle /\ t[2] \in Slot /\ t = <<starts, t[2]>>
    BY Current DEF Gone
  <2>2. multiThreadedComplete = 0
    BY DEF IInv, TypeOK, CompleteInv
  <2>3. hpc \notin Starting \cup {"wait", "ready", "ending", "stopping", "cleanup"}
    BY <2>1, <2>2 DEF IInv, CompleteInv, ReadyInv
  <2> QED BY <2>1, <2>3 DEF IInv, TypeOK, Idle, Starting
<1> QED BY <1>1, Invariance, PTL
=============================================================================
