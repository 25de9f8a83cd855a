------------------------- MODULE DagDispatch_proofs -------------------------
(***************************************************************************)
(* Proofs about DagDispatch for every number of threads, every orchestra   *)
(* (Reads, Writes, ReadWrites, Monitors), every chain, weak or strong      *)
(* compare-and-swap, and both ways of inserting instances.                 *)
(*                                                                         *)
(* The heart of the argument is OnePointer: at every moment each waiting   *)
(* task is referred to from at most one place (the head of a watch list,   *)
(* the link of another entry, or a variable of one thread).  Hence the     *)
(* thread that holds a watcher owns it, no task is started twice, and no   *)
(* task that is done ever becomes anything else within a control period.   *)
(***************************************************************************)
EXTENDS DagDispatch, WellFoundedInduction, FiniteSetTheorems, SequenceTheorems, TLAPS

-----------------------------------------------------------------------------
(***************************************************************************)
(* The inductive invariant                                                 *)
(***************************************************************************)

\* The worker's side of the parflag/taskflag handshake.
Handshake ==
    /\ \A t \in Worker :
          /\ pc[t] \notin {"release", "mix"}
          /\ pc[t] # "idle" => seen[t] = parflag /\ taskflag[t] # parflag
          /\ pc[t] = "idle" => taskflag[t] = seen[t]
    /\ WorkersParked

\* There is a graph whenever somebody works or the last build still counts.
GraphExists ==
    task_map = <<>> =>
        /\ dag_changed
        /\ \A t \in Thread : pc[t] = "idle"
        /\ \A t \in Worker : seen[t] = parflag

\* The room that insert_new found is still there when it splices.
InsertShape == inserting = 1 => AsyncInsert /\ Len(chain) < MaxActive

\* The variables of a thread are those of its program point.
ShapeAt(t) ==
    /\ pc[t] \in {"scan", "cas"} => pos[t] \in Active /\ next_task[t] = INVALID
    /\ pc[t] \in Serving => to_notify[t] \in Task
    /\ pc[t] \in {"move1", "move2"} => k[t] \in Task
ThreadShape == \A t \in Thread : ShapeAt(t)

\* Dependencies point backwards and include every conflict.
GraphShape ==
    /\ \A j \in Task : \A i \in task_dep[j] : i < j /\ j < num_active
    /\ \A j \in Active : \A i \in 0..(j - 1) :
          Conflict(TaskInstr(i), TaskInstr(j)) => i \in task_dep[j]

DepsDone(j) == \A d \in task_dep[j] : task_status[d] = DONE

\* The five kinds of references to a waiting task, as functions to
\* Task \cup {NULL, DoNotRead}: the head of a list is task_watch[i] itself.
Holding == {"get", "walk"} \cup Serving

FwdOf == [t \in Thread |-> IF pc[t] \in Holding /\ next_task[t] # INVALID
                           THEN next_task[t] ELSE NULL]
CurOf == [t \in Thread |-> IF pc[t] \in {"walk"} \cup Serving
                           THEN to_notify[t] ELSE NULL]
NxtOf == [t \in Thread |-> IF pc[t] \in Serving THEN next[t] ELSE NULL]

SrvOf == [t \in Thread |-> IF pc[t] \in Serving THEN to_notify[t] ELSE NULL]

\* The link of an entry counts while the entry is on a list: it waits, nobody
\* is looking for its next dependency, and it is not forwarded.
Linked(a) == task_status[a] = WAITING /\ \A t \in Thread : FwdOf[t] # a /\ SrvOf[t] # a
LinkOf    == [a \in Task |-> IF Linked(a) THEN wl_next[a] ELSE NULL]

Inj(f)      == \A x, y \in DOMAIN f : f[x] \in Task /\ f[x] = f[y] => x = y
Apart(f, g) == \A x \in DOMAIN f, y \in DOMAIN g : f[x] \in Task => f[x] # g[y]

\* No task is referred to twice, by heads w, links l, current entries c, next
\* entries n and forwarded tasks f.
Once(w, l, c, n, f) ==
    /\ Inj(w) /\ Inj(l) /\ Inj(c) /\ Inj(n) /\ Inj(f)
    /\ Apart(w, l) /\ Apart(w, c) /\ Apart(w, n) /\ Apart(w, f)
    /\ Apart(l, c) /\ Apart(l, n) /\ Apart(l, f)
    /\ Apart(c, n) /\ Apart(c, f) /\ Apart(n, f)
OnePointer == Once(task_watch, LinkOf, CurOf, NxtOf, FwdOf)

Refers(w, l, c, n, f, x) ==
    \/ \E i \in Task : w[i] = x \/ l[i] = x
    \/ \E t \in Thread : c[t] = x \/ n[t] = x \/ f[t] = x
PointedWaits ==
    \A x \in Task : Refers(task_watch, LinkOf, CurOf, NxtOf, FwdOf, x) => task_status[x] = WAITING

\* A task that left WAITING has its dependencies done, and so has one that is
\* about to leave it.
Ready ==
    /\ \A j \in Active : task_status[j] # WAITING => DepsDone(j)
    /\ \A t \in Thread : FwdOf[t] \in Task => DepsDone(FwdOf[t])

\* What a thread knows of the dependencies of the watcher it serves.
Examined ==
    \A t \in Thread :
        \/ pc[t] \in {"pass1", "move1"} /\ ~wait_current[t]
        \/ pc[t] \in {"pass2", "move2"}
      => \A d \in task_dep[to_notify[t]] : d < k[t] => task_status[d] = DONE

\* Who performs a task owns it until its list is closed.
Running ==
    /\ \A t \in Thread :
          /\ pc[t] = "run" => task_status[which_task[t]] = INPROGRESS
          /\ pc[t] = "swap" => task_status[which_task[t]] = DONE
                               /\ task_watch[which_task[t]] # DoNotRead
    /\ \A t, u \in Thread :
          t # u /\ pc[t] \in {"run", "swap"} /\ pc[u] \in {"run", "swap"}
            => which_task[t] # which_task[u]

Closed == \A i \in Task : task_watch[i] = DoNotRead => task_status[i] = DONE

RanOnce == \A i \in Task : ran[i] = 0 \/ (ran[i] = 1 /\ task_status[i] = DONE)

IInv ==
    /\ TypeOK /\ InsertShape /\ Handshake /\ GraphExists /\ ThreadShape /\ GraphShape
    /\ OnePointer /\ PointedWaits /\ Ready /\ Examined /\ Running /\ Closed /\ RanOnce

-----------------------------------------------------------------------------
(***************************************************************************)
(* Facts about the operators                                               *)
(***************************************************************************)

\* A scan starts at a task of the chain: the division of dag_get_task.
LEMMA ScanStartInRange ==
    ASSUME NEW t \in Thread, task_map \in Seq(Instr), task_map # <<>>
    PROVE  ScanStart(t) \in Active
<1>. DEFINE n == num_active
            N == NumThreads
<1>1. n \in Nat /\ n > 0 /\ N \in Nat /\ N > 0 /\ t \in 0..(N - 1)
  BY ThreadsAssumption DEF Thread, num_active
<1>. HIDE DEF n, N
<1>2. t * n \in Nat /\ t * n <= (N - 1) * n
  BY <1>1
<1>3. (N - 1) * n < N * n
  BY <1>1
<1>4. t * n < N * n
  BY <1>1, <1>2, <1>3
<1>5. (t * n) \div N \in 0..(n - 1)
  BY <1>1, <1>2, <1>4
<1>. QED
  BY <1>5 DEF n, N, ScanStart, Active

\* The test of dag_build finds every conflict.
LEMMA ConflictIsDependent ==
    ASSUME NEW a, NEW b, Conflict(a, b)
    PROVE  Dependent(a, b)
BY Zenon DEF Conflict, Dependent

\* dag_build watches the first dependency, pushes the watchers in ascending order.
LEMMA MinimumOf ==
    ASSUME NEW S \in SUBSET Nat, S # {}
    PROVE  Minimum(S) \in S /\ \A x \in S : Minimum(S) <= x
<1>. DEFINE R == {ss \in Nat \X Nat : ss[1] < ss[2]}
<1>1. IsWellFoundedOn(R, Nat)
  BY NatLessThanWellFounded, Zenon DEF OpToRel
<1>2. PICK m \in S : \A y \in S : <<y, m>> \notin R
  BY <1>1, WFMin, Zenon
<1>3. \A y \in S : m <= y
  <2>. TAKE y \in S
  <2>1. y \in Nat /\ m \in Nat
    OBVIOUS
  <2>2. y < m => <<y, m>> \in R
    BY <2>1, Zenon
  <2>. QED
    BY <1>2, <2>1, <2>2
<1>. QED
  BY <1>2, <1>3, Zenon DEF Minimum

\* A set of tasks that is not empty has its maximum.
LEMMA MaximumOf ==
    ASSUME NEW S \in SUBSET Task, S # {}
    PROVE  MaximumOrNull(S) \in S /\ \A x \in S : x <= MaximumOrNull(S)
<1>. DEFINE T == {x \in Nat : MaxActive - x \in S}
<1>1. \A x \in S : MaxActive - x \in Nat /\ MaxActive - (MaxActive - x) = x
  BY BoundsAssumption DEF Task
<1>2. T \in SUBSET Nat /\ T # {}
  BY <1>1
<1>3. Minimum(T) \in T /\ \A x \in T : Minimum(T) <= x
  BY <1>2, MinimumOf
<1>. DEFINE m == MaxActive - Minimum(T)
<1>4. m \in S
  BY <1>3
<1>5. \A x \in S : x <= m
  <2>. TAKE x \in S
  <2>1. MaxActive - x \in T
    BY <1>1
  <2>. QED
    BY <1>1, <1>3, <2>1, BoundsAssumption DEF Task
<1>. HIDE DEF m
<1>. QED
  BY <1>4, <1>5, Zenon DEF MaximumOrNull

\* The watch lists that dag_build and dag_reinit construct.
FirstLists(d)      == [i \in Task |-> MaximumOrNull(FirstWatchers(d, i))]
FirstLinks(d, old) == [j \in Task |->
    IF d[j] = {} THEN old[j]
    ELSE MaximumOrNull({l \in FirstWatchers(d, Minimum(d[j])) : l < j})]

\* The null pointer and the two markers are no tasks.
LEMMA NullIsNoTask == NULL \notin Task /\ INVALID \notin Task /\ DoNotRead \notin Task
BY BoundsAssumption DEF NULL, INVALID, DoNotRead, Task

\* The list that dag_build makes for task i begins with its largest first watcher ...
LEMMA ListHeads ==
    ASSUME NEW d \in [Task -> SUBSET Task], NEW i \in Task
    PROVE  /\ FirstLists(d)[i] \in Task \cup {NULL}
           /\ FirstLists(d)[i] \in Task =>
                 /\ FirstLists(d)[i] \in FirstWatchers(d, i)
                 /\ \A x \in FirstWatchers(d, i) : x <= FirstLists(d)[i]
<1>. DEFINE S == FirstWatchers(d, i)
<1>1. S \in SUBSET Task
  BY DEF FirstWatchers
<1>2. FirstLists(d)[i] = MaximumOrNull(S)
  BY DEF FirstLists
<1>3. CASE S = {}
  BY <1>2, <1>3, NullIsNoTask DEF MaximumOrNull
<1>4. CASE S # {}
  <2>1. MaximumOrNull(S) \in S /\ \A x \in S : x <= MaximumOrNull(S)
    BY <1>1, <1>4, MaximumOf, Zenon
  <2>. QED
    BY <1>1, <1>2, <2>1, Zenon
<1>. QED
  BY <1>3, <1>4

\* ... and each entry is linked to the next smaller one.
LEMMA ListLinks ==
    ASSUME NEW d \in [Task -> SUBSET Task], NEW old \in [Task -> Task \cup {NULL}],
           NEW j \in Task
    PROVE  /\ FirstLinks(d, old)[j] \in Task \cup {NULL}
           /\ d[j] # {} /\ FirstLinks(d, old)[j] \in Task =>
                 /\ FirstLinks(d, old)[j] \in FirstWatchers(d, Minimum(d[j]))
                 /\ FirstLinks(d, old)[j] < j
                 /\ \A x \in FirstWatchers(d, Minimum(d[j])) :
                       x < j => x <= FirstLinks(d, old)[j]
<1>. DEFINE S == {l \in FirstWatchers(d, Minimum(d[j])) : l < j}
<1>1. S \in SUBSET Task
  BY DEF FirstWatchers
<1>2. d[j] # {} => FirstLinks(d, old)[j] = MaximumOrNull(S)
  BY DEF FirstLinks
<1>3. CASE d[j] = {}
  BY <1>3 DEF FirstLinks
<1>4. CASE d[j] # {} /\ S = {}
  BY <1>2, <1>4, NullIsNoTask DEF MaximumOrNull
<1>5. CASE d[j] # {} /\ S # {}
  <2>1. MaximumOrNull(S) \in S /\ \A x \in S : x <= MaximumOrNull(S)
    BY <1>1, <1>5, MaximumOf, Zenon
  <2>. QED
    BY <1>1, <1>2, <1>5, <2>1, Zenon
<1>. QED
  BY <1>3, <1>4, <1>5

\* The lists of a new control period refer to each waiting task once.
LEMMA ListsAreDisjoint ==
    ASSUME NEW d \in [Task -> SUBSET Task], NEW old \in [Task -> Task \cup {NULL}]
    PROVE  /\ \A x, y \in Task : FirstLists(d)[x] \in Task
                 /\ FirstLists(d)[x] = FirstLists(d)[y] => x = y
           /\ \A x, y \in Task : d[x] # {} /\ d[y] # {} /\ FirstLinks(d, old)[x] \in Task
                 /\ FirstLinks(d, old)[x] = FirstLinks(d, old)[y] => x = y
           /\ \A x, y \in Task : d[y] # {} /\ FirstLists(d)[x] \in Task
                 => FirstLists(d)[x] # FirstLinks(d, old)[y]
<1>. DEFINE w == FirstLists(d)
            l == FirstLinks(d, old)
            First(x, i) == d[x] # {} /\ Minimum(d[x]) = i
<1>1. \A i \in Task : w[i] \in Task =>
          First(w[i], i) /\ \A x \in Task : First(x, i) => x <= w[i]
  BY ListHeads DEF FirstWatchers
<1>2. \A j \in Task : d[j] # {} /\ l[j] \in Task =>
          /\ First(l[j], Minimum(d[j])) /\ l[j] < j
          /\ \A x \in Task : First(x, Minimum(d[j])) /\ x < j => x <= l[j]
  BY ListLinks DEF FirstWatchers
<1>. HIDE DEF w, l
<1>3. \A x, y \in Task : w[x] \in Task /\ w[x] = w[y] => x = y
  BY <1>1
<1>4. ASSUME NEW x \in Task, NEW y \in Task, d[x] # {}, d[y] # {}, l[x] \in Task, l[x] = l[y]
      PROVE  x = y
  <2>1. First(l[x], Minimum(d[x])) /\ First(l[x], Minimum(d[y])) /\ l[x] < x /\ l[x] < y
    BY <1>2, <1>4
  <2>2. Minimum(d[x]) = Minimum(d[y])
    BY <2>1
  <2>3. ~(x < y) /\ ~(y < x)
    <3>1. x < y => x <= l[y]
      BY <1>2, <1>4, <2>2
    <3>2. y < x => y <= l[x]
      BY <1>2, <1>4, <2>2
    <3>. QED
      BY <1>4, <2>1, <3>1, <3>2 DEF Task
  <2>. QED
    BY <2>3 DEF Task
<1>5. ASSUME NEW x \in Task, NEW y \in Task, d[y] # {}, w[x] \in Task, w[x] = l[y]
      PROVE  FALSE
  <2>1. First(l[y], Minimum(d[y])) /\ l[y] < y /\ First(l[y], x)
    BY <1>1, <1>2, <1>5
  <2>2. y <= w[x]
    BY <1>1, <1>5, <2>1
  <2>. QED
    BY <1>5, <2>1, <2>2 DEF Task
<1>. QED
  BY <1>3, <1>4, <1>5 DEF w, l

\* What dag_build and dag_reinit establish.
LEMMA SetupFacts ==
    ASSUME TypeOK, GraphShape, GraphExists, chain # <<>>, dag_setup
    PROVE  /\ task_map' \in Seq(Instr) /\ Len(task_map') <= MaxActive /\ task_map' # <<>>
           /\ task_dep' \in [Task -> SUBSET Task]
           /\ task_status' \in [Task -> {DONE, AVAILABLE, WAITING}]
           /\ \A j \in Task : task_status'[j] = WAITING <=> task_dep'[j] # {}
           /\ task_watch' = FirstLists(task_dep')
           /\ wl_next' = FirstLinks(task_dep', wl_next)
           /\ GraphShape'
<1>. DEFINE m == IF dag_changed THEN chain ELSE task_map
            d == IF dag_changed THEN DepsOf(chain) ELSE task_dep
<1>1. task_map' = m /\ task_dep' = d /\ task_status' = InitialStatus(d, Len(m))
      /\ task_watch' = FirstLists(d) /\ wl_next' = FirstLinks(d, wl_next)
  BY Zenon DEF dag_setup, FirstLists, FirstLinks
<1>2. m \in Seq(Instr) /\ Len(m) <= MaxActive /\ m # <<>> /\ Len(m) \in Nat
  BY DEF TypeOK, GraphExists
<1>3. \A j \in Task : /\ DepsOf(chain)[j] \subseteq 0..(j - 1)
                      /\ j >= Len(chain) => DepsOf(chain)[j] = {}
                      /\ j < Len(chain) => \A i \in 0..(j - 1) :
                            Dependent(chain[i + 1], chain[j + 1]) => i \in DepsOf(chain)[j]
  BY DEF DepsOf, Task, TypeOK
<1>4. d \in [Task -> SUBSET Task]
  <2>1. DepsOf(chain) \in [Task -> SUBSET Task]
    BY <1>3, BoundsAssumption DEF DepsOf, Task
  <2>. QED
    BY <2>1 DEF TypeOK
<1>5. \A j \in Task : \A i \in d[j] : i < j /\ j < Len(m)
  <2>1. CASE dag_changed
    BY <1>2, <1>3, <2>1 DEF Task
  <2>2. CASE ~dag_changed
    BY <2>2 DEF GraphShape, num_active
  <2>. QED
    BY <2>1, <2>2
<1>6. \A j \in 0..(Len(m) - 1) : \A i \in 0..(j - 1) :
          Conflict(m[i + 1], m[j + 1]) => i \in d[j]
  <2>1. ASSUME dag_changed, NEW j \in 0..(Len(m) - 1), NEW i \in 0..(j - 1),
               Conflict(m[i + 1], m[j + 1])
        PROVE  i \in d[j]
    <3>1. m = chain /\ d = DepsOf(chain)
      BY <2>1
    <3>2. j \in Task /\ j < Len(chain)
      BY <1>2, <3>1, BoundsAssumption DEF Task
    <3>3. Dependent(chain[i + 1], chain[j + 1])
      BY <2>1, <3>1, ConflictIsDependent
    <3>. QED
      BY <1>3, <3>1, <3>2, <3>3
  <2>2. CASE ~dag_changed
    BY <2>2 DEF GraphShape, num_active, Active, TaskInstr
  <2>. QED
    BY <2>1, <2>2
<1>. HIDE DEF m, d
<1>7. GraphShape'
  BY <1>1, <1>5, <1>6 DEF GraphShape, num_active, Active, TaskInstr
<1>8. \A j \in Task : InitialStatus(d, Len(m))[j] = WAITING <=> d[j] # {}
  BY <1>2, <1>4, <1>5 DEF InitialStatus, WAITING, AVAILABLE, DONE, Task
<1>9. InitialStatus(d, Len(m)) \in [Task -> {DONE, AVAILABLE, WAITING}]
  BY DEF InitialStatus
<1>. QED
  BY <1>1, <1>2, <1>4, <1>7, <1>8, <1>9

-----------------------------------------------------------------------------
(***************************************************************************)
(* Every step preserves the invariant                                      *)
(***************************************************************************)

\* The two parts of a chain that is cut.
LEMMA CutFacts ==
    ASSUME NEW c \in Seq(Instr), NEW p \in 0..Len(c)
    PROVE  /\ SubSeq(c, 1, p) \in Seq(Instr) /\ Len(SubSeq(c, 1, p)) = p
           /\ SubSeq(c, p + 1, Len(c)) \in Seq(Instr)
           /\ Len(SubSeq(c, p + 1, Len(c))) = Len(c) - p
OBVIOUS

\* insert_new makes the chain one longer ...
LEMMA SpliceFacts ==
    ASSUME NEW c \in Seq(Instr), NEW ins \in Instr
    PROVE  Splice(c, ins) \in Seq(Instr) /\ Len(Splice(c, ins)) = Len(c) + 1
<1>. DEFINE p == Cardinality({i \in 1..Len(c) : c[i] <= ins})
            a == SubSeq(c, 1, p)
            b == SubSeq(c, p + 1, Len(c))
<1>1. Len(c) \in Nat
  OBVIOUS
<1>2. p \in 0..Len(c)
  <2>1. IsFiniteSet(1..Len(c)) /\ Cardinality(1..Len(c)) = Len(c)
    BY <1>1, FS_Interval
  <2>. QED
    BY <1>1, <2>1, FS_Subset, FS_CardinalityType
<1>3. Splice(c, ins) = a \o <<ins>> \o b
  BY DEF Splice
<1>. HIDE DEF p
<1>4. /\ a \in Seq(Instr) /\ b \in Seq(Instr) /\ Len(a) = p /\ Len(b) = Len(c) - p
  BY <1>2, CutFacts
<1>. HIDE DEF a, b
<1>5. a \o <<ins>> \in Seq(Instr) /\ Len(a \o <<ins>>) = p + 1
  BY <1>2, <1>4
<1>6. /\ (a \o <<ins>>) \o b \in Seq(Instr)
      /\ Len((a \o <<ins>>) \o b) = Len(a \o <<ins>>) + Len(b)
  BY <1>4, <1>5, ConcatProperties
<1>7. Len(a \o <<ins>>) + Len(b) = Len(c) + 1
  BY <1>1, <1>2, <1>4, <1>5
<1>. QED
  BY <1>3, <1>6, <1>7, Zenon

\* ... and an unlink makes it one shorter.
LEMMA UnlinkFacts ==
    ASSUME NEW c \in Seq(Instr), NEW p \in 1..Len(c)
    PROVE  Unlink(c, p) \in Seq(Instr) /\ Len(Unlink(c, p)) = Len(c) - 1
<1>. DEFINE a == SubSeq(c, 1, p - 1)
            b == SubSeq(c, p + 1, Len(c))
<1>1. p - 1 \in 0..Len(c) /\ p \in 0..Len(c) /\ Len(c) \in Nat
  OBVIOUS
<1>2. a \in Seq(Instr) /\ b \in Seq(Instr) /\ Len(a) = p - 1 /\ Len(b) = Len(c) - p
  BY <1>1, CutFacts
<1>3. Unlink(c, p) = a \o b
  BY DEF Unlink
<1>. HIDE DEF a, b
<1>4. a \o b \in Seq(Instr) /\ Len(a \o b) = Len(a) + Len(b)
  BY <1>2, ConcatProperties
<1>. QED
  BY <1>1, <1>2, <1>3, <1>4

\* The next dependency that a pass of dag_end_task looks at.
LEMMA RemainingFacts ==
    ASSUME TypeOK, ThreadShape, NEW t \in Thread, pc[t] \in Serving, Remaining(t) # {},
           NEW d, d = Minimum(Remaining(t))
    PROVE  /\ to_notify[t] \in Task /\ d \in task_dep[to_notify[t]] /\ d \in Task /\ d >= k[t]
           /\ \A x \in task_dep[to_notify[t]] : x < d => x < k[t]
<1>1. to_notify[t] \in Task /\ k[t] \in 0..MaxActive
  BY DEF ThreadShape, ShapeAt, TypeOK
<1>2. task_dep[to_notify[t]] \in SUBSET Task
  BY <1>1 DEF TypeOK
<1>3. Remaining(t) \in SUBSET Nat
  BY <1>2 DEF Remaining, Task
<1>4. d \in Remaining(t) /\ \A x \in Remaining(t) : d <= x
  BY <1>3, MinimumOf
<1>5. d \in task_dep[to_notify[t]] /\ d >= k[t]
  BY <1>4 DEF Remaining
<1>6. d \in Task
  BY <1>2, <1>5
<1>7. ASSUME NEW x \in task_dep[to_notify[t]], x < d PROVE x < k[t]
  <2>1. x \in Nat /\ d \in Nat /\ k[t] \in Nat
    BY <1>1, <1>2, <1>6 DEF Task
  <2>2. x \notin Remaining(t)
    BY <1>4, <1>7, <2>1
  <2>. QED
    BY <2>1, <2>2 DEF Remaining
<1>. QED
  BY <1>1, <1>5, <1>6, <1>7

\* A step of the scan moves the position within the active tasks, and leaves the
\* scan only for another turn or for the report.
LEMMA ScanOnFacts ==
    ASSUME TypeOK, NEW t \in Thread, pos[t] \in Active, NEW w \in BOOLEAN, ScanOn(t, w)
    PROVE  /\ pos' \in [Thread -> Task] /\ pos' = [pos EXCEPT ![t] = pos'[t]]
           /\ pos'[t] \in Active
           /\ waiting' \in [Thread -> BOOLEAN]
           /\ pc' \in [Thread -> Label] /\ pc'[t] \in {"scan", "get", "report"}
           /\ pc' = [pc EXCEPT ![t] = pc'[t]]
<1>. DEFINE i == IF pos[t] + 1 = num_active THEN 0 ELSE pos[t] + 1
<1>1. num_active \in Nat /\ num_active <= MaxActive /\ pos[t] \in 0..(num_active - 1)
  BY DEF TypeOK, num_active, Active
<1>2. i \in 0..(num_active - 1) /\ i \in Task
  BY <1>1, BoundsAssumption DEF Task
<1>3. /\ pos' = [pos EXCEPT ![t] = i] /\ waiting' = [waiting EXCEPT ![t] = w]
      /\ \E l \in {"scan", "get", "report"} : pc' = [pc EXCEPT ![t] = l]
  BY DEF ScanOn, Goto
<1>. HIDE DEF i
<1>. QED
  BY <1>2, <1>3 DEF TypeOK, Active, Label

\* Every step keeps the types ...
LEMMA TypeStep == IInv /\ Next => TypeOK'
<1>. SUFFICES ASSUME IInv, Next PROVE TypeOK'
  OBVIOUS
<1>. USE DEF chainVars, dagVars, flagVars, taskVars, scanVars, notifyVars
<1>0. TypeOK
  BY DEF IInv
<1>1. CASE StartCycle
  <2>1. /\ task_map' \in Seq(Instr) /\ Len(task_map') <= MaxActive
        /\ task_dep' \in [Task -> SUBSET Task]
        /\ task_status' \in [Task -> {DONE, AVAILABLE, WAITING}]
        /\ task_watch' = FirstLists(task_dep') /\ wl_next' = FirstLinks(task_dep', wl_next)
    BY <1>0, <1>1, SetupFacts DEF StartCycle, IInv
  <2>2. task_watch' \in [Task -> Task \cup {NULL, DoNotRead}]
    <3>1. \A i \in Task : FirstLists(task_dep')[i] \in Task \cup {NULL}
      BY <2>1, ListHeads
    <3>. QED
      BY <2>1, <3>1 DEF FirstLists
  <2>3. wl_next' \in [Task -> Task \cup {NULL}]
    <3>1. \A j \in Task : FirstLinks(task_dep', wl_next)[j] \in Task \cup {NULL}
      BY <1>0, <2>1, ListLinks DEF TypeOK
    <3>. QED
      BY <2>1, <3>1 DEF FirstLinks
  <2>4. cycles' \in 0..MaxCycles
    BY <1>0, <1>1, BoundsAssumption DEF StartCycle, TypeOK
  <2>. QED
    BY <1>0, <1>1, <2>1, <2>2, <2>3, <2>4
    DEF TypeOK, Goto, Label, StartCycle, dag_setup
<1>2. CASE Release
  <2>1. pc' \in [Thread -> Label]
    BY <1>0, <1>2 DEF TypeOK, Release, Goto, Label
  <2>2. next_task' \in [Thread -> Task \cup {INVALID}]
    BY <1>0, <1>2 DEF TypeOK, Release
  <2>3. parflag' \in {0, 1}
    BY <1>0, <1>2 DEF TypeOK, Release
  <2>. QED
    BY <1>0, <1>2, <2>1, <2>2, <2>3 DEF TypeOK, Release
<1>3. CASE Gather
  BY <1>0, <1>3 DEF TypeOK, Gather, Goto, Label
<1>4. CASE Mix
  BY <1>0, <1>4 DEF TypeOK, Mix, Goto, Label
<1>5. CASE ChainStep
  <2>1. \A ins \in Instr : Splice(chain, ins) \in Seq(Instr)
                           /\ Len(Splice(chain, ins)) = Len(chain) + 1
    BY <1>0, SpliceFacts DEF TypeOK
  <2>2. \A p \in 1..Len(chain) : Unlink(chain, p) \in Seq(Instr)
                                 /\ Len(Unlink(chain, p)) = Len(chain) - 1
    BY <1>0, UnlinkFacts DEF TypeOK
  <2>3. chain' \in Seq(Instr) /\ Len(chain') <= MaxActive
    BY <1>0, <1>5, <2>1, <2>2, BoundsAssumption
    DEF ChainStep, InsertInstance, DeactInstance, AsyncMark, AsyncSplice, TypeOK, IInv, InsertShape
  <2>. QED
    BY <1>0, <1>5, <2>3
    DEF ChainStep, InsertInstance, DeactInstance, AsyncMark, AsyncSplice, TypeOK
<1>6. ASSUME NEW t \in Thread, TurnoffWhileRunning(t) PROVE TypeOK'
  <2>1. chain' \in Seq(Instr) /\ Len(chain') <= MaxActive
    BY <1>0, <1>6, UnlinkFacts, BoundsAssumption DEF TurnoffWhileRunning, TypeOK
  <2>. QED
    BY <1>0, <1>6, <2>1 DEF TurnoffWhileRunning, TypeOK
<1>7. ASSUME NEW t \in Thread, Wake(t) PROVE TypeOK'
  BY <1>0, <1>7 DEF TypeOK, Wake, Goto, Label
<1>8. ASSUME NEW t \in Thread, Report(t) PROVE TypeOK'
  BY <1>0, <1>8 DEF TypeOK, Report, Goto, Label
<1>9. ASSUME NEW t \in Thread, TakeForwarded(t) PROVE TypeOK'
  BY <1>0, <1>9 DEF TypeOK, TakeForwarded, Goto, Label
<1>10. ASSUME NEW t \in Thread, CasTake(t) PROVE TypeOK'
  BY <1>0, <1>10 DEF TypeOK, CasTake, Goto, Label
<1>11. ASSUME NEW t \in Thread, Finish(t) PROVE TypeOK'
  BY <1>0, <1>11 DEF TypeOK, Finish, Goto, Label
<1>12. ASSUME NEW t \in Thread, EndTask(t) PROVE TypeOK'
  BY <1>0, <1>12 DEF TypeOK, EndTask, Goto, Label
<1>13. ASSUME NEW t \in Thread, CloseList(t) PROVE TypeOK'
  <2>1. to_notify' \in [Thread -> Task \cup {NULL}]
    BY <1>0, <1>13 DEF TypeOK, CloseList, Goto, Running, IInv
  <2>2. pc' \in [Thread -> Label] /\ next_task' \in [Thread -> Task \cup {INVALID}]
        /\ task_watch' \in [Task -> Task \cup {NULL, DoNotRead}]
    BY <1>0, <1>13 DEF TypeOK, CloseList, Goto, Label
  <2>. QED
    BY <1>0, <1>13, <2>1, <2>2 DEF TypeOK, CloseList
<1>14. ASSUME NEW t \in Thread, NextWatcher(t) PROVE TypeOK'
  <2>1. next' \in [Thread -> Task \cup {NULL}]
    BY <1>0, <1>14 DEF TypeOK, NextWatcher, Goto
  <2>2. pc' \in [Thread -> Label] /\ k' \in [Thread -> 0..MaxActive]
        /\ wait_current' \in [Thread -> BOOLEAN]
    BY <1>0, <1>14, BoundsAssumption DEF TypeOK, NextWatcher, Goto, Label
  <2>. QED
    BY <1>0, <1>14, <2>1, <2>2 DEF TypeOK, NextWatcher
<1>15. ASSUME NEW t \in Thread, SecondPass(t) PROVE TypeOK'
  <2>1. pc' \in [Thread -> Label] /\ k' \in [Thread -> 0..MaxActive]
    BY <1>0, <1>15, BoundsAssumption DEF TypeOK, SecondPass, Goto, Label
  <2>. QED
    BY <1>0, <1>15, <2>1 DEF TypeOK, SecondPass
<1>16. ASSUME NEW t \in Thread, MoveWatch(t) PROVE TypeOK'
  <2>1. to_notify[t] \in Task /\ k[t] \in Task
    BY <1>0, <1>16 DEF TypeOK, MoveWatch, Goto, ThreadShape, ShapeAt, IInv, Serving
  <2>2. /\ wl_next' \in [Task -> Task \cup {NULL}]
        /\ task_watch' \in [Task -> Task \cup {NULL, DoNotRead}]
    BY <1>0, <1>16, <2>1 DEF TypeOK, MoveWatch, Goto
  <2>3. pc' \in [Thread -> Label] /\ to_notify' \in [Thread -> Task \cup {NULL}]
    BY <1>0, <1>16 DEF TypeOK, MoveWatch, Goto, Label
  <2>. QED
    BY <1>0, <1>16, <2>1, <2>2, <2>3 DEF TypeOK, MoveWatch
<1>17. ASSUME NEW t \in Thread, MoveTooLate(t) PROVE TypeOK'
  <2>1. to_notify[t] \in Task /\ k[t] \in Task
    BY <1>0, <1>17 DEF TypeOK, MoveTooLate, Goto, ThreadShape, ShapeAt, IInv, Serving
  <2>2. wl_next' \in [Task -> Task \cup {NULL}] /\ k' \in [Thread -> 0..MaxActive]
    <3>1. k[t] + 1 \in 0..MaxActive
      BY <2>1, BoundsAssumption DEF Task
    <3>. QED
      BY <1>0, <1>17, <2>1, <3>1 DEF TypeOK, MoveTooLate
  <2>3. pc' \in [Thread -> Label]
    BY <1>0, <1>17 DEF TypeOK, MoveTooLate, Goto, Label
  <2>. QED
    BY <1>0, <1>17, <2>1, <2>2, <2>3 DEF TypeOK, MoveTooLate
<1>18. ASSUME NEW t \in Thread, Queue(t) PROVE TypeOK'
  <2>1. to_notify[t] \in Task
    BY <1>0, <1>18 DEF TypeOK, Queue, Goto, ThreadShape, ShapeAt, IInv, Serving
  <2>2. /\ next_task' \in [Thread -> Task \cup {INVALID}]
        /\ task_status' \in [Task -> {DONE, INPROGRESS, AVAILABLE, WAITING}]
    BY <1>0, <1>18, <2>1 DEF TypeOK, Queue, Goto
  <2>3. pc' \in [Thread -> Label] /\ to_notify' \in [Thread -> Task \cup {NULL}]
    BY <1>0, <1>18 DEF TypeOK, Queue, Goto, Label
  <2>. QED
    BY <1>0, <1>18, <2>1, <2>2, <2>3 DEF TypeOK, Queue
<1>19. ASSUME NEW t \in Thread, LookWaiting(t) PROVE TypeOK'
  <2>. DEFINE d == Minimum(Remaining(t))
  <2>1. d \in Task
    BY <1>0, <1>19, RemainingFacts DEF LookWaiting, IInv, Serving
  <2>. HIDE DEF d
  <2>2. \/ k' = [k EXCEPT ![t] = d] /\ pc' = [pc EXCEPT ![t] = "move1"]
        \/ k' = [k EXCEPT ![t] = d + 1] /\ pc' = [pc EXCEPT ![t] = "pass1"]
    BY <1>19 DEF LookWaiting, Goto, d
  <2>3. k' \in [Thread -> 0..MaxActive] /\ pc' \in [Thread -> Label]
    <3>1. d \in 0..MaxActive /\ d + 1 \in 0..MaxActive
      BY <2>1, BoundsAssumption DEF Task
    <3>. QED
      BY <1>0, <2>2, <3>1 DEF TypeOK, Label
  <2>4. wait_current' \in [Thread -> BOOLEAN]
    BY <1>0, <1>19 DEF TypeOK, LookWaiting
  <2>. QED
    BY <1>0, <1>19, <2>3, <2>4 DEF TypeOK, LookWaiting
<1>20. ASSUME NEW t \in Thread, LookUnfinished(t) PROVE TypeOK'
  <2>. DEFINE d == Minimum(Remaining(t))
  <2>1. d \in Task
    BY <1>0, <1>20, RemainingFacts DEF LookUnfinished, IInv, Serving
  <2>. HIDE DEF d
  <2>2. \/ k' = [k EXCEPT ![t] = d] /\ pc' = [pc EXCEPT ![t] = "move2"]
        \/ k' = [k EXCEPT ![t] = d + 1] /\ pc' = pc
    BY <1>20 DEF LookUnfinished, Goto, d
  <2>3. k' \in [Thread -> 0..MaxActive] /\ pc' \in [Thread -> Label]
    <3>1. d \in 0..MaxActive /\ d + 1 \in 0..MaxActive
      BY <2>1, BoundsAssumption DEF Task
    <3>. QED
      BY <1>0, <2>2, <3>1 DEF TypeOK, Label
  <2>. QED
    BY <1>0, <1>20, <2>3 DEF TypeOK, LookUnfinished
<1>21. ASSUME NEW t \in Thread, BeginScan(t) PROVE TypeOK'
  <2>1. task_map # <<>>
    BY <1>21 DEF BeginScan, IInv, GraphExists
  <2>2. ScanStart(t) \in Task
    <3>1. ScanStart(t) \in Active
      BY <1>0, <2>1, ScanStartInRange DEF TypeOK
    <3>2. num_active \in Nat /\ num_active <= MaxActive
      BY <1>0 DEF TypeOK, num_active
    <3>. QED
      BY <3>1, <3>2, BoundsAssumption DEF Active, Task
  <2>3. pos' \in [Thread -> Task] /\ waiting' \in [Thread -> BOOLEAN] /\ pc' \in [Thread -> Label]
    BY <1>0, <1>21, <2>2 DEF TypeOK, BeginScan, Goto, Label
  <2>. QED
    BY <1>0, <1>21, <2>3 DEF TypeOK, BeginScan
<1>22. ASSUME NEW t \in Thread, Scan(t) PROVE TypeOK'
  <2>1. pos[t] \in Active
    BY <1>22 DEF Scan, IInv, ThreadShape, ShapeAt
  <2>2. pos' \in [Thread -> Task] /\ waiting' \in [Thread -> BOOLEAN] /\ pc' \in [Thread -> Label]
    <3>1. CASE task_status[pos[t]] = AVAILABLE
      BY <1>0, <1>22, <3>1 DEF TypeOK, Scan, Goto, Label
    <3>2. CASE task_status[pos[t]] # AVAILABLE
      <4>. DEFINE w == waiting[t] \/ task_status[pos[t]] = WAITING
      <4>1. w \in BOOLEAN /\ ScanOn(t, w)
        BY <1>22, <3>2 DEF Scan
      <4>. QED
        BY <1>0, <2>1, <4>1, ScanOnFacts
    <3>. QED
      BY <3>1, <3>2
  <2>. QED
    BY <1>0, <1>22, <2>2 DEF TypeOK, Scan
<1>23. ASSUME NEW t \in Thread, CasFail(t) PROVE TypeOK'
  <2>1. pos[t] \in Active /\ waiting[t] \in BOOLEAN /\ ScanOn(t, waiting[t])
    BY <1>0, <1>23 DEF CasFail, IInv, ThreadShape, ShapeAt, TypeOK
  <2>2. pos' \in [Thread -> Task] /\ waiting' \in [Thread -> BOOLEAN] /\ pc' \in [Thread -> Label]
    BY <1>0, <2>1, ScanOnFacts
  <2>. QED
    BY <1>0, <1>23, <2>2 DEF TypeOK, CasFail
<1>. QED
  BY <1>1, <1>2, <1>3, <1>4, <1>5, <1>6, <1>7, <1>8, <1>9, <1>10, <1>11, <1>12, <1>13,
     <1>14, <1>15, <1>16, <1>17, <1>18, <1>19, <1>20, <1>21, <1>22, <1>23
  DEF Next, MasterStep, ThreadStep, NodePerf

\* The local variables of a thread other than t.
OthersKeep(t) ==
    \A u \in Thread \ {t} :
        /\ pc'[u] = pc[u] /\ which_task'[u] = which_task[u] /\ next_task'[u] = next_task[u]
        /\ pos'[u] = pos[u] /\ to_notify'[u] = to_notify[u] /\ next'[u] = next[u]
        /\ k'[u] = k[u] /\ wait_current'[u] = wait_current[u]

\* What the steps of node_perf have in common.
LEMMA NodePerfFrame ==
    ASSUME TypeOK, ThreadShape, NEW t \in Thread, NodePerf(t)
    PROVE  /\ UNCHANGED <<chainVars, task_map, task_dep, flagVars, cycles>>
           /\ pc[t] \notin {"idle", "release", "mix", "report"}
           /\ pc'[t] \notin {"idle", "release", "mix"}
           /\ OthersKeep(t)
<1>. USE DEF chainVars, dagVars, flagVars, taskVars, scanVars, notifyVars
<1>. DEFINE Frame == /\ UNCHANGED <<chainVars, task_map, task_dep, flagVars, cycles>>
                     /\ pc[t] \notin {"idle", "release", "mix", "report"}
                     /\ pc'[t] \notin {"idle", "release", "mix"}
                     /\ OthersKeep(t)
<1>1. CASE TakeForwarded(t)
  BY <1>1 DEF TypeOK, TakeForwarded, Goto, OthersKeep
<1>2. CASE BeginScan(t)
  BY <1>2 DEF TypeOK, BeginScan, Goto, OthersKeep
<1>3. CASE CasTake(t)
  BY <1>3 DEF TypeOK, CasTake, Goto, OthersKeep
<1>4. CASE Finish(t)
  BY <1>4 DEF TypeOK, Finish, Goto, OthersKeep
<1>5. CASE CloseList(t)
  BY <1>5 DEF TypeOK, CloseList, Goto, OthersKeep
<1>6. CASE NextWatcher(t)
  BY <1>6 DEF TypeOK, NextWatcher, Goto, OthersKeep
<1>7. CASE EndTask(t)
  BY <1>7 DEF TypeOK, EndTask, Goto, OthersKeep
<1>8. CASE LookWaiting(t)
  BY <1>8 DEF TypeOK, LookWaiting, Goto, OthersKeep
<1>9. CASE SecondPass(t)
  BY <1>9 DEF TypeOK, SecondPass, Goto, OthersKeep
<1>10. CASE LookUnfinished(t)
  BY <1>10 DEF TypeOK, LookUnfinished, Goto, OthersKeep
<1>11. CASE MoveWatch(t)
  BY <1>11 DEF TypeOK, MoveWatch, Goto, OthersKeep
<1>12. CASE MoveTooLate(t)
  BY <1>12 DEF TypeOK, MoveTooLate, Goto, OthersKeep
<1>13. CASE Queue(t)
  BY <1>13 DEF TypeOK, Queue, Goto, OthersKeep
<1>14. CASE Scan(t)
  <2>1. pos[t] \in Active
    BY <1>14 DEF Scan, ThreadShape, ShapeAt
  <2>2. \/ pc' = [pc EXCEPT ![t] = "cas"] /\ pos' = pos
        \/ \E w \in BOOLEAN : ScanOn(t, w)
    BY <1>14 DEF Scan, Goto
  <2>3. /\ \A u \in Thread \ {t} : pc'[u] = pc[u] /\ pos'[u] = pos[u]
        /\ pc'[t] \in {"cas", "scan", "get", "report"}
    BY <2>1, <2>2, ScanOnFacts DEF TypeOK
  <2>. QED
    BY <1>14, <2>3 DEF Scan, OthersKeep
<1>15. CASE CasFail(t)
  <2>1. pos[t] \in Active /\ ScanOn(t, waiting[t]) /\ waiting[t] \in BOOLEAN
    BY <1>15 DEF CasFail, ThreadShape, ShapeAt, TypeOK
  <2>2. /\ \A u \in Thread \ {t} : pc'[u] = pc[u] /\ pos'[u] = pos[u]
        /\ pc'[t] \in {"scan", "get", "report"}
    BY <2>1, ScanOnFacts DEF TypeOK
  <2>. QED
    BY <1>15, <2>2 DEF CasFail, OthersKeep
<1>. HIDE DEF Frame
<1>. QED
  BY <1>1, <1>2, <1>3, <1>4, <1>5, <1>6, <1>7, <1>8, <1>9, <1>10, <1>11, <1>12, <1>13, <1>14, <1>15
  DEF NodePerf

\* ... the flags of the barrier ...
LEMMA HandshakeStep == IInv /\ Next => Handshake'
<1>. SUFFICES ASSUME IInv, Next PROVE Handshake'
  OBVIOUS
<1>. USE DEF chainVars, dagVars, flagVars, taskVars, scanVars, notifyVars
<1>0. /\ TypeOK /\ Handshake /\ ThreadShape /\ Worker \subseteq Thread /\ 0 \in Thread
      /\ 0 \notin Worker /\ Thread = Worker \cup {0}
  BY ThreadsAssumption DEF IInv, Thread, Worker
<1>1. CASE StartCycle
  BY <1>0, <1>1 DEF StartCycle, Goto, Handshake, WorkersParked, TypeOK
<1>2. CASE Release
  BY <1>0, <1>2 DEF Release, Goto, Handshake, WorkersParked, TypeOK
<1>3. CASE Gather
  BY <1>0, <1>3 DEF Gather, Goto, Handshake, WorkersParked, TypeOK
<1>4. CASE Mix
  BY <1>0, <1>4 DEF Mix, Goto, Handshake, WorkersParked, TypeOK
<1>5. CASE ChainStep
  BY <1>0, <1>5 DEF ChainStep, InsertInstance, DeactInstance, AsyncMark, AsyncSplice,
                    Handshake, WorkersParked
<1>6. ASSUME NEW t \in Thread, TurnoffWhileRunning(t) PROVE Handshake'
  BY <1>0, <1>6 DEF TurnoffWhileRunning, Handshake, WorkersParked
<1>7. ASSUME NEW t \in Thread, Wake(t) PROVE Handshake'
  BY <1>0, <1>7 DEF Wake, Goto, Handshake, WorkersParked, TypeOK
<1>8. ASSUME NEW t \in Thread, Report(t) PROVE Handshake'
  BY <1>0, <1>8 DEF Report, Goto, Handshake, WorkersParked, TypeOK
<1>9. ASSUME NEW t \in Thread, NodePerf(t) PROVE Handshake'
  <2>1. /\ UNCHANGED flagVars
        /\ pc[t] \notin {"idle", "release", "mix"} /\ pc'[t] \notin {"idle", "release", "mix"}
        /\ \A u \in Thread \ {t} : pc'[u] = pc[u]
    BY <1>0, <1>9, NodePerfFrame DEF OthersKeep
  <2>. QED
    BY <1>0, <2>1 DEF Handshake, WorkersParked
<1>. QED
  BY <1>1, <1>2, <1>3, <1>4, <1>5, <1>6, <1>7, <1>8, <1>9 DEF Next, MasterStep, ThreadStep

\* ... the program points of the insertion thread ...
LEMMA InsertShapeStep == IInv /\ Next => InsertShape'
<1>. SUFFICES ASSUME IInv, Next PROVE InsertShape'
  OBVIOUS
<1>0. TypeOK /\ InsertShape /\ ThreadShape
  BY DEF IInv
<1>1. CASE MasterStep
  BY <1>0, <1>1 DEF MasterStep, StartCycle, Release, Gather, Mix, InsertShape, chainVars
<1>2. CASE ChainStep
  BY <1>0, <1>2, SwitchAssumption
  DEF ChainStep, InsertInstance, DeactInstance, AsyncMark, AsyncSplice, InsertShape, TypeOK
<1>3. ASSUME NEW t \in Thread, TurnoffWhileRunning(t) PROVE InsertShape'
  BY <1>0, <1>3, UnlinkFacts, BoundsAssumption DEF TurnoffWhileRunning, InsertShape, TypeOK
<1>4. ASSUME NEW t \in Thread, ThreadStep(t) PROVE InsertShape'
  BY <1>0, <1>4, NodePerfFrame DEF ThreadStep, Wake, Report, InsertShape, chainVars
<1>. QED
  BY <1>1, <1>2, <1>3, <1>4 DEF Next

\* ... the existence of a graph while threads perform ...
LEMMA GraphExistsStep == IInv /\ Next => GraphExists'
<1>. SUFFICES ASSUME IInv, Next, task_map' = <<>>
              PROVE  /\ dag_changed' /\ \A t \in Thread : pc'[t] = "idle"
                     /\ \A t \in Worker : seen'[t] = parflag'
  BY DEF GraphExists
<1>. USE DEF chainVars, dagVars, flagVars
<1>0. TypeOK /\ GraphExists /\ ThreadShape /\ 0 \in Thread
  BY ThreadsAssumption DEF IInv, Thread
<1>1. ~StartCycle
  BY <1>0, SetupFacts DEF StartCycle, IInv
<1>2. task_map = <<>>
  BY <1>0, <1>1, NodePerfFrame
  DEF Next, MasterStep, Release, Gather, Mix, ChainStep, InsertInstance, DeactInstance,
      AsyncMark, AsyncSplice, ThreadStep, Wake, Report, TurnoffWhileRunning
<1>3. /\ dag_changed /\ \A t \in Thread : pc[t] = "idle"
      /\ \A t \in Worker : seen[t] = parflag
  BY <1>0, <1>2 DEF GraphExists
<1>4. ~(Release \/ Gather \/ Mix)
  BY <1>0, <1>3 DEF Release, Gather, Mix
<1>5. \A t \in Thread : ~(ThreadStep(t) \/ TurnoffWhileRunning(t))
  BY <1>0, <1>3, NodePerfFrame DEF ThreadStep, Wake, Report, TurnoffWhileRunning
<1>6. ChainStep
  BY <1>1, <1>4, <1>5 DEF Next, MasterStep
<1>. QED
  BY <1>3, <1>6 DEF ChainStep, InsertInstance, DeactInstance, AsyncMark, AsyncSplice

\* ... and its shape.
LEMMA GraphShapeStep == IInv /\ Next => GraphShape'
<1>. SUFFICES ASSUME IInv, Next PROVE GraphShape'
  OBVIOUS
<1>. USE DEF dagVars
<1>1. CASE StartCycle
  BY <1>1, SetupFacts DEF StartCycle, IInv
<1>2. CASE ~StartCycle
  <2>1. task_map' = task_map /\ task_dep' = task_dep
    BY <1>2, NodePerfFrame
    DEF IInv, Next, MasterStep, Release, Gather, Mix, ChainStep, InsertInstance, DeactInstance,
        AsyncMark, AsyncSplice, ThreadStep, Wake, Report, TurnoffWhileRunning
  <2>. QED
    BY <2>1 DEF IInv, GraphShape, num_active, Active, TaskInstr
<1>. QED
  BY <1>1, <1>2

\* The steps other than those of node_perf keep or reset the graph, and leave
\* no thread inside dag_get_task or dag_end_task that was not there before.
LEMMA ThreadShapeStep == IInv /\ Next => ThreadShape'
<1>. SUFFICES ASSUME IInv, Next PROVE ThreadShape'
  OBVIOUS
<1>. USE DEF chainVars, dagVars, flagVars, taskVars, scanVars, notifyVars
<1>0. /\ TypeOK /\ Handshake /\ ThreadShape /\ Worker \subseteq Thread /\ 0 \in Thread
      /\ Thread = Worker \cup {0}
  BY ThreadsAssumption DEF IInv, Thread, Worker
<1>1. CASE StartCycle
  BY <1>0, <1>1 DEF StartCycle, Goto, Handshake, WorkersParked, ThreadShape, ShapeAt, TypeOK, Serving
<1>2. CASE Release
  BY <1>0, <1>2
  DEF Release, Goto, ThreadShape, ShapeAt, TypeOK, Serving, Active, num_active
<1>3. CASE Gather \/ Mix
  BY <1>0, <1>3
  DEF Gather, Mix, Goto, ThreadShape, ShapeAt, TypeOK, Serving, Active, num_active
<1>4. CASE ChainStep
  BY <1>0, <1>4
  DEF ChainStep, InsertInstance, DeactInstance, AsyncMark, AsyncSplice,
      ThreadShape, ShapeAt, Active, num_active
<1>5. ASSUME NEW t \in Thread, TurnoffWhileRunning(t) PROVE ThreadShape'
  BY <1>0, <1>5 DEF TurnoffWhileRunning, ThreadShape, ShapeAt, Active, num_active
<1>6. ASSUME NEW t \in Thread, Wake(t) \/ Report(t) PROVE ThreadShape'
  BY <1>0, <1>6
  DEF Wake, Report, Goto, ThreadShape, ShapeAt, TypeOK, Serving, Active, num_active
<1>7. ASSUME NEW t \in Thread, NodePerf(t) PROVE ThreadShape'
  <2>1. task_map' = task_map /\ OthersKeep(t)
    BY <1>0, <1>7, NodePerfFrame
  <2>2. Active' = Active
    BY <2>1 DEF Active, num_active
  <2>3. \A u \in Thread \ {t} : ShapeAt(u)'
    BY <1>0, <2>1, <2>2 DEF OthersKeep, ThreadShape, ShapeAt
  <2>4. SUFFICES ShapeAt(t)'
    BY <2>3 DEF ThreadShape
  <2>5. ShapeAt(t)
    BY <1>0 DEF ThreadShape
  <2>6. CASE TakeForwarded(t) \/ CasTake(t) \/ Finish(t) \/ CloseList(t) \/ EndTask(t)
    BY <1>0, <2>6 DEF TakeForwarded, CasTake, Finish, CloseList, EndTask, Goto, TypeOK, ShapeAt, Serving
  <2>7. CASE BeginScan(t)
    <3>1. ScanStart(t) \in Active
      BY <1>0, <2>7, ScanStartInRange DEF BeginScan, IInv, GraphExists, TypeOK
    <3>. QED
      BY <1>0, <2>2, <2>7, <3>1 DEF BeginScan, Goto, TypeOK, ShapeAt, Serving
  <2>8. CASE Scan(t)
    <3>1. pos[t] \in Active /\ next_task' = next_task /\ next_task[t] = INVALID
      BY <2>5, <2>8 DEF Scan, ShapeAt
    <3>2. \/ pc' = [pc EXCEPT ![t] = "cas"] /\ pos' = pos
          \/ \E w \in BOOLEAN : ScanOn(t, w)
      BY <2>8 DEF Scan, Goto
    <3>3. pos'[t] \in Active /\ pc'[t] \in {"cas", "scan", "get", "report"}
      BY <1>0, <3>1, <3>2, ScanOnFacts DEF TypeOK
    <3>. QED
      BY <2>2, <3>1, <3>3 DEF ShapeAt, Serving
  <2>9. CASE CasFail(t)
    <3>1. /\ pos[t] \in Active /\ next_task' = next_task /\ next_task[t] = INVALID
          /\ ScanOn(t, waiting[t]) /\ waiting[t] \in BOOLEAN
      BY <1>0, <2>5, <2>9 DEF CasFail, ShapeAt, TypeOK
    <3>2. pos'[t] \in Active /\ pc'[t] \in {"scan", "get", "report"}
      BY <1>0, <3>1, ScanOnFacts
    <3>. QED
      BY <2>2, <3>1, <3>2 DEF ShapeAt, Serving
  <2>10. CASE NextWatcher(t)
    BY <1>0, <2>10 DEF NextWatcher, Goto, TypeOK, ShapeAt, Serving
  <2>11. CASE LookWaiting(t)
    <3>1. Minimum(Remaining(t)) \in Task /\ to_notify[t] \in Task
      BY <1>0, <2>11, RemainingFacts DEF LookWaiting, Serving
    <3>. QED
      BY <1>0, <2>11, <3>1 DEF LookWaiting, Goto, TypeOK, ShapeAt
  <2>12. CASE LookUnfinished(t)
    <3>1. Minimum(Remaining(t)) \in Task /\ to_notify[t] \in Task
      BY <1>0, <2>12, RemainingFacts DEF LookUnfinished, Serving
    <3>. QED
      BY <1>0, <2>12, <3>1 DEF LookUnfinished, Goto, TypeOK, ShapeAt
  <2>13. CASE SecondPass(t) \/ MoveWatch(t) \/ MoveTooLate(t) \/ Queue(t)
    BY <1>0, <2>5, <2>13
    DEF SecondPass, MoveWatch, MoveTooLate, Queue, Goto, TypeOK, ShapeAt, Serving
  <2>. QED
    BY <1>7, <2>6, <2>7, <2>8, <2>9, <2>10, <2>11, <2>12, <2>13 DEF NodePerf
<1>. QED
  BY <1>1, <1>2, <1>3, <1>4, <1>5, <1>6, <1>7 DEF Next, MasterStep, ThreadStep

-----------------------------------------------------------------------------
(***************************************************************************)
(* References move, they are never copied.  Each lemma is one of the moves *)
(* of dag_end_task and dag_get_task on five arbitrary families of          *)
(* references.                                                             *)
(***************************************************************************)

Ptr == Task \cup {NULL, DoNotRead}

\* CloseList: the list of i becomes the list that thread t walks.
LEMMA MoveHeadToCur ==
    ASSUME NEW w \in [Task -> Ptr], NEW l \in [Task -> Ptr], NEW c \in [Thread -> Ptr],
           NEW n \in [Thread -> Ptr], NEW f \in [Thread -> Ptr], Once(w, l, c, n, f),
           NEW t \in Thread, NEW i \in Task, c[t] \notin Task
    PROVE  /\ Once([w EXCEPT ![i] = DoNotRead], l, [c EXCEPT ![t] = w[i]], n, f)
           /\ \A x \in Task :
                 Refers([w EXCEPT ![i] = DoNotRead], l, [c EXCEPT ![t] = w[i]], n, f, x)
                   => Refers(w, l, c, n, f, x)
<1>. DEFINE W == [w EXCEPT ![i] = DoNotRead]
            C == [c EXCEPT ![t] = w[i]]
<1>1. Inj(W) /\ Inj(C)
  BY NullIsNoTask DEF Once, Inj, Apart, Ptr
<1>2. Apart(W, l) /\ Apart(W, C) /\ Apart(W, n) /\ Apart(W, f)
  BY NullIsNoTask DEF Once, Inj, Apart, Ptr
<1>3. Apart(l, C) /\ Apart(C, n) /\ Apart(C, f)
  BY NullIsNoTask DEF Once, Inj, Apart, Ptr
<1>4. \A x \in Task : Refers(W, l, C, n, f, x) => Refers(w, l, c, n, f, x)
  BY NullIsNoTask DEF Refers
<1>. QED
  BY <1>1, <1>2, <1>3, <1>4 DEF Once

\* NextWatcher: the link of the current entry a becomes the next entry of t.
LEMMA MoveLinkToNxt ==
    ASSUME NEW w \in [Task -> Ptr], NEW l \in [Task -> Ptr], NEW c \in [Thread -> Ptr],
           NEW n \in [Thread -> Ptr], NEW f \in [Thread -> Ptr], Once(w, l, c, n, f),
           NEW t \in Thread, NEW a \in Task, n[t] \notin Task
    PROVE  /\ Once(w, [l EXCEPT ![a] = NULL], c, [n EXCEPT ![t] = l[a]], f)
           /\ \A x \in Task :
                 Refers(w, [l EXCEPT ![a] = NULL], c, [n EXCEPT ![t] = l[a]], f, x)
                   => Refers(w, l, c, n, f, x)
<1>. DEFINE L == [l EXCEPT ![a] = NULL]
            N == [n EXCEPT ![t] = l[a]]
<1>1. Inj(L) /\ Inj(N)
  BY NullIsNoTask DEF Once, Inj, Apart, Ptr
<1>2. Apart(w, L) /\ Apart(L, c) /\ Apart(L, N) /\ Apart(L, f)
  BY NullIsNoTask DEF Once, Inj, Apart, Ptr
<1>3. Apart(w, N) /\ Apart(c, N) /\ Apart(N, f)
  BY NullIsNoTask DEF Once, Inj, Apart, Ptr
<1>4. \A x \in Task : Refers(w, L, c, N, f, x) => Refers(w, l, c, n, f, x)
  BY NullIsNoTask DEF Refers
<1>. QED
  BY <1>1, <1>2, <1>3, <1>4 DEF Once

\* The current entry of t is dropped and the next one becomes current.
LEMMA DropCur ==
    ASSUME NEW w \in [Task -> Ptr], NEW l \in [Task -> Ptr], NEW c \in [Thread -> Ptr],
           NEW n \in [Thread -> Ptr], NEW f \in [Thread -> Ptr], Once(w, l, c, n, f),
           NEW t \in Thread
    PROVE  /\ Once(w, l, [c EXCEPT ![t] = n[t]], [n EXCEPT ![t] = NULL], f)
           /\ \A x \in Task :
                 Refers(w, l, [c EXCEPT ![t] = n[t]], [n EXCEPT ![t] = NULL], f, x)
                   => Refers(w, l, c, n, f, x)
           /\ c[t] \in Task =>
                 ~Refers(w, l, [c EXCEPT ![t] = n[t]], [n EXCEPT ![t] = NULL], f, c[t])
<1>. DEFINE C == [c EXCEPT ![t] = n[t]]
            N == [n EXCEPT ![t] = NULL]
<1>1. Inj(C) /\ Inj(N)
  BY NullIsNoTask DEF Once, Inj, Apart, Ptr
<1>2. Apart(w, C) /\ Apart(l, C) /\ Apart(C, N) /\ Apart(C, f)
  BY NullIsNoTask DEF Once, Inj, Apart, Ptr
<1>3. Apart(w, N) /\ Apart(l, N) /\ Apart(N, f)
  BY NullIsNoTask DEF Once, Inj, Apart, Ptr
<1>4. \A x \in Task : Refers(w, l, C, N, f, x) => Refers(w, l, c, n, f, x)
  BY NullIsNoTask DEF Refers
<1>5. c[t] \in Task => ~Refers(w, l, C, N, f, c[t])
  BY NullIsNoTask DEF Refers, Once, Inj, Apart, Ptr
<1>. QED
  BY <1>1, <1>2, <1>3, <1>4, <1>5 DEF Once

\* MoveWatch: a task a that nothing refers to is pushed on the list of i.
LEMMA PushHead ==
    ASSUME NEW w \in [Task -> Ptr], NEW l \in [Task -> Ptr], NEW c \in [Thread -> Ptr],
           NEW n \in [Thread -> Ptr], NEW f \in [Thread -> Ptr], Once(w, l, c, n, f),
           NEW t \in Thread, NEW a \in Task, NEW i \in Task,
           ~Refers(w, l, c, n, f, a), l[a] \notin Task
    PROVE  /\ Once([w EXCEPT ![i] = a], [l EXCEPT ![a] = w[i]], c, n, f)
           /\ \A x \in Task :
                 Refers([w EXCEPT ![i] = a], [l EXCEPT ![a] = w[i]], c, n, f, x)
                   => Refers(w, l, c, n, f, x) \/ x = a
<1>. DEFINE W == [w EXCEPT ![i] = a]
            L == [l EXCEPT ![a] = w[i]]
<1>0. /\ \A x \in Task : w[x] # a /\ l[x] # a
      /\ \A u \in Thread : c[u] # a /\ n[u] # a /\ f[u] # a
  BY DEF Refers
<1>1. Inj(W) /\ Inj(L)
  BY <1>0, NullIsNoTask DEF Once, Inj, Apart, Ptr
<1>2. Apart(W, L)
  BY <1>0, NullIsNoTask DEF Once, Inj, Apart, Ptr
<1>3. Apart(W, c) /\ Apart(W, n) /\ Apart(W, f)
  BY <1>0, NullIsNoTask DEF Once, Inj, Apart, Ptr
<1>4. Apart(L, c) /\ Apart(L, n) /\ Apart(L, f)
  BY <1>0, NullIsNoTask DEF Once, Inj, Apart, Ptr
<1>5. \A x \in Task : Refers(W, L, c, n, f, x) => Refers(w, l, c, n, f, x) \/ x = a
  BY NullIsNoTask DEF Refers
<1>. QED
  BY <1>1, <1>2, <1>3, <1>4, <1>5 DEF Once

\* Queue: a task that nothing refers to is forwarded to thread t.
LEMMA Forward ==
    ASSUME NEW w \in [Task -> Ptr], NEW l \in [Task -> Ptr], NEW c \in [Thread -> Ptr],
           NEW n \in [Thread -> Ptr], NEW f \in [Thread -> Ptr], Once(w, l, c, n, f),
           NEW t \in Thread, NEW a \in Task, ~Refers(w, l, c, n, f, a), f[t] \notin Task,
           NEW F, F = [f EXCEPT ![t] = a]
    PROVE  /\ Once(w, l, c, n, F)
           /\ \A x \in Task : Refers(w, l, c, n, F, x) => Refers(w, l, c, n, f, x) \/ x = a
<1>0. /\ \A x \in Task : w[x] # a /\ l[x] # a
      /\ \A u \in Thread : c[u] # a /\ n[u] # a /\ f[u] # a
  BY DEF Refers
<1>1. Inj(F) /\ Apart(w, F) /\ Apart(l, F) /\ Apart(c, F) /\ Apart(n, F)
  BY <1>0, NullIsNoTask DEF Once, Inj, Apart, Ptr
<1>2. \A x \in Task : Refers(w, l, c, n, F, x) => Refers(w, l, c, n, f, x) \/ x = a
  BY NullIsNoTask DEF Refers
<1>. QED
  BY <1>1, <1>2 DEF Once

\* TakeForwarded: thread t starts the task that was forwarded to it.
LEMMA TakeForward ==
    ASSUME NEW w \in [Task -> Ptr], NEW l \in [Task -> Ptr], NEW c \in [Thread -> Ptr],
           NEW n \in [Thread -> Ptr], NEW f \in [Thread -> Ptr], Once(w, l, c, n, f),
           NEW t \in Thread, NEW F, F = [f EXCEPT ![t] = NULL]
    PROVE  /\ Once(w, l, c, n, F)
           /\ \A x \in Task : Refers(w, l, c, n, F, x) => Refers(w, l, c, n, f, x)
           /\ f[t] \in Task => ~Refers(w, l, c, n, F, f[t])
<1>1. Inj(F) /\ Apart(w, F) /\ Apart(l, F) /\ Apart(c, F) /\ Apart(n, F)
  BY NullIsNoTask DEF Once, Inj, Apart, Ptr
<1>2. \A x \in Task : Refers(w, l, c, n, F, x) => Refers(w, l, c, n, f, x)
  BY NullIsNoTask DEF Refers
<1>3. f[t] \in Task => ~Refers(w, l, c, n, F, f[t])
  BY NullIsNoTask DEF Refers, Once, Inj, Apart, Ptr
<1>. QED
  BY <1>1, <1>2, <1>3 DEF Once

-----------------------------------------------------------------------------
(***************************************************************************)
(* OnePointer and PointedWaits                                             *)
(***************************************************************************)

\* The families of references have pointers for values.
LEMMA RefTypes ==
    ASSUME TypeOK
    PROVE  /\ task_watch \in [Task -> Ptr] /\ LinkOf \in [Task -> Ptr]
           /\ CurOf \in [Thread -> Ptr] /\ NxtOf \in [Thread -> Ptr]
           /\ FwdOf \in [Thread -> Ptr] /\ SrvOf \in [Thread -> Ptr]
<1>1. task_watch \in [Task -> Ptr] /\ LinkOf \in [Task -> Ptr]
  BY DEF TypeOK, LinkOf, Ptr
<1>2. CurOf \in [Thread -> Ptr] /\ NxtOf \in [Thread -> Ptr] /\ SrvOf \in [Thread -> Ptr]
  BY DEF TypeOK, CurOf, NxtOf, SrvOf, Ptr
<1>3. FwdOf \in [Thread -> Ptr]
  BY DEF TypeOK, FwdOf, Ptr
<1>. QED
  BY <1>1, <1>2, <1>3

\* A step of thread t changes only the references that t holds.
LEMMA LocalRefs ==
    ASSUME NEW t \in Thread, OthersKeep(t)
    PROVE  /\ CurOf' = [CurOf EXCEPT ![t] = CurOf'[t]]
           /\ NxtOf' = [NxtOf EXCEPT ![t] = NxtOf'[t]]
           /\ FwdOf' = [FwdOf EXCEPT ![t] = FwdOf'[t]]
           /\ SrvOf' = [SrvOf EXCEPT ![t] = SrvOf'[t]]
           /\ CurOf'[t] = CurOf[t] => CurOf' = CurOf
           /\ NxtOf'[t] = NxtOf[t] => NxtOf' = NxtOf
           /\ FwdOf'[t] = FwdOf[t] => FwdOf' = FwdOf
           /\ SrvOf'[t] = SrvOf[t] => SrvOf' = SrvOf
<1>1. /\ CurOf' = [CurOf EXCEPT ![t] = CurOf'[t]]
      /\ CurOf'[t] = CurOf[t] => CurOf' = CurOf
  BY DEF OthersKeep, CurOf
<1>2. /\ NxtOf' = [NxtOf EXCEPT ![t] = NxtOf'[t]]
      /\ NxtOf'[t] = NxtOf[t] => NxtOf' = NxtOf
  BY DEF OthersKeep, NxtOf
<1>3. /\ FwdOf' = [FwdOf EXCEPT ![t] = FwdOf'[t]]
      /\ FwdOf'[t] = FwdOf[t] => FwdOf' = FwdOf
  BY DEF OthersKeep, FwdOf
<1>4. /\ SrvOf' = [SrvOf EXCEPT ![t] = SrvOf'[t]]
      /\ SrvOf'[t] = SrvOf[t] => SrvOf' = SrvOf
  BY DEF OthersKeep, SrvOf
<1>. QED
  BY <1>1, <1>2, <1>3, <1>4

\* The ways a step of thread t moves references to waiting tasks: not at all,
\* by closing a list (CloseList), taking the next entry (NextWatcher), pushing
\* an entry (MoveWatch), forwarding or freeing it (Queue) and starting a
\* forwarded task (TakeForwarded).
NoneMoves ==
    /\ task_watch' = task_watch /\ LinkOf' = LinkOf
    /\ CurOf' = CurOf /\ NxtOf' = NxtOf /\ FwdOf' = FwdOf
    /\ \A x \in Task : task_status'[x] = WAITING <=> task_status[x] = WAITING
HeadMoves(t, i) ==
    /\ CurOf[t] \notin Task
    /\ task_watch' = [task_watch EXCEPT ![i] = DoNotRead]
    /\ CurOf' = [CurOf EXCEPT ![t] = task_watch[i]]
    /\ UNCHANGED <<LinkOf, NxtOf, FwdOf, task_status>>
LinkMoves(t, a) ==
    /\ CurOf[t] = a /\ NxtOf[t] \notin Task
    /\ LinkOf' = [LinkOf EXCEPT ![a] = NULL]
    /\ NxtOf' = [NxtOf EXCEPT ![t] = LinkOf[a]]
    /\ UNCHANGED <<task_watch, CurOf, FwdOf, task_status>>
CurDropped(t, a) ==
    /\ CurOf[t] = a
    /\ CurOf' = [CurOf EXCEPT ![t] = NxtOf[t]]
    /\ NxtOf' = [NxtOf EXCEPT ![t] = NULL]
CurPushed(t, a, i) ==
    /\ CurDropped(t, a) /\ LinkOf[a] \notin Task
    /\ task_watch[i] # DoNotRead
    /\ task_watch' = [task_watch EXCEPT ![i] = a]
    /\ LinkOf' = [LinkOf EXCEPT ![a] = task_watch[i]]
    /\ UNCHANGED <<FwdOf, task_status>>
CurForwarded(t, a) ==
    /\ CurDropped(t, a) /\ FwdOf[t] \notin Task
    /\ FwdOf' = [FwdOf EXCEPT ![t] = a]
    /\ UNCHANGED <<task_watch, LinkOf, task_status>>
CurFreed(t, a) ==
    /\ CurDropped(t, a)
    /\ task_status' = [task_status EXCEPT ![a] = AVAILABLE]
    /\ UNCHANGED <<task_watch, LinkOf, FwdOf>>
FwdStarted(t, a) ==
    /\ FwdOf[t] = a
    /\ FwdOf' = [FwdOf EXCEPT ![t] = NULL]
    /\ task_status' = [task_status EXCEPT ![a] = INPROGRESS]
    /\ UNCHANGED <<task_watch, LinkOf, CurOf, NxtOf>>

RefMove(t) ==
    \/ NoneMoves
    \/ \E i \in Task : HeadMoves(t, i)
    \/ \E a \in Task : \/ LinkMoves(t, a) \/ CurForwarded(t, a) \/ CurFreed(t, a)
                       \/ FwdStarted(t, a)
    \/ \E a, i \in Task : CurPushed(t, a, i) /\ pc[t] \in {"move1", "move2"} /\ i = k[t]

\* Steps that move no reference.
LEMMA QuietStep ==
    ASSUME NEW t \in Thread, OthersKeep(t),
           CurOf'[t] = CurOf[t], NxtOf'[t] = NxtOf[t], FwdOf'[t] = FwdOf[t], SrvOf'[t] = SrvOf[t],
           task_watch' = task_watch,
           \A a \in Task : task_status'[a] = WAITING <=> task_status[a] = WAITING,
           \A a \in Task : wl_next'[a] = wl_next[a] \/ SrvOf[t] = a
    PROVE  NoneMoves
<1>1. CurOf' = CurOf /\ NxtOf' = NxtOf /\ FwdOf' = FwdOf /\ SrvOf' = SrvOf
  BY LocalRefs
<1>2. \A a \in Task : Linked(a)' <=> Linked(a)
  BY <1>1 DEF Linked
<1>3. \A a \in Task : Linked(a) => SrvOf[t] # a
  BY DEF Linked
<1>4. LinkOf' = LinkOf
  BY <1>2, <1>3 DEF LinkOf
<1>. QED
  BY <1>1, <1>4 DEF NoneMoves

\* Every step inside node_perf is one of these moves.
LEMMA RefMoves ==
    ASSUME IInv, NEW t \in Thread, NodePerf(t)
    PROVE  RefMove(t)
<1>. USE DEF chainVars, dagVars, flagVars, taskVars, scanVars, notifyVars
<1>0. TypeOK /\ ThreadShape /\ ShapeAt(t) /\ Running /\ OnePointer /\ PointedWaits
  BY DEF IInv, ThreadShape
<1>1. OthersKeep(t)
  BY <1>0, NodePerfFrame
<1>2. /\ task_watch \in [Task -> Ptr] /\ LinkOf \in [Task -> Ptr] /\ CurOf \in [Thread -> Ptr]
      /\ NxtOf \in [Thread -> Ptr] /\ FwdOf \in [Thread -> Ptr] /\ SrvOf \in [Thread -> Ptr]
  BY <1>0, RefTypes
<1>3. /\ CurOf' = [CurOf EXCEPT ![t] = CurOf'[t]] /\ NxtOf' = [NxtOf EXCEPT ![t] = NxtOf'[t]]
      /\ FwdOf' = [FwdOf EXCEPT ![t] = FwdOf'[t]] /\ SrvOf' = [SrvOf EXCEPT ![t] = SrvOf'[t]]
  BY <1>1, LocalRefs
<1>4. Once(task_watch, LinkOf, CurOf, NxtOf, FwdOf)
  BY <1>0 DEF OnePointer
<1>5. PICK a : a = to_notify[t]
  OBVIOUS
<1>10. CASE BeginScan(t)
  <2>1. CurOf'[t] = CurOf[t] /\ NxtOf'[t] = NxtOf[t] /\ FwdOf'[t] = FwdOf[t] /\ SrvOf'[t] = SrvOf[t]
    BY <1>0, <1>10 DEF BeginScan, Goto, TypeOK, CurOf, NxtOf, FwdOf, SrvOf, Serving, Holding
  <2>. QED
    BY <1>0, <1>1, <1>10, <2>1, QuietStep DEF RefMove, BeginScan
<1>11. CASE Scan(t)
  <2>1. next_task'[t] = INVALID /\ pc'[t] \in {"cas", "scan", "get", "report"}
    BY <1>0, <1>11, ScanOnFacts DEF Scan, Goto, ShapeAt, TypeOK
  <2>2. CurOf'[t] = CurOf[t] /\ NxtOf'[t] = NxtOf[t] /\ FwdOf'[t] = FwdOf[t] /\ SrvOf'[t] = SrvOf[t]
    BY <1>11, <2>1 DEF Scan, CurOf, NxtOf, FwdOf, SrvOf, Serving, Holding
  <2>. QED
    BY <1>0, <1>1, <1>11, <2>2, QuietStep DEF RefMove, Scan
<1>12. CASE CasFail(t)
  <2>1. next_task'[t] = INVALID /\ pc'[t] \in {"scan", "get", "report"}
    BY <1>0, <1>12, ScanOnFacts DEF CasFail, ShapeAt, TypeOK
  <2>2. CurOf'[t] = CurOf[t] /\ NxtOf'[t] = NxtOf[t] /\ FwdOf'[t] = FwdOf[t] /\ SrvOf'[t] = SrvOf[t]
    BY <1>12, <2>1 DEF CasFail, CurOf, NxtOf, FwdOf, SrvOf, Serving, Holding
  <2>. QED
    BY <1>0, <1>1, <1>12, <2>2, QuietStep DEF RefMove, CasFail
<1>13. CASE CasTake(t) \/ Finish(t)
  <2>1. CurOf'[t] = CurOf[t] /\ NxtOf'[t] = NxtOf[t] /\ FwdOf'[t] = FwdOf[t] /\ SrvOf'[t] = SrvOf[t]
    BY <1>0, <1>13 DEF CasTake, Finish, Goto, TypeOK, CurOf, NxtOf, FwdOf, SrvOf, Serving, Holding
  <2>2. \A x \in Task : task_status'[x] = WAITING <=> task_status[x] = WAITING
    BY <1>0, <1>13 DEF CasTake, Finish, Running, TypeOK, WAITING, INPROGRESS, AVAILABLE, DONE
  <2>. QED
    BY <1>0, <1>1, <1>13, <2>1, <2>2, QuietStep DEF RefMove, CasTake, Finish
<1>14. CASE EndTask(t) \/ LookWaiting(t) \/ SecondPass(t) \/ LookUnfinished(t)
  <2>1. CurOf'[t] = CurOf[t] /\ NxtOf'[t] = NxtOf[t] /\ FwdOf'[t] = FwdOf[t] /\ SrvOf'[t] = SrvOf[t]
    BY <1>0, <1>14
    DEF EndTask, LookWaiting, SecondPass, LookUnfinished, Goto, TypeOK,
        CurOf, NxtOf, FwdOf, SrvOf, Serving, Holding
  <2>. QED
    BY <1>0, <1>1, <1>14, <2>1, QuietStep DEF RefMove, EndTask, LookWaiting, SecondPass, LookUnfinished
<1>15. CASE MoveTooLate(t)
  <2>1. CurOf'[t] = CurOf[t] /\ NxtOf'[t] = NxtOf[t] /\ FwdOf'[t] = FwdOf[t] /\ SrvOf'[t] = SrvOf[t]
    BY <1>0, <1>15 DEF MoveTooLate, Goto, TypeOK, CurOf, NxtOf, FwdOf, SrvOf, Serving, Holding
  <2>2. \A x \in Task : wl_next'[x] = wl_next[x] \/ SrvOf[t] = x
    BY <1>0, <1>15 DEF MoveTooLate, TypeOK, SrvOf, Serving
  <2>. QED
    BY <1>0, <1>1, <1>15, <2>1, <2>2, QuietStep DEF RefMove, MoveTooLate
<1>16. CASE CloseList(t)
  <2>1. which_task[t] \in Task
    BY <1>0 DEF TypeOK
  <2>2. CurOf[t] \notin Task /\ CurOf'[t] = task_watch[which_task[t]]
        /\ NxtOf'[t] = NxtOf[t] /\ FwdOf'[t] = FwdOf[t] /\ SrvOf'[t] = SrvOf[t]
    BY <1>0, <1>16, NullIsNoTask
    DEF CloseList, Goto, TypeOK, CurOf, NxtOf, FwdOf, SrvOf, Serving, Holding
  <2>3. NxtOf' = NxtOf /\ FwdOf' = FwdOf /\ SrvOf' = SrvOf
    BY <1>1, <2>2, LocalRefs
  <2>4. LinkOf' = LinkOf
    BY <1>16, <2>3 DEF CloseList, LinkOf, Linked
  <2>5. HeadMoves(t, which_task[t])
    BY <1>3, <1>16, <2>2, <2>3, <2>4 DEF HeadMoves, CloseList
  <2>. QED
    BY <2>1, <2>5 DEF RefMove
<1>17. CASE NextWatcher(t)
  <2>1. a \in Task /\ CurOf[t] = a
    BY <1>0, <1>5, <1>17 DEF NextWatcher, TypeOK, CurOf
  <2>2. /\ CurOf'[t] = CurOf[t] /\ NxtOf[t] \notin Task /\ NxtOf'[t] = wl_next[a]
        /\ FwdOf'[t] = FwdOf[t] /\ SrvOf[t] = NULL /\ SrvOf'[t] = a
    BY <1>0, <1>5, <1>17, NullIsNoTask
    DEF NextWatcher, Goto, TypeOK, CurOf, NxtOf, FwdOf, SrvOf, Serving, Holding
  <2>3. CurOf' = CurOf /\ FwdOf' = FwdOf
    BY <1>1, <2>2, LocalRefs
  <2>4. task_status[a] = WAITING
    BY <1>0, <2>1 DEF PointedWaits, Refers
  <2>5. \A u \in Thread : FwdOf[u] # a /\ SrvOf[u] # a
    <3>1. \A u \in Thread : FwdOf[u] # a
      BY <1>2, <1>4, <2>1 DEF Once, Apart
    <3>2. \A u \in Thread : SrvOf[u] \in Task => SrvOf[u] = CurOf[u]
      BY NullIsNoTask DEF SrvOf, CurOf
    <3>3. \A u \in Thread : CurOf[u] = a => u = t
      BY <1>2, <1>4, <2>1 DEF Once, Inj
    <3>. QED
      BY <2>1, <2>2, <3>1, <3>2, <3>3, NullIsNoTask
  <2>6. Linked(a) /\ ~Linked(a)'
    BY <1>3, <2>2, <2>4, <2>5 DEF Linked, SrvOf
  <2>7. \A b \in Task \ {a} : Linked(b)' <=> Linked(b)
    <3>. TAKE b \in Task \ {a}
    <3>1. \A u \in Thread : SrvOf'[u] = b <=> SrvOf[u] = b
      BY <1>2, <1>3, <2>2, NullIsNoTask
    <3>. QED
      BY <1>17, <2>3, <3>1 DEF Linked, NextWatcher
  <2>. DEFINE L == [LinkOf EXCEPT ![a] = NULL]
              N == [NxtOf EXCEPT ![t] = LinkOf[a]]
  <2>8. LinkOf' = L /\ NxtOf' = N
    <3>1. wl_next' = wl_next
      BY <1>17 DEF NextWatcher
    <3>2. LinkOf' = L
      BY <2>1, <2>6, <2>7, <3>1 DEF LinkOf
    <3>3. LinkOf[a] = wl_next[a]
      BY <2>1, <2>6 DEF LinkOf
    <3>. QED
      BY <1>3, <2>2, <3>2, <3>3
  <2>9. LinkMoves(t, a)
    BY <1>17, <2>1, <2>2, <2>3, <2>8 DEF LinkMoves, NextWatcher
  <2>. QED
    BY <2>1, <2>9 DEF RefMove
<1>18. ASSUME MoveWatch(t) \/ Queue(t)
       PROVE  /\ a \in Task /\ task_status[a] = WAITING
              /\ CurOf[t] = a /\ SrvOf[t] = a /\ SrvOf'[t] = NULL
              /\ CurOf'[t] = NxtOf[t] /\ NxtOf'[t] = NULL
              /\ \A u \in Thread : FwdOf[u] # a
              /\ \A u \in Thread \ {t} : SrvOf[u] # a
              /\ ~Linked(a)
  <2>1. a \in Task /\ CurOf[t] = a /\ SrvOf[t] = a
    BY <1>0, <1>5, <1>18 DEF MoveWatch, Queue, ShapeAt, CurOf, SrvOf, Serving
  <2>2. SrvOf'[t] = NULL /\ CurOf'[t] = NxtOf[t] /\ NxtOf'[t] = NULL
    BY <1>0, <1>18 DEF MoveWatch, Queue, Goto, TypeOK, CurOf, NxtOf, SrvOf, Serving
  <2>3. task_status[a] = WAITING
    BY <1>0, <2>1 DEF PointedWaits, Refers
  <2>4. \A u \in Thread : FwdOf[u] # a
    BY <1>2, <1>4, <2>1 DEF Once, Apart
  <2>5. \A u \in Thread \ {t} : SrvOf[u] # a
    <3>1. \A u \in Thread : SrvOf[u] \in Task => SrvOf[u] = CurOf[u]
      BY NullIsNoTask DEF SrvOf, CurOf
    <3>2. \A u \in Thread : CurOf[u] = a => u = t
      BY <1>2, <1>4, <2>1 DEF Once, Inj
    <3>. QED
      BY <2>1, <3>1, <3>2
  <2>6. ~Linked(a)
    BY <2>1 DEF Linked
  <2>. QED
    BY <2>1, <2>2, <2>3, <2>4, <2>5, <2>6
<1>19. ASSUME MoveWatch(t) \/ Queue(t) PROVE CurDropped(t, a)
  BY <1>3, <1>18, <1>19 DEF CurDropped
<1>20. CASE MoveWatch(t)
  <2>1. k[t] \in Task /\ task_watch[k[t]] # DoNotRead
    BY <1>0, <1>20 DEF MoveWatch, ShapeAt
  <2>2. FwdOf' = FwdOf
    <3>1. FwdOf'[t] = FwdOf[t]
      BY <1>0, <1>20 DEF MoveWatch, Goto, TypeOK, FwdOf, Serving, Holding
    <3>. QED
      BY <1>1, <3>1, LocalRefs
  <2>3. Linked(a)'
    <3>1. \A u \in Thread : FwdOf'[u] # a /\ SrvOf'[u] # a
      BY <1>2, <1>3, <1>18, <1>20, <2>2, NullIsNoTask
    <3>. QED
      BY <1>18, <1>20, <3>1 DEF Linked, MoveWatch
  <2>4. \A b \in Task \ {a} : Linked(b)' <=> Linked(b)
    <3>. TAKE b \in Task \ {a}
    <3>1. \A u \in Thread : SrvOf'[u] = b <=> SrvOf[u] = b
      BY <1>2, <1>3, <1>18, <1>20, NullIsNoTask
    <3>. QED
      BY <1>20, <2>2, <3>1 DEF Linked, MoveWatch
  <2>. DEFINE W == [task_watch EXCEPT ![k[t]] = a]
              L == [LinkOf EXCEPT ![a] = task_watch[k[t]]]
  <2>5. task_watch' = W
    BY <1>5, <1>20 DEF MoveWatch
  <2>6. LinkOf' = L
    BY <1>0, <1>5, <1>18, <1>20, <2>3, <2>4 DEF LinkOf, MoveWatch, TypeOK
  <2>7. LinkOf[a] \notin Task
    BY <1>18, <1>20, NullIsNoTask DEF LinkOf
  <2>8. a \in Task
    BY <1>18, <1>20
  <2>9. CurPushed(t, a, k[t])
    BY <1>19, <1>20, <2>1, <2>2, <2>5, <2>6, <2>7 DEF CurPushed, MoveWatch
  <2>. QED
    BY <1>20, <2>1, <2>8, <2>9 DEF RefMove, MoveWatch
<1>21. CASE Queue(t)
  <2>0. a \in Task
    BY <1>18, <1>21
  <2>1. CASE next_task[t] = INVALID
    <3>1. FwdOf[t] \notin Task /\ FwdOf'[t] = a
      BY <1>0, <1>5, <1>18, <1>21, <2>1, NullIsNoTask
      DEF Queue, Goto, TypeOK, FwdOf, Serving, Holding
    <3>. DEFINE F == [FwdOf EXCEPT ![t] = a]
    <3>2. FwdOf' = F
      BY <1>3, <3>1
    <3>3. task_status' = task_status /\ task_watch' = task_watch /\ wl_next' = wl_next
      BY <1>21, <2>1 DEF Queue
    <3>4. \A b \in Task : Linked(b)' <=> Linked(b)
      <4>1. ~Linked(a) /\ ~Linked(a)'
        BY <1>2, <1>18, <1>21, <3>2 DEF Linked
      <4>2. ASSUME NEW b \in Task \ {a} PROVE Linked(b)' <=> Linked(b)
        <5>1. \A u \in Thread : SrvOf'[u] = b <=> SrvOf[u] = b
          BY <1>2, <1>3, <1>18, <1>21, <4>2, NullIsNoTask
        <5>2. \A u \in Thread : FwdOf'[u] = b <=> FwdOf[u] = b
          BY <1>2, <3>1, <3>2, <4>2
        <5>. QED
          BY <3>3, <5>1, <5>2 DEF Linked
      <4>. QED
        BY <4>1, <4>2
    <3>5. LinkOf' = LinkOf
      BY <3>3, <3>4 DEF LinkOf
    <3>6. CurForwarded(t, a)
      BY <1>19, <1>21, <3>1, <3>2, <3>3, <3>5 DEF CurForwarded
    <3>. QED
      BY <2>0, <3>6 DEF RefMove
  <2>2. CASE next_task[t] # INVALID
    <3>1. FwdOf'[t] = FwdOf[t]
      BY <1>0, <1>21, <2>2 DEF Queue, Goto, TypeOK, FwdOf, Serving, Holding
    <3>2. FwdOf' = FwdOf
      BY <1>1, <3>1, LocalRefs
    <3>3. /\ task_status' = [task_status EXCEPT ![a] = AVAILABLE]
          /\ task_watch' = task_watch /\ wl_next' = wl_next
      BY <1>5, <1>21, <2>2 DEF Queue
    <3>4. \A b \in Task : Linked(b)' <=> Linked(b)
      <4>1. ~Linked(a) /\ ~Linked(a)'
        BY <1>0, <1>18, <1>21, <2>0, <3>3 DEF Linked, TypeOK, AVAILABLE, WAITING
      <4>2. ASSUME NEW b \in Task \ {a} PROVE Linked(b)' <=> Linked(b)
        <5>1. \A u \in Thread : SrvOf'[u] = b <=> SrvOf[u] = b
          BY <1>2, <1>3, <1>18, <1>21, <4>2, NullIsNoTask
        <5>. QED
          BY <1>0, <3>2, <3>3, <4>2, <5>1 DEF Linked, TypeOK
      <4>. QED
        BY <4>1, <4>2
    <3>5. LinkOf' = LinkOf
      BY <3>3, <3>4 DEF LinkOf
    <3>6. CurFreed(t, a)
      BY <1>19, <1>21, <3>2, <3>3, <3>5 DEF CurFreed
    <3>. QED
      BY <2>0, <3>6 DEF RefMove
  <2>. QED
    BY <2>1, <2>2
<1>22. CASE TakeForwarded(t)
  <2>0. PICK b : b = next_task[t]
    OBVIOUS
  <2>. DEFINE F == [FwdOf EXCEPT ![t] = NULL]
  <2>1. b \in Task /\ FwdOf[t] = b /\ FwdOf'[t] = NULL
        /\ CurOf'[t] = CurOf[t] /\ NxtOf'[t] = NxtOf[t] /\ SrvOf'[t] = SrvOf[t]
    BY <1>0, <1>22, <2>0
    DEF TakeForwarded, Goto, TypeOK, CurOf, NxtOf, FwdOf, SrvOf, Serving, Holding
  <2>2. CurOf' = CurOf /\ NxtOf' = NxtOf /\ SrvOf' = SrvOf /\ FwdOf' = F
    BY <1>1, <1>3, <2>1, LocalRefs
  <2>3. /\ task_status' = [task_status EXCEPT ![b] = INPROGRESS]
        /\ task_watch' = task_watch /\ wl_next' = wl_next
    BY <1>22, <2>0 DEF TakeForwarded
  <2>5. \A x \in Task : Linked(x)' <=> Linked(x)
    <3>1. ~Linked(b) /\ ~Linked(b)'
      BY <1>0, <2>1, <2>3 DEF Linked, TypeOK, INPROGRESS, WAITING
    <3>2. ASSUME NEW x \in Task \ {b} PROVE Linked(x)' <=> Linked(x)
      <4>1. \A u \in Thread : FwdOf'[u] = x <=> FwdOf[u] = x
        BY <1>2, <2>1, <2>2, <3>2, NullIsNoTask
      <4>. QED
        BY <1>0, <2>2, <2>3, <3>2, <4>1 DEF Linked, TypeOK
    <3>. QED
      BY <3>1, <3>2
  <2>6. LinkOf' = LinkOf
    BY <2>3, <2>5 DEF LinkOf
  <2>7. FwdStarted(t, b)
    BY <2>1, <2>2, <2>3, <2>6 DEF FwdStarted
  <2>. QED
    BY <2>1, <2>7 DEF RefMove
<1>. QED
  BY <1>10, <1>11, <1>12, <1>13,
     <1>14, <1>15, <1>16, <1>17, <1>20, <1>21, <1>22 DEF NodePerf

\* Every move keeps the references apart.
LEMMA PointerStep ==
    ASSUME IInv, NEW t \in Thread, NodePerf(t)
    PROVE  OnePointer' /\ PointedWaits'
<1>0. /\ TypeOK /\ PointedWaits /\ RefMove(t)
      /\ task_status \in [Task -> {DONE, INPROGRESS, AVAILABLE, WAITING}]
  BY RefMoves DEF IInv, TypeOK
<1>2. /\ task_watch \in [Task -> Ptr] /\ LinkOf \in [Task -> Ptr] /\ CurOf \in [Thread -> Ptr]
      /\ NxtOf \in [Thread -> Ptr] /\ FwdOf \in [Thread -> Ptr]
  BY <1>0, RefTypes
<1>4. Once(task_watch, LinkOf, CurOf, NxtOf, FwdOf)
  BY DEF IInv, OnePointer
<1>5. CASE NoneMoves
  BY <1>0, <1>4, <1>5 DEF NoneMoves, OnePointer, PointedWaits
<1>6. ASSUME NEW i \in Task, HeadMoves(t, i) PROVE OnePointer' /\ PointedWaits'
  <2>. DEFINE W == [task_watch EXCEPT ![i] = DoNotRead]
              C == [CurOf EXCEPT ![t] = task_watch[i]]
  <2>1. /\ Once(W, LinkOf, C, NxtOf, FwdOf)
        /\ \A x \in Task : Refers(W, LinkOf, C, NxtOf, FwdOf, x)
                           => Refers(task_watch, LinkOf, CurOf, NxtOf, FwdOf, x)
    BY <1>2, <1>4, <1>6, MoveHeadToCur DEF HeadMoves
  <2>2. task_watch' = W /\ CurOf' = C /\ UNCHANGED <<LinkOf, NxtOf, FwdOf, task_status>>
    BY <1>6 DEF HeadMoves
  <2>. HIDE DEF W, C
  <2>. QED
    BY <1>0, <2>1, <2>2 DEF OnePointer, PointedWaits
<1>7. ASSUME NEW a \in Task, LinkMoves(t, a) PROVE OnePointer' /\ PointedWaits'
  <2>. DEFINE L == [LinkOf EXCEPT ![a] = NULL]
              N == [NxtOf EXCEPT ![t] = LinkOf[a]]
  <2>1. /\ Once(task_watch, L, CurOf, N, FwdOf)
        /\ \A x \in Task : Refers(task_watch, L, CurOf, N, FwdOf, x)
                           => Refers(task_watch, LinkOf, CurOf, NxtOf, FwdOf, x)
    BY <1>2, <1>4, <1>7, MoveLinkToNxt DEF LinkMoves
  <2>2. LinkOf' = L /\ NxtOf' = N /\ UNCHANGED <<task_watch, CurOf, FwdOf, task_status>>
    BY <1>7 DEF LinkMoves
  <2>. HIDE DEF L, N
  <2>. QED
    BY <1>0, <2>1, <2>2 DEF OnePointer, PointedWaits
<1>. DEFINE C == [CurOf EXCEPT ![t] = NxtOf[t]]
            N == [NxtOf EXCEPT ![t] = NULL]
<1>8. ASSUME NEW a \in Task, CurDropped(t, a)
      PROVE  /\ CurOf' = C /\ NxtOf' = N /\ C \in [Thread -> Ptr] /\ N \in [Thread -> Ptr]
             /\ Once(task_watch, LinkOf, C, N, FwdOf)
             /\ \A x \in Task : Refers(task_watch, LinkOf, C, N, FwdOf, x)
                                => Refers(task_watch, LinkOf, CurOf, NxtOf, FwdOf, x)
             /\ ~Refers(task_watch, LinkOf, C, N, FwdOf, a)
             /\ task_status[a] = WAITING
  <2>1. CurOf' = C /\ NxtOf' = N /\ CurOf[t] = a
    BY <1>8 DEF CurDropped
  <2>2. C \in [Thread -> Ptr] /\ N \in [Thread -> Ptr]
    BY <1>2 DEF Ptr
  <2>3. /\ Once(task_watch, LinkOf, C, N, FwdOf)
        /\ \A x \in Task : Refers(task_watch, LinkOf, C, N, FwdOf, x)
                           => Refers(task_watch, LinkOf, CurOf, NxtOf, FwdOf, x)
        /\ CurOf[t] \in Task => ~Refers(task_watch, LinkOf, C, N, FwdOf, CurOf[t])
    BY <1>2, <1>4, DropCur
  <2>4. task_status[a] = WAITING
    BY <1>0, <2>1 DEF PointedWaits, Refers
  <2>. QED
    BY <2>1, <2>2, <2>3, <2>4
<1>. HIDE DEF C, N
<1>9. ASSUME NEW a \in Task, NEW i \in Task, CurPushed(t, a, i)
      PROVE  OnePointer' /\ PointedWaits'
  <2>. DEFINE W == [task_watch EXCEPT ![i] = a]
              L == [LinkOf EXCEPT ![a] = task_watch[i]]
  <2>1. CurDropped(t, a) /\ LinkOf[a] \notin Task
    BY <1>9 DEF CurPushed
  <2>2. /\ Once(W, L, C, N, FwdOf)
        /\ \A x \in Task : Refers(W, L, C, N, FwdOf, x)
                           => Refers(task_watch, LinkOf, C, N, FwdOf, x) \/ x = a
    BY <1>2, <1>8, <2>1, PushHead
  <2>3. task_watch' = W /\ LinkOf' = L /\ UNCHANGED <<FwdOf, task_status>>
    BY <1>9 DEF CurPushed
  <2>. HIDE DEF W, L
  <2>. QED
    BY <1>0, <1>8, <2>1, <2>2, <2>3 DEF OnePointer, PointedWaits
<1>10. ASSUME NEW a \in Task, CurForwarded(t, a) PROVE OnePointer' /\ PointedWaits'
  <2>1. CurDropped(t, a) /\ FwdOf[t] \notin Task
    BY <1>10 DEF CurForwarded
  <2>. DEFINE F == [FwdOf EXCEPT ![t] = a]
  <2>2. /\ Once(task_watch, LinkOf, C, N, F)
        /\ \A x \in Task : Refers(task_watch, LinkOf, C, N, F, x)
                           => Refers(task_watch, LinkOf, C, N, FwdOf, x) \/ x = a
    <3>1. /\ C \in [Thread -> Ptr] /\ N \in [Thread -> Ptr]
          /\ Once(task_watch, LinkOf, C, N, FwdOf) /\ ~Refers(task_watch, LinkOf, C, N, FwdOf, a)
      BY <1>8, <2>1
    <3>. QED
      BY <1>2, <2>1, <3>1, Forward
  <2>3. FwdOf' = F /\ UNCHANGED <<task_watch, LinkOf, task_status>>
    BY <1>10 DEF CurForwarded
  <2>. HIDE DEF F
  <2>. QED
    BY <1>0, <1>8, <2>1, <2>2, <2>3 DEF OnePointer, PointedWaits
<1>11. ASSUME NEW a \in Task, CurFreed(t, a) PROVE OnePointer' /\ PointedWaits'
  <2>1. CurDropped(t, a) /\ UNCHANGED <<task_watch, LinkOf, FwdOf>>
    BY <1>11 DEF CurFreed
  <2>2. \A x \in Task : x # a => task_status'[x] = task_status[x]
    BY <1>0, <1>11 DEF CurFreed
  <2>. QED
    BY <1>0, <1>8, <2>1, <2>2 DEF OnePointer, PointedWaits
<1>12. ASSUME NEW a \in Task, FwdStarted(t, a) PROVE OnePointer' /\ PointedWaits'
  <2>. DEFINE F == [FwdOf EXCEPT ![t] = NULL]
  <2>1. /\ Once(task_watch, LinkOf, CurOf, NxtOf, F)
        /\ \A x \in Task : Refers(task_watch, LinkOf, CurOf, NxtOf, F, x)
                           => Refers(task_watch, LinkOf, CurOf, NxtOf, FwdOf, x)
        /\ FwdOf[t] \in Task => ~Refers(task_watch, LinkOf, CurOf, NxtOf, F, FwdOf[t])
    BY <1>2, <1>4, TakeForward
  <2>2. FwdOf[t] = a /\ FwdOf' = F /\ UNCHANGED <<task_watch, LinkOf, CurOf, NxtOf>>
    BY <1>12 DEF FwdStarted
  <2>3. \A x \in Task : x # a => task_status'[x] = task_status[x]
    BY <1>0, <1>12 DEF FwdStarted
  <2>. HIDE DEF F
  <2>. QED
    BY <1>0, <2>1, <2>2, <2>3 DEF OnePointer, PointedWaits
<1>. QED
  BY <1>0, <1>5, <1>6, <1>7, <1>9, <1>10, <1>11, <1>12 DEF RefMove

\* dag_build and dag_reinit refer to each waiting task once.
LEMMA PointerSetup ==
    ASSUME IInv, StartCycle
    PROVE  OnePointer' /\ PointedWaits' /\ \A t \in Thread : FwdOf'[t] = NULL
<1>. DEFINE d == task_dep'
            none == [t \in Thread |-> NULL]
<1>0. /\ TypeOK /\ Handshake /\ Thread = Worker \cup {0} /\ 0 \in Thread
  BY ThreadsAssumption DEF IInv, Thread, Worker
<1>1. /\ d \in [Task -> SUBSET Task] /\ task_status' \in [Task -> {DONE, AVAILABLE, WAITING}]
      /\ \A j \in Task : task_status'[j] = WAITING <=> d[j] # {}
      /\ task_watch' = FirstLists(d) /\ wl_next' = FirstLinks(d, wl_next)
  BY SetupFacts DEF StartCycle, IInv
<1>2. wl_next \in [Task -> Task \cup {NULL}]
  BY <1>0 DEF TypeOK
<1>3. \A t \in Thread : pc'[t] \in {"idle", "release"}
  BY <1>0 DEF StartCycle, Goto, Handshake, WorkersParked, TypeOK
<1>4. CurOf' = none /\ NxtOf' = none /\ FwdOf' = none /\ SrvOf' = none
  BY <1>3 DEF CurOf, NxtOf, FwdOf, SrvOf, Serving, Holding
<1>. HIDE DEF d
<1>5. \A a \in Task : Linked(a)' <=> d[a] # {}
  BY <1>1, <1>4, NullIsNoTask DEF Linked
<1>6. LinkOf' = [a \in Task |-> IF d[a] # {} THEN FirstLinks(d, wl_next)[a] ELSE NULL]
  BY <1>1, <1>5 DEF LinkOf
<1>7. Inj(task_watch') /\ Inj(LinkOf') /\ Apart(task_watch', LinkOf')
  <2>1. DOMAIN task_watch' = Task /\ DOMAIN LinkOf' = Task
    BY <1>1, <1>6 DEF FirstLists
  <2>2. /\ \A x, y \in Task : FirstLists(d)[x] \in Task
              /\ FirstLists(d)[x] = FirstLists(d)[y] => x = y
        /\ \A x, y \in Task : d[x] # {} /\ d[y] # {} /\ FirstLinks(d, wl_next)[x] \in Task
              /\ FirstLinks(d, wl_next)[x] = FirstLinks(d, wl_next)[y] => x = y
        /\ \A x, y \in Task : d[y] # {} /\ FirstLists(d)[x] \in Task
              => FirstLists(d)[x] # FirstLinks(d, wl_next)[y]
    BY <1>1, <1>2, ListsAreDisjoint
  <2>. QED
    BY <1>1, <1>6, <2>1, <2>2, NullIsNoTask DEF Inj, Apart
<1>8. OnePointer'
  <2>1. Inj(none) /\ Apart(none, none)
    BY NullIsNoTask DEF Inj, Apart
  <2>2. Apart(task_watch', none) /\ Apart(LinkOf', none)
    BY NullIsNoTask DEF Apart
  <2>. QED
    BY <1>4, <1>7, <2>1, <2>2 DEF OnePointer, Once
<1>9. PointedWaits'
  <2>. SUFFICES ASSUME NEW x \in Task, Refers(task_watch', LinkOf', none, none, none, x)
                PROVE  d[x] # {}
    BY <1>1, <1>4 DEF PointedWaits
  <2>1. PICK i \in Task : task_watch'[i] = x \/ LinkOf'[i] = x
    BY NullIsNoTask DEF Refers
  <2>2. CASE task_watch'[i] = x
    BY <1>1, <2>2, ListHeads DEF FirstWatchers
  <2>3. CASE LinkOf'[i] = x
    BY <1>1, <1>2, <1>6, <2>3, ListLinks, NullIsNoTask DEF FirstWatchers
  <2>. QED
    BY <2>1, <2>2, <2>3
<1>. QED
  BY <1>4, <1>8, <1>9

\* The other steps leave the graph alone and keep every thread outside
\* dag_end_task and the task it performs.
Outside == {"idle", "release", "get", "report", "mix"}
OtherStep(t) ==
    /\ UNCHANGED <<dagVars, ran>> /\ OthersKeep(t)
    /\ \/ pc[t] \in Outside /\ pc'[t] \in Outside /\ FwdOf'[t] = FwdOf[t]
       \/ UNCHANGED <<pc, taskVars, notifyVars>>

\* Outside node_perf and the start of a period, a step leaves the graph and the
\* references of all threads.
LEMMA OtherSteps ==
    ASSUME IInv, Next, ~StartCycle, \A t \in Thread : ~NodePerf(t)
    PROVE  \E t \in Thread : OtherStep(t)
<1>. USE DEF chainVars, dagVars, flagVars, taskVars, scanVars, notifyVars
<1>0. TypeOK /\ 0 \in Thread
  BY ThreadsAssumption DEF IInv, Thread
<1>1. CASE Release
  BY <1>0, <1>1
  DEF Release, Goto, OtherStep, OthersKeep, Outside, FwdOf, Holding, Serving, TypeOK
<1>2. CASE Gather \/ Mix
  BY <1>0, <1>2
  DEF Gather, Mix, Goto, OtherStep, OthersKeep, Outside, FwdOf, Holding, Serving, TypeOK
<1>3. CASE ChainStep
  BY <1>0, <1>3
  DEF ChainStep, InsertInstance, DeactInstance, AsyncMark, AsyncSplice, OtherStep, OthersKeep
<1>4. ASSUME NEW t \in Thread, TurnoffWhileRunning(t) PROVE OtherStep(t)
  BY <1>4 DEF TurnoffWhileRunning, OtherStep, OthersKeep
<1>5. ASSUME NEW t \in Thread, Wake(t) PROVE OtherStep(t)
  BY <1>0, <1>5 DEF Wake, Goto, OtherStep, OthersKeep, Outside, FwdOf, Holding, Serving, TypeOK
<1>6. ASSUME NEW t \in Thread, Report(t) PROVE OtherStep(t)
  BY <1>0, <1>6 DEF Report, Goto, OtherStep, OthersKeep, Outside, FwdOf, Holding, Serving, TypeOK
<1>. QED
  BY <1>1, <1>2, <1>3, <1>4, <1>5, <1>6 DEF Next, MasterStep, ThreadStep

\* Such a step moves no reference.
LEMMA PointerOther ==
    ASSUME IInv, NEW t \in Thread, OtherStep(t)
    PROVE  OnePointer' /\ PointedWaits' /\ FwdOf' = FwdOf /\ NoneMoves
<1>1. OnePointer /\ PointedWaits /\ OthersKeep(t)
  BY DEF IInv, OtherStep
<1>2. /\ task_watch' = task_watch /\ task_status' = task_status /\ wl_next' = wl_next
  BY DEF OtherStep, dagVars
<1>3. FwdOf'[t] = FwdOf[t]
  BY DEF OtherStep, taskVars, FwdOf
<1>4. CurOf'[t] = CurOf[t] /\ NxtOf'[t] = NxtOf[t] /\ SrvOf'[t] = SrvOf[t]
  BY DEF OtherStep, Outside, notifyVars, CurOf, NxtOf, SrvOf, Serving
<1>5. FwdOf' = FwdOf
  BY <1>1, <1>3, LocalRefs
<1>6. NoneMoves
  BY <1>1, <1>2, <1>3, <1>4, QuietStep
<1>. QED
  BY <1>1, <1>5, <1>6 DEF NoneMoves, OnePointer, PointedWaits

-----------------------------------------------------------------------------
(***************************************************************************)
(* Ready, Examined, Running, Closed and RanOnce                            *)
(***************************************************************************)

\* The status of a task moves forward, and a step changes it only for a task
\* that its thread owns.
LEMMA StatusStep ==
    ASSUME IInv, NEW t \in Thread, NodePerf(t)
    PROVE  \/ UNCHANGED <<task_status, ran>> /\ ~Finish(t) /\ ~TakeForwarded(t) /\ ~CasTake(t)
           \/ /\ TakeForwarded(t) /\ FwdOf[t] = next_task[t] /\ next_task[t] \in Task
              /\ task_status[next_task[t]] = WAITING
           \/ CasTake(t) /\ pos[t] \in Active /\ task_status[pos[t]] = AVAILABLE
           \/ Finish(t) /\ which_task[t] \in Task /\ task_status[which_task[t]] = INPROGRESS
           \/ /\ Queue(t) /\ next_task[t] # INVALID /\ to_notify[t] \in Task
              /\ task_status[to_notify[t]] = WAITING
<1>. USE DEF chainVars, dagVars, flagVars, taskVars, scanVars, notifyVars
<1>0. TypeOK /\ ThreadShape /\ ShapeAt(t) /\ Running /\ PointedWaits
  BY DEF IInv, ThreadShape
<1>1. CASE TakeForwarded(t)
  <2>1. FwdOf[t] = next_task[t] /\ next_task[t] \in Task
    BY <1>0, <1>1 DEF TakeForwarded, FwdOf, Holding, TypeOK
  <2>. QED
    BY <1>0, <1>1, <2>1 DEF PointedWaits, Refers
<1>2. CASE CasTake(t)
  BY <1>0, <1>2 DEF CasTake, ShapeAt
<1>3. CASE Finish(t)
  BY <1>0, <1>3 DEF Finish, Running, TypeOK
<1>4. CASE Queue(t)
  <2>1. to_notify[t] \in Task /\ CurOf[t] = to_notify[t]
    BY <1>0, <1>4 DEF Queue, ShapeAt, Serving, CurOf
  <2>2. task_status[to_notify[t]] = WAITING
    BY <1>0, <2>1 DEF PointedWaits, Refers
  <2>3. ~Finish(t) /\ ~TakeForwarded(t) /\ ~CasTake(t)
    BY <1>4 DEF Queue, Finish, TakeForwarded, CasTake
  <2>. QED
    BY <1>4, <2>1, <2>2, <2>3 DEF Queue
<1>5. CASE ~(TakeForwarded(t) \/ CasTake(t) \/ Finish(t) \/ Queue(t))
  BY <1>5
  DEF NodePerf, BeginScan, Scan, CasFail, CloseList, NextWatcher, EndTask, LookWaiting, SecondPass,
      LookUnfinished, MoveWatch, MoveTooLate
<1>. QED
  BY <1>1, <1>2, <1>3, <1>4, <1>5

\* A task that is DONE stays DONE within node_perf.
LEMMA DoneStays ==
    ASSUME IInv, NEW t \in Thread, NodePerf(t)
    PROVE  \A i \in Task : task_status[i] = DONE => task_status'[i] = DONE
<1>. USE DEF DONE, INPROGRESS, AVAILABLE, WAITING
<1>0. task_status \in [Task -> {DONE, INPROGRESS, AVAILABLE, WAITING}]
  BY DEF IInv, TypeOK
<1>1. CASE UNCHANGED task_status
  BY <1>1
<1>2. CASE TakeForwarded(t) /\ task_status[next_task[t]] = WAITING
  BY <1>0, <1>2 DEF TakeForwarded
<1>3. CASE CasTake(t) /\ task_status[pos[t]] = AVAILABLE
  BY <1>0, <1>3 DEF CasTake
<1>4. CASE Finish(t)
  BY <1>0, <1>4 DEF Finish
<1>5. CASE Queue(t) /\ next_task[t] # INVALID /\ task_status[to_notify[t]] = WAITING
  BY <1>0, <1>5 DEF Queue
<1>. QED
  BY <1>1, <1>2, <1>3, <1>4, <1>5, StatusStep

\* A step of node_perf starts only tasks whose dependencies are DONE, and keeps what
\* the passes of dag_end_task have established.
LEMMA ReadyStep ==
    ASSUME IInv, NEW t \in Thread, NodePerf(t)
    PROVE  Ready' /\ Examined'
<1>. USE DEF chainVars, dagVars, flagVars, taskVars, scanVars, notifyVars
<1>0. /\ TypeOK /\ ThreadShape /\ ShapeAt(t) /\ Ready /\ Examined /\ Closed
      /\ Active \subseteq Task
  <2>1. Active \subseteq Task
    BY BoundsAssumption DEF IInv, TypeOK, Active, num_active, Task
  <2>. QED
    BY <2>1 DEF IInv, ThreadShape
<1>1. task_dep' = task_dep /\ Active' = Active /\ OthersKeep(t)
  BY <1>0, NodePerfFrame DEF Active, num_active
<1>2. \A i \in Task : task_status[i] = DONE => task_status'[i] = DONE
  BY DoneStays
<1>3. \A j \in Task : task_dep[j] \subseteq Task
  BY <1>0 DEF TypeOK
<1>4. \A j \in Task : DepsDone(j) => DepsDone(j)'
  BY <1>1, <1>2, <1>3 DEF DepsDone
<1>5. Queue(t) => to_notify[t] \in Task /\ DepsDone(to_notify[t])
  <2>. SUFFICES ASSUME Queue(t) PROVE to_notify[t] \in Task /\ DepsDone(to_notify[t])
    OBVIOUS
  <2>1. to_notify[t] \in Task /\ k[t] \in 0..MaxActive
    BY <1>0 DEF Queue, ShapeAt, Serving, TypeOK
  <2>2. \A d \in task_dep[to_notify[t]] : d < k[t]
    <3>. TAKE d \in task_dep[to_notify[t]]
    <3>1. d \in Nat /\ k[t] \in Nat
      BY <1>3, <2>1 DEF Task
    <3>2. ~(d >= k[t])
      BY DEF Queue, Remaining
    <3>. QED
      BY <3>1, <3>2
  <2>3. \A d \in task_dep[to_notify[t]] : task_status[d] = DONE
    BY <1>0, <2>2 DEF Examined, Queue
  <2>. QED
    BY <2>1, <2>3 DEF DepsDone
<1>6. ASSUME NEW j \in Active, task_status'[j] # WAITING PROVE DepsDone(j)'
  <2>1. CASE task_status[j] # WAITING
    BY <1>0, <1>4, <2>1 DEF Ready
  <2>2. CASE task_status[j] = WAITING
    <3>1. \/ TakeForwarded(t) /\ FwdOf[t] \in Task /\ j = FwdOf[t]
          \/ Queue(t) /\ j = to_notify[t]
      BY <1>0, <1>6, <2>2, StatusStep
      DEF TakeForwarded, CasTake, Finish, Queue, TypeOK, INPROGRESS, AVAILABLE, WAITING
    <3>. QED
      BY <1>0, <1>4, <1>5, <3>1 DEF Ready
  <2>. QED
    BY <2>1, <2>2
<1>7. ASSUME NEW u \in Thread, FwdOf'[u] \in Task PROVE DepsDone(FwdOf[u])'
  <2>1. CASE FwdOf'[u] = FwdOf[u]
    BY <1>0, <1>4, <1>7, <2>1 DEF Ready
  <2>2. CASE FwdOf'[u] # FwdOf[u]
    <3>1. u = t
      BY <1>1, <2>2, LocalRefs DEF FwdOf
    <3>2. Queue(t) /\ FwdOf'[t] = to_notify[t]
      <4>1. CASE Queue(t)
        BY <1>0, <1>7, <2>2, <3>1, <4>1, NullIsNoTask
        DEF Queue, Goto, FwdOf, Holding, Serving, TypeOK
      <4>2. CASE Scan(t) \/ CasFail(t)
        <5>1. next_task'[t] = INVALID
          BY <1>0, <4>2 DEF Scan, CasFail, ShapeAt
        <5>. QED
          BY <1>7, <3>1, <5>1, NullIsNoTask DEF FwdOf
      <4>3. CASE ~(Queue(t) \/ Scan(t) \/ CasFail(t))
        BY <1>0, <1>7, <2>2, <3>1, <4>3, NullIsNoTask
        DEF NodePerf, TakeForwarded, BeginScan, CasTake, Finish, CloseList, NextWatcher, EndTask,
            LookWaiting, SecondPass, LookUnfinished, MoveWatch, MoveTooLate, Goto, FwdOf, Holding,
            Serving, TypeOK
      <4>. QED
        BY <4>1, <4>2, <4>3
    <3>. QED
      BY <1>4, <1>5, <3>1, <3>2
  <2>. QED
    BY <2>1, <2>2
<1>8. Ready'
  BY <1>1, <1>6, <1>7 DEF Ready
<1>. DEFINE Knows(u) == \/ pc[u] \in {"pass1", "move1"} /\ ~wait_current[u]
                        \/ pc[u] \in {"pass2", "move2"}
            Seen(u) == \A d \in task_dep[to_notify[u]] : d < k[u] => task_status[d] = DONE
<1>9. ASSUME NEW u \in Thread, Knows(u)' PROVE Seen(u)'
  <2>1. CASE u # t
    <3>1. Knows(u) /\ to_notify'[u] = to_notify[u] /\ k'[u] = k[u] /\ to_notify[u] \in Task
      BY <1>0, <1>1, <1>9, <2>1 DEF OthersKeep, ThreadShape, ShapeAt, Serving
    <3>2. Seen(u)
      BY <1>0, <3>1 DEF Examined
    <3>. QED
      BY <1>1, <1>2, <1>3, <3>1, <3>2
  <2>2. CASE u = t /\ (NextWatcher(t) \/ SecondPass(t))
    <3>1. k'[t] = 0 /\ to_notify'[t] = to_notify[t] /\ to_notify[t] \in Task
      BY <1>0, <2>2 DEF NextWatcher, SecondPass, ShapeAt, Serving, TypeOK
    <3>2. \A d \in task_dep[to_notify[t]] : ~(d < 0)
      BY <1>3, <3>1 DEF Task
    <3>. QED
      BY <1>1, <2>2, <3>1, <3>2
  <2>3. CASE u = t /\ LookWaiting(t)
    <3>. DEFINE d == Minimum(Remaining(t))
    <3>1. /\ to_notify[t] \in Task /\ d \in Task /\ d >= k[t]
          /\ \A x \in task_dep[to_notify[t]] : x < d => x < k[t]
      BY <1>0, <2>3, RemainingFacts DEF LookWaiting, Serving
    <3>. HIDE DEF d
    <3>2. to_notify' = to_notify /\ task_status' = task_status
      BY <2>3 DEF LookWaiting
    <3>3. /\ k'[t] = IF task_status[d] = WAITING THEN d ELSE d + 1
          /\ ~wait_current'[t] => ~wait_current[t] /\ task_status[d] \notin {AVAILABLE, INPROGRESS}
          /\ pc[t] = "pass1" /\ pc'[t] \in {"pass1", "move1"}
      BY <1>0, <2>3 DEF LookWaiting, Goto, TypeOK, d
    <3>4. ~wait_current'[t]
      BY <1>9, <2>3, <3>3
    <3>5. Seen(t)
      BY <1>0, <3>3, <3>4 DEF Examined
    <3>6. task_status[d] \in {WAITING, DONE}
      BY <1>0, <3>1, <3>3, <3>4 DEF TypeOK
    <3>7. \A x \in task_dep[to_notify[t]] :
              x < k'[t] => x < k[t] \/ (x = d /\ task_status[d] = DONE)
      <4>. TAKE x \in task_dep[to_notify[t]]
      <4>1. x \in Nat /\ d \in Nat
        BY <1>3, <3>1 DEF Task
      <4>2. x < d => x < k[t]
        BY <3>1
      <4>3. CASE task_status[d] = WAITING
        BY <3>3, <4>2, <4>3
      <4>4. CASE task_status[d] = DONE
        <5>1. k'[t] = d + 1
          BY <3>3, <4>4 DEF DONE, WAITING
        <5>. QED
          BY <4>1, <4>2, <4>4, <5>1
      <4>. QED
        BY <3>6, <4>3, <4>4
    <3>. QED
      BY <1>1, <2>3, <3>2, <3>5, <3>7
  <2>4. CASE u = t /\ LookUnfinished(t)
    <3>. DEFINE d == Minimum(Remaining(t))
    <3>1. /\ to_notify[t] \in Task /\ d \in Task /\ d >= k[t]
          /\ \A x \in task_dep[to_notify[t]] : x < d => x < k[t]
      BY <1>0, <2>4, RemainingFacts DEF LookUnfinished, Serving
    <3>. HIDE DEF d
    <3>2. to_notify' = to_notify /\ task_status' = task_status
      BY <2>4 DEF LookUnfinished
    <3>3. k'[t] = (IF task_status[d] # DONE THEN d ELSE d + 1) /\ pc[t] = "pass2"
      BY <1>0, <2>4 DEF LookUnfinished, TypeOK, d
    <3>4. Seen(t)
      BY <1>0, <3>3 DEF Examined
    <3>5. \A x \in task_dep[to_notify[t]] :
              x < k'[t] => x < k[t] \/ (x = d /\ task_status[d] = DONE)
      <4>. TAKE x \in task_dep[to_notify[t]]
      <4>1. x \in Nat /\ d \in Nat
        BY <1>3, <3>1 DEF Task
      <4>2. x < d => x < k[t]
        BY <3>1
      <4>. QED
        BY <3>3, <4>1, <4>2
    <3>. QED
      BY <1>1, <2>4, <3>2, <3>4, <3>5
  <2>5. CASE u = t /\ MoveTooLate(t)
    <3>1. /\ k[t] \in Task /\ to_notify[t] \in Task
          /\ k'[t] = k[t] + 1 /\ to_notify' = to_notify /\ task_status' = task_status
          /\ task_status[k[t]] = DONE
      BY <1>0, <2>5 DEF MoveTooLate, ShapeAt, Serving, TypeOK, Closed
    <3>2. Knows(t)
      BY <1>0, <1>9, <2>5 DEF MoveTooLate, Goto, TypeOK
    <3>3. Seen(t)
      BY <1>0, <3>2 DEF Examined
    <3>4. \A x \in task_dep[to_notify[t]] : x < k[t] + 1 => x < k[t] \/ x = k[t]
      BY <1>3, <3>1 DEF Task
    <3>. QED
      BY <1>1, <2>5, <3>1, <3>3, <3>4
  <2>6. CASE u = t /\ (TakeForwarded(t) \/ BeginScan(t) \/ CasTake(t) \/ Finish(t) \/ CloseList(t)
                       \/ EndTask(t) \/ MoveWatch(t) \/ Queue(t))
    BY <1>0, <1>9, <2>6
    DEF TakeForwarded, BeginScan, CasTake, Finish, CloseList, EndTask, MoveWatch, Queue, Goto, TypeOK
  <2>7. CASE u = t /\ (Scan(t) \/ CasFail(t))
    <3>1. pc'[t] \in {"cas", "scan", "get", "report"}
      BY <1>0, <2>7, ScanOnFacts DEF Scan, CasFail, Goto, ShapeAt, TypeOK
    <3>. QED
      BY <1>9, <2>7, <3>1
  <2>. QED
    BY <2>1, <2>2, <2>3, <2>4, <2>5, <2>6, <2>7 DEF NodePerf
<1>10. Examined'
  BY <1>9 DEF Examined
<1>. QED
  BY <1>8, <1>10


\* Running survives a step of t that keeps what the other performers rely on.
LEMMA RunningParts ==
    ASSUME Running, NEW t \in Thread, OthersKeep(t),
           pc'[t] = "run" => task_status'[which_task'[t]] = INPROGRESS,
           pc'[t] = "swap" => task_status'[which_task'[t]] = DONE
                              /\ task_watch'[which_task'[t]] # DoNotRead,
           \A u \in Thread \ {t} :
              /\ pc[u] = "run" => task_status'[which_task[u]] = INPROGRESS
              /\ pc[u] = "swap" => task_status'[which_task[u]] = DONE
                                   /\ task_watch'[which_task[u]] # DoNotRead
              /\ pc[u] \in {"run", "swap"} /\ pc'[t] \in {"run", "swap"}
                    => which_task[u] # which_task'[t]
    PROVE  Running'
<1>1. \A u \in Thread \ {t} : pc'[u] = pc[u] /\ which_task'[u] = which_task[u]
  BY DEF OthersKeep
<1>2. ASSUME NEW u \in Thread
      PROVE  /\ pc'[u] = "run" => task_status'[which_task'[u]] = INPROGRESS
             /\ pc'[u] = "swap" => task_status'[which_task'[u]] = DONE
                                   /\ task_watch'[which_task'[u]] # DoNotRead
  <2>1. CASE u = t
    BY <2>1
  <2>2. CASE u # t
    BY <1>1, <2>2
  <2>. QED
    BY <2>1, <2>2
<1>3. ASSUME NEW u \in Thread, NEW v \in Thread, u # v,
             pc'[u] \in {"run", "swap"}, pc'[v] \in {"run", "swap"}
      PROVE  which_task'[u] # which_task'[v]
  <2>1. CASE u # t /\ v # t
    BY <1>1, <1>3, <2>1 DEF Running
  <2>2. CASE u = t
    BY <1>1, <1>3, <2>2
  <2>3. CASE v = t
    BY <1>1, <1>3, <2>3
  <2>. QED
    BY <2>1, <2>2, <2>3
<1>. QED
  BY <1>2, <1>3 DEF Running

\* A step of node_perf keeps who performs a task, and how often it was performed.
LEMMA RunningStep ==
    ASSUME IInv, NEW t \in Thread, NodePerf(t)
    PROVE  Running' /\ Closed' /\ RanOnce'
<1>. USE DEF chainVars, dagVars, flagVars, taskVars, scanVars, notifyVars
<1>0. /\ TypeOK /\ ThreadShape /\ ShapeAt(t) /\ Running /\ Closed /\ RanOnce /\ PointedWaits
      /\ Active \subseteq Task
  <2>1. Active \subseteq Task
    BY BoundsAssumption DEF IInv, TypeOK, Active, num_active, Task
  <2>. QED
    BY <2>1 DEF IInv, ThreadShape
<1>1. OthersKeep(t)
  BY <1>0, NodePerfFrame
<1>2. CASE TakeForwarded(t) \/ CasTake(t)
  <2>1. PICK n \in Task :
          /\ task_status[n] \in {WAITING, AVAILABLE}
          /\ task_status' = [task_status EXCEPT ![n] = INPROGRESS]
          /\ which_task'[t] = n /\ pc'[t] = "run"
    <3>1. CASE TakeForwarded(t)
      <4>1. next_task[t] \in Task /\ task_status[next_task[t]] = WAITING
        BY <3>1, StatusStep DEF TakeForwarded, CasTake, Finish, Queue, Serving
      <4>. QED
        BY <1>0, <3>1, <4>1 DEF TakeForwarded, Goto, TypeOK
    <3>2. CASE CasTake(t)
      <4>1. pos[t] \in Task /\ task_status[pos[t]] = AVAILABLE
        BY <1>0, <3>2 DEF CasTake, TypeOK
      <4>. QED
        BY <1>0, <3>2, <4>1 DEF CasTake, Goto, TypeOK
    <3>. QED
      BY <1>2, <3>1, <3>2
  <2>2. task_watch' = task_watch /\ ran' = ran
    BY <1>2 DEF TakeForwarded, CasTake
  <2>3. \A u \in Thread : pc[u] \in {"run", "swap"} => which_task[u] # n
    BY <1>0, <2>1 DEF Running, DONE, INPROGRESS, WAITING, AVAILABLE
  <2>4. Running'
    <3>1. \A u \in Thread \ {t} : pc[u] \in {"run", "swap"} =>
              task_status'[which_task[u]] = task_status[which_task[u]]
      BY <1>0, <2>1, <2>3 DEF TypeOK
    <3>2. task_status'[which_task'[t]] = INPROGRESS
      BY <1>0, <2>1 DEF TypeOK
    <3>3. \A u \in Thread \ {t} :
              /\ pc[u] = "run" => task_status'[which_task[u]] = INPROGRESS
              /\ pc[u] = "swap" => task_status'[which_task[u]] = DONE
                                   /\ task_watch'[which_task[u]] # DoNotRead
              /\ pc[u] \in {"run", "swap"} => which_task[u] # which_task'[t]
      BY <1>0, <2>1, <2>2, <2>3, <3>1 DEF Running
    <3>. QED
      BY <1>0, <1>1, <2>1, <3>2, <3>3, RunningParts
  <2>5. Closed' /\ RanOnce'
    BY <1>0, <2>1, <2>2
    DEF Closed, RanOnce, TypeOK, DONE, INPROGRESS, WAITING, AVAILABLE
  <2>. QED
    BY <2>4, <2>5
<1>3. CASE Finish(t)
  <2>. DEFINE n == which_task[t]
  <2>1. /\ n \in Task /\ task_status[n] = INPROGRESS /\ pc[t] = "run" /\ pc'[t] = "swap"
        /\ task_status' = [task_status EXCEPT ![n] = DONE]
        /\ ran' = [ran EXCEPT ![n] = @ + 1]
        /\ which_task' = which_task /\ task_watch' = task_watch
    BY <1>0, <1>3 DEF Finish, Running, Goto, TypeOK
  <2>. HIDE DEF n
  <2>2. task_watch[n] # DoNotRead /\ ran[n] = 0
    BY <1>0, <2>1 DEF Closed, RanOnce, DONE, INPROGRESS
  <2>3. Running'
    <3>1. \A u \in Thread \ {t} : pc[u] \in {"run", "swap"} => which_task[u] # n
      BY <1>0, <2>1 DEF Running, n
    <3>. QED
      <4>1. \A u \in Thread \ {t} : pc[u] \in {"run", "swap"} =>
                task_status'[which_task[u]] = task_status[which_task[u]]
        BY <1>0, <2>1, <3>1 DEF TypeOK
      <4>2. /\ which_task'[t] = n /\ task_status'[n] = DONE /\ task_watch'[n] # DoNotRead
        BY <1>0, <2>1, <2>2 DEF TypeOK, n
      <4>3. \A u \in Thread \ {t} :
                /\ pc[u] = "run" => task_status'[which_task[u]] = INPROGRESS
                /\ pc[u] = "swap" => task_status'[which_task[u]] = DONE
                                     /\ task_watch'[which_task[u]] # DoNotRead
                /\ pc[u] \in {"run", "swap"} => which_task[u] # which_task'[t]
        BY <1>0, <2>1, <3>1, <4>1, <4>2 DEF Running
      <4>. QED
        BY <1>0, <1>1, <2>1, <4>2, <4>3, RunningParts
  <2>4. Closed' /\ RanOnce'
    BY <1>0, <2>1, <2>2 DEF Closed, RanOnce, TypeOK
  <2>. QED
    BY <2>3, <2>4
<1>4. CASE CloseList(t)
  <2>. DEFINE n == which_task[t]
  <2>1. /\ n \in Task /\ task_status[n] = DONE /\ pc[t] = "swap" /\ pc'[t] = "walk"
        /\ task_watch' = [task_watch EXCEPT ![n] = DoNotRead]
        /\ UNCHANGED <<task_status, ran, which_task>>
    BY <1>0, <1>4 DEF CloseList, Running, Goto, TypeOK
  <2>. HIDE DEF n
  <2>2. \A u \in Thread \ {t} : pc[u] \in {"run", "swap"} => which_task[u] # n
    BY <1>0, <2>1 DEF Running, n
  <2>3. Running'
    <3>1. \A u \in Thread \ {t} :
              /\ pc[u] = "run" => task_status'[which_task[u]] = INPROGRESS
              /\ pc[u] = "swap" => task_status'[which_task[u]] = DONE
                                   /\ task_watch'[which_task[u]] # DoNotRead
      BY <1>0, <2>1, <2>2 DEF Running, TypeOK
    <3>. QED
      BY <1>0, <1>1, <2>1, <3>1, RunningParts
  <2>4. Closed' /\ RanOnce'
    BY <1>0, <2>1 DEF Closed, RanOnce, TypeOK
  <2>. QED
    BY <2>3, <2>4
<1>5. CASE MoveWatch(t)
  <2>1. /\ to_notify[t] \in Task /\ k[t] \in Task /\ pc'[t] = "walk"
        /\ task_watch' = [task_watch EXCEPT ![k[t]] = to_notify[t]]
        /\ UNCHANGED <<task_status, ran, which_task>>
    BY <1>0, <1>5 DEF MoveWatch, ShapeAt, Serving, Goto, TypeOK
  <2>2. to_notify[t] # DoNotRead
    BY <2>1, NullIsNoTask
  <2>3. \A i \in Task : task_watch'[i] = DoNotRead => task_watch[i] = DoNotRead
    BY <1>0, <2>1, <2>2 DEF TypeOK
  <2>4. Running'
    <3>1. \A u \in Thread \ {t} :
              /\ pc[u] = "run" => task_status'[which_task[u]] = INPROGRESS
              /\ pc[u] = "swap" => task_status'[which_task[u]] = DONE
                                   /\ task_watch'[which_task[u]] # DoNotRead
      BY <1>0, <2>1, <2>3 DEF Running, TypeOK
    <3>. QED
      BY <1>0, <1>1, <2>1, <3>1, RunningParts
  <2>5. Closed' /\ RanOnce'
    BY <1>0, <2>1, <2>3 DEF Closed, RanOnce, TypeOK
  <2>. QED
    BY <2>4, <2>5
<1>6. CASE Queue(t)
  <2>1. /\ pc'[t] = "walk" /\ UNCHANGED <<task_watch, ran, which_task>>
        /\ \A i \in Task : task_status[i] # WAITING => task_status'[i] = task_status[i]
    <3>1. CurOf[t] = to_notify[t] /\ to_notify[t] \in Task
      BY <1>0, <1>6 DEF Queue, ShapeAt, Serving, CurOf
    <3>2. task_status[to_notify[t]] = WAITING
      BY <1>0, <3>1 DEF PointedWaits, Refers
    <3>. QED
      BY <1>0, <1>6, <3>1, <3>2 DEF Queue, Goto, TypeOK
  <2>2. Running'
    <3>1. \A u \in Thread \ {t} :
              /\ pc[u] = "run" => task_status'[which_task[u]] = INPROGRESS
              /\ pc[u] = "swap" => task_status'[which_task[u]] = DONE
                                   /\ task_watch'[which_task[u]] # DoNotRead
      BY <1>0, <2>1 DEF Running, TypeOK, DONE, INPROGRESS, WAITING
    <3>. QED
      BY <1>0, <1>1, <2>1, <3>1, RunningParts
  <2>3. Closed' /\ RanOnce'
    BY <1>0, <2>1 DEF Closed, RanOnce, TypeOK, DONE, WAITING
  <2>. QED
    BY <2>2, <2>3
<1>7. CASE Scan(t) \/ CasFail(t)
  <2>1. pc'[t] \in {"cas", "scan", "get", "report"}
        /\ UNCHANGED <<task_status, task_watch, ran, which_task>>
    BY <1>0, <1>7, ScanOnFacts DEF Scan, CasFail, Goto, ShapeAt, TypeOK
  <2>. QED
    BY <1>0, <1>1, <2>1 DEF Running, Closed, RanOnce, OthersKeep
<1>8. CASE BeginScan(t) \/ NextWatcher(t) \/ EndTask(t) \/ LookWaiting(t) \/ SecondPass(t)
           \/ LookUnfinished(t) \/ MoveTooLate(t)
  <2>1. pc'[t] \notin {"run", "swap"} /\ UNCHANGED <<task_status, task_watch, ran, which_task>>
    BY <1>0, <1>8
    DEF BeginScan, NextWatcher, EndTask, LookWaiting, SecondPass, LookUnfinished, MoveTooLate,
        Goto, TypeOK
  <2>. QED
    BY <1>0, <1>1, <2>1 DEF Running, Closed, RanOnce, OthersKeep
<1>. QED
  BY <1>2, <1>3, <1>4, <1>5, <1>6, <1>7, <1>8 DEF NodePerf

\* The start of a control period establishes these conjuncts anew.
LEMMA ReadySetup ==
    ASSUME IInv, StartCycle
    PROVE  Ready' /\ Examined' /\ Running' /\ Closed' /\ RanOnce'
<1>0. /\ TypeOK /\ Handshake /\ Thread = Worker \cup {0} /\ 0 \in Thread
  BY ThreadsAssumption DEF IInv, Thread, Worker
<1>1. /\ task_dep' \in [Task -> SUBSET Task]
      /\ task_status' \in [Task -> {DONE, AVAILABLE, WAITING}]
      /\ \A j \in Task : task_status'[j] = WAITING <=> task_dep'[j] # {}
      /\ task_watch' = FirstLists(task_dep')
      /\ Len(task_map') \in Nat /\ Len(task_map') <= MaxActive
  BY SetupFacts DEF StartCycle, IInv
<1>2. \A t \in Thread : pc'[t] \in {"idle", "release"}
  BY <1>0 DEF StartCycle, Goto, TypeOK, Handshake, WorkersParked
<1>3. \A t \in Thread : FwdOf'[t] = NULL
  BY PointerSetup
<1>4. Active' \subseteq Task
  BY <1>1, BoundsAssumption DEF Active, num_active, Task
<1>5. Ready'
  BY <1>1, <1>3, <1>4, NullIsNoTask DEF Ready, DepsDone
<1>6. Examined' /\ Running'
  BY <1>2 DEF Examined, Running
<1>7. \A i \in Task : task_watch'[i] # DoNotRead
  <2>1. \A i \in Task : task_watch'[i] \in Task \cup {NULL}
    BY <1>1, ListHeads
  <2>2. DoNotRead # NULL
    BY DEF DoNotRead, NULL
  <2>. QED
    BY <2>1, <2>2, NullIsNoTask
<1>8. Closed' /\ RanOnce'
  BY <1>7 DEF Closed, RanOnce, StartCycle
<1>. QED
  BY <1>5, <1>6, <1>8

\* The other steps keep all of this.
LEMMA ReadyOther ==
    ASSUME IInv, NEW t \in Thread, OtherStep(t)
    PROVE  Ready' /\ Examined' /\ Running' /\ Closed' /\ RanOnce'
<1>0. Ready /\ Examined /\ Running /\ Closed /\ RanOnce
      /\ OthersKeep(t) /\ UNCHANGED <<dagVars, ran>>
  BY DEF IInv, OtherStep
<1>1. UNCHANGED <<task_map, task_dep, task_status, task_watch, ran>>
  BY <1>0 DEF dagVars
<1>2. FwdOf' = FwdOf
  BY PointerOther
<1>3. Ready'
  BY <1>0, <1>1, <1>2 DEF Ready, DepsDone, Active, num_active
<1>4. \A u \in Thread : \/ UNCHANGED <<pc[u], which_task[u], to_notify[u], k[u], wait_current[u]>>
                        \/ pc'[u] \in Outside
  BY <1>0 DEF OtherStep, OthersKeep, taskVars, notifyVars
<1>5. Examined'
  BY <1>0, <1>1, <1>4 DEF Examined, Outside
<1>6. Running'
  BY <1>0, <1>1, <1>4 DEF Running, Outside
<1>7. Closed' /\ RanOnce'
  BY <1>0, <1>1 DEF Closed, RanOnce
<1>. QED
  BY <1>3, <1>5, <1>6, <1>7

-----------------------------------------------------------------------------
(***************************************************************************)
(* The theorems                                                            *)
(***************************************************************************)

\* The invariant holds at the start ...
LEMMA InitIInv == Init => IInv
<1>. SUFFICES ASSUME Init PROVE IInv
  OBVIOUS
<1>0. 0 \in Thread /\ Worker \subseteq Thread /\ 0 \in Task
  BY ThreadsAssumption, BoundsAssumption DEF Thread, Worker, Task
<1>1. TypeOK
  <2>1. <<>> \in Seq(Instr) /\ Len(<<>>) = 0 /\ 0 <= MaxActive /\ 0 \in 0..MaxActive
    BY BoundsAssumption, EmptySeq
  <2>2. 0 \in 0..MaxCycles /\ 0 \in Nat
    BY BoundsAssumption
  <2>. QED
    BY <1>0, <2>1, <2>2 DEF Init, TypeOK, Label
<1>2. InsertShape /\ Handshake /\ GraphExists
  BY <1>0 DEF Init, InsertShape, Handshake, WorkersParked, GraphExists
<1>3. ThreadShape /\ Examined /\ Running
  BY DEF Init, ThreadShape, ShapeAt, Serving, Examined, Running
<1>4. num_active = 0 /\ Active = {}
  BY EmptySeq DEF Init, Active, num_active
<1>5. GraphShape
  BY <1>4 DEF Init, GraphShape
<1>6. /\ \A i \in Task : task_watch[i] = NULL /\ LinkOf[i] = NULL
      /\ \A t \in Thread : CurOf[t] = NULL /\ NxtOf[t] = NULL /\ FwdOf[t] = NULL
  BY DEF Init, LinkOf, Linked, CurOf, NxtOf, FwdOf, Holding, Serving
<1>7. /\ DOMAIN task_watch = Task /\ DOMAIN LinkOf = Task /\ DOMAIN CurOf = Thread
      /\ DOMAIN NxtOf = Thread /\ DOMAIN FwdOf = Thread
  BY DEF Init, LinkOf, CurOf, NxtOf, FwdOf
<1>8. OnePointer
  BY <1>6, <1>7, NullIsNoTask DEF OnePointer, Once, Inj, Apart
<1>9. PointedWaits
  BY <1>6, NullIsNoTask DEF PointedWaits, Refers
<1>10. Ready
  BY <1>4, <1>6, NullIsNoTask DEF Ready
<1>11. Closed /\ RanOnce
  BY DEF Init, Closed, RanOnce
<1>. QED
  BY <1>1, <1>2, <1>3, <1>5, <1>8, <1>9, <1>10, <1>11 DEF IInv

\* ... is kept by every step ...
LEMMA NextIInv == IInv /\ Next => IInv'
<1>. SUFFICES ASSUME IInv, Next PROVE IInv'
  OBVIOUS
<1>1. TypeOK' /\ InsertShape' /\ Handshake' /\ GraphExists' /\ ThreadShape' /\ GraphShape'
  BY TypeStep, InsertShapeStep, HandshakeStep, GraphExistsStep, ThreadShapeStep, GraphShapeStep
<1>2. /\ OnePointer' /\ PointedWaits'
      /\ Ready' /\ Examined' /\ Running' /\ Closed' /\ RanOnce'
  <2>1. CASE StartCycle
    BY <2>1, PointerSetup, ReadySetup
  <2>2. CASE \E t \in Thread : NodePerf(t)
    BY <2>2, PointerStep, ReadyStep, RunningStep
  <2>3. CASE ~StartCycle /\ \A t \in Thread : ~NodePerf(t)
    <3>1. PICK t \in Thread : OtherStep(t)
      BY <2>3, OtherSteps
    <3>. QED
      BY <3>1, PointerOther, ReadyOther
  <2>. QED
    BY <2>1, <2>2, <2>3
<1>. QED
  BY <1>1, <1>2 DEF IInv

\* ... and by stuttering.
LEMMA StutterIInv == IInv /\ UNCHANGED vars => IInv'
<1>. SUFFICES ASSUME IInv, UNCHANGED vars PROVE IInv'
  OBVIOUS
<1>. USE DEF vars, chainVars, dagVars, flagVars, taskVars, scanVars, notifyVars
<1>1. TypeOK' /\ InsertShape' /\ Handshake' /\ GraphExists' /\ ThreadShape' /\ GraphShape'
  BY DEF IInv, TypeOK, InsertShape, Handshake, WorkersParked, GraphExists, ThreadShape, ShapeAt,
         GraphShape, Active, num_active, TaskInstr
<1>2. OthersKeep(0) /\ 0 \in Thread /\ FwdOf' = FwdOf /\ OtherStep(0)
  BY ThreadsAssumption DEF OthersKeep, OtherStep, FwdOf, Thread
<1>3. /\ OnePointer' /\ PointedWaits'
      /\ Ready' /\ Examined' /\ Running' /\ Closed' /\ RanOnce'
  BY <1>2, PointerOther, ReadyOther
<1>. QED
  BY <1>1, <1>3 DEF IInv

\* The strengthened invariant holds throughout every execution of the
\* dispatcher of cs_new_dispatch.c.
THEOREM Invariance == Spec => []IInv
<1>1. IInv /\ [Next]_vars => IInv'
  BY NextIInv, StutterIInv
<1>. QED
  BY InitIInv, <1>1, PTL DEF Spec

\* The variables of dag_build, dag_get_task, dag_end_task and the handshake of
\* kperf keep their types: every index that is used is an index of the arrays.
THEOREM TypeCorrect == Spec => []TypeOK
<1>1. IInv => TypeOK
  BY DEF IInv
<1>. QED
  BY Invariance, <1>1, PTL

\* The parallel period respects the order of the chain among conflicting
\* instances, for every number of threads and every orchestra.
THEOREM InOrder == Spec => []ConflictsInOrder
<1>1. IInv => ConflictsInOrder
  <2>. SUFFICES ASSUME IInv, NEW j \in Busy, NEW i \in 0..(j - 1),
                       Conflict(TaskInstr(i), TaskInstr(j))
                PROVE  task_status[i] = DONE
    BY DEF ConflictsInOrder
  <2>1. j \in Active /\ task_status[j] # WAITING
    BY DEF Busy, DONE, INPROGRESS, WAITING
  <2>2. i \in task_dep[j]
    BY <2>1 DEF IInv, GraphShape
  <2>. QED
    BY <2>1, <2>2 DEF IInv, Ready, DepsDone
<1>. QED
  BY Invariance, <1>1, PTL

\* No instance is performed twice in a control period, neither one after the
\* other nor by two threads at once, whatever way dag_get_task's scan, its
\* compare-and-swap and the tasks forwarded by dag_end_task interleave.
THEOREM PerformedOnce == Spec => []NoTaskTwice
<1>1. IInv => NoTaskTwice
  BY DEF IInv, RanOnce, Running, NoTaskTwice
<1>. QED
  BY Invariance, <1>1, PTL

\* The graph is rebuilt, and the buffers are mixed, only while no worker is
\* inside node_perf: the flag handshake of kperf and kperf_thread is a barrier.
THEOREM Parked == Spec => []WorkersParked
<1>1. IInv => WorkersParked
  BY DEF IInv, Handshake
<1>. QED
  BY Invariance, <1>1, PTL

-----------------------------------------------------------------------------
(***************************************************************************)
(* Nothing is left behind                                                  *)
(*                                                                         *)
(* A thread leaves dag_get_task for good only after a full turn of the     *)
(* scan in which every task was in progress or done; such tasks never go   *)
(* back.  So when the performance thread mixes, no task is unstarted, and  *)
(* none is in progress because every worker is parked (CycleComplete, and  *)
(* with it the refinement of TaskGraph).  This needs the compare-and-swap  *)
(* to fail only when the task was taken: ~WeakCAS.                         *)
(*                                                                         *)
(* That a waiting task is always found again (NoLostWakeup) is the         *)
(* converse of OnePointer: each waiting task is referred to from at least  *)
(* one place, and the links between entries form no cycle.                 *)
(***************************************************************************)

Taken == {INPROGRESS, DONE}

\* The scan of t has gone past task i since it began at ScanStart(t).
Passed(t, i) ==
    IF ScanStart(t) <= pos[t] THEN ScanStart(t) <= i /\ i < pos[t]
    ELSE ScanStart(t) <= i \/ i < pos[t]

\* A scan that met no waiting task met only tasks that are taken by now.
ScanSeenBy(t) ==
    /\ pc[t] = "cas" => task_status[pos[t]] # WAITING
    /\ pc[t] \in {"scan", "cas"} /\ ~waiting[t]
          => \A i \in Active : Passed(t, i) => task_status[i] \in Taken
ScanSeen == \A t \in Thread : ScanSeenBy(t)

\* When the performance thread has left node_perf, every task is taken.
Settled == pc[0] \in {"report", "mix", "idle"} => \A i \in Task : task_status[i] \in Taken

\* A task in progress is performed by some thread.
Owned == \A i \in Task : task_status[i] = INPROGRESS =>
            \E t \in Thread : pc[t] = "run" /\ which_task[t] = i

\* Entries past the chain are done; the done tasks of the chain were performed.
DoneCounts ==
    /\ \A i \in Task : i >= num_active => task_status[i] = DONE
    /\ \A i \in Active : task_status[i] = DONE => ran[i] = 1

CInv == ScanSeen /\ Settled /\ Owned /\ DoneCounts

-----------------------------------------------------------------------------

\* The types of the words that this module reasons about.
LEMMA StatusTypes ==
    ASSUME TypeOK
    PROVE  /\ task_status \in [Task -> {DONE, INPROGRESS, AVAILABLE, WAITING}]
           /\ Active \subseteq Task /\ num_active \in Nat
           /\ \A i \in Task : i \in Active <=> i < num_active
           /\ 0 \in Thread
<1>1. task_status \in [Task -> {DONE, INPROGRESS, AVAILABLE, WAITING}]
  BY DEF TypeOK
<1>2. num_active \in Nat /\ num_active <= MaxActive /\ MaxActive \in Nat
  BY BoundsAssumption DEF TypeOK, num_active
<1>3. Active \subseteq Task /\ \A i \in Task : i \in Active <=> i < num_active
  BY <1>2 DEF Active, Task
<1>. QED
  BY <1>1, <1>2, <1>3, ThreadsAssumption DEF Thread

\* A task that is taken stays taken, and no task waits again.
LEMMA TakenStays ==
    ASSUME IInv, NEW t \in Thread, NodePerf(t)
    PROVE  \A i \in Task : /\ task_status[i] \in Taken => task_status'[i] \in Taken
                           /\ task_status[i] # WAITING => task_status'[i] # WAITING
<1>. USE DEF DONE, INPROGRESS, AVAILABLE, WAITING, Taken
<1>0. task_status \in [Task -> {DONE, INPROGRESS, AVAILABLE, WAITING}]
  BY DEF IInv, TypeOK
<1>1. CASE UNCHANGED task_status
  BY <1>1
<1>2. CASE TakeForwarded(t) /\ task_status[next_task[t]] = WAITING
  BY <1>0, <1>2 DEF TakeForwarded
<1>3. CASE CasTake(t) /\ task_status[pos[t]] = AVAILABLE
  BY <1>0, <1>3 DEF CasTake
<1>4. CASE Finish(t)
  BY <1>0, <1>4 DEF Finish
<1>5. CASE Queue(t) /\ next_task[t] # INVALID /\ task_status[to_notify[t]] = WAITING
  BY <1>0, <1>5 DEF Queue
<1>. QED
  BY <1>1, <1>2, <1>3, <1>4, <1>5, StatusStep

\* Nor does a step of one thread touch the scan of another.
LEMMA WaitingKept ==
    ASSUME TypeOK, NEW t \in Thread, NodePerf(t)
    PROVE  /\ \A u \in Thread \ {t} : waiting'[u] = waiting[u]
           /\ BeginScan(t) \/ Scan(t) \/ CasFail(t) \/ UNCHANGED <<pos, waiting>>
<1>. USE DEF chainVars, dagVars, flagVars, taskVars, scanVars, notifyVars
<1>1. CASE BeginScan(t)
  BY <1>1 DEF BeginScan, TypeOK
<1>2. CASE Scan(t) \/ CasFail(t)
  BY <1>2 DEF Scan, CasFail, ScanOn, TypeOK
<1>3. CASE ~(BeginScan(t) \/ Scan(t) \/ CasFail(t))
  BY <1>3 DEF NodePerf, TakeForwarded, CasTake, Finish, CloseList, NextWatcher, EndTask,
     LookWaiting, SecondPass, LookUnfinished, MoveWatch, MoveTooLate, Queue
<1>. QED
  BY <1>1, <1>2, <1>3

\* One step of the scan past a task that is taken: either one more task is
\* passed, or the turn is complete and every task is taken or some task waited.
LEMMA ScanOnSeen ==
    ASSUME TypeOK, NEW t \in Thread, pos[t] \in Active, NEW w \in BOOLEAN, ScanOn(t, w),
           UNCHANGED <<task_map, task_status>>,
           ~w => /\ task_status[pos[t]] \in Taken
                 /\ \A i \in Active : Passed(t, i) => task_status[i] \in Taken
    PROVE  /\ waiting'[t] = w /\ pc'[t] \in {"scan", "get", "report"}
           /\ pc'[t] = "scan" /\ ~w
                 => \A i \in Active : Passed(t, i)' => task_status[i] \in Taken
           /\ pc'[t] = "report" => \A i \in Active : task_status[i] \in Taken
<1>. DEFINE i0 == IF pos[t] + 1 = num_active THEN 0 ELSE pos[t] + 1
            s == ScanStart(t)
            p == pos[t]
            n == num_active
<1>1. n \in Nat /\ n > 0 /\ p \in 0..(n - 1) /\ Active = 0..(n - 1) /\ task_map # <<>>
      /\ task_map \in Seq(Instr)
  BY DEF TypeOK, num_active, Active
<1>2. s \in 0..(n - 1)
  BY <1>1, ScanStartInRange
<1>3. /\ pos'[t] = i0 /\ waiting'[t] = w
      /\ pc'[t] = IF i0 # s THEN "scan" ELSE IF w THEN "get" ELSE "report"
  BY DEF ScanOn, Goto, TypeOK
<1>4. ScanStart(t)' = s
  BY DEF ScanStart, num_active
<1>5. \A i \in 0..(n - 1) :
        Passed(t, i) <=> IF s <= p THEN s <= i /\ i < p ELSE s <= i \/ i < p
  BY DEF Passed
<1>6. \A i \in 0..(n - 1) :
        Passed(t, i)' <=> IF s <= i0 THEN s <= i /\ i < i0 ELSE s <= i \/ i < i0
  BY <1>3, <1>4 DEF Passed
<1>7. i0 = IF p + 1 = n THEN 0 ELSE p + 1
  OBVIOUS
<1>. HIDE DEF i0, s, p, n
<1>8. ASSUME i0 # s, NEW i \in 0..(n - 1), Passed(t, i)' PROVE i = p \/ Passed(t, i)
  BY <1>1, <1>2, <1>5, <1>6, <1>7, <1>8
<1>9. ASSUME i0 = s, NEW i \in 0..(n - 1) PROVE i = p \/ Passed(t, i)
  BY <1>1, <1>2, <1>5, <1>7, <1>9
<1>. QED
  BY <1>1, <1>3, <1>8, <1>9 DEF p

\* The scan invariant of the stepping thread.
LEMMA ScanSeenOwn ==
    ASSUME IInv, CInv, ~WeakCAS, NEW t \in Thread, NodePerf(t)
    PROVE  /\ ScanSeenBy(t)'
           /\ pc'[t] = "report" => \A i \in Active : task_status'[i] \in Taken
<1>. USE DEF chainVars, dagVars, flagVars, taskVars, scanVars, notifyVars
<1>0. TypeOK /\ ShapeAt(t) /\ ScanSeenBy(t) /\ Active \subseteq Task
      /\ task_status \in [Task -> {DONE, INPROGRESS, AVAILABLE, WAITING}]
  BY StatusTypes DEF IInv, ThreadShape, CInv, ScanSeen
<1>1. task_map' = task_map /\ Active' = Active
  BY NodePerfFrame DEF IInv, Active, num_active
<1>2. CASE BeginScan(t)
  <2>1. pos'[t] = ScanStart(t)' /\ pc'[t] = "scan" /\ ScanStart(t)' \in Int
    <3>1. task_map # <<>>
      BY <1>2, <1>0 DEF BeginScan, IInv, GraphExists
    <3>2. ScanStart(t) \in Active
      BY <1>0, <3>1, ScanStartInRange DEF TypeOK
    <3>3. ScanStart(t)' = ScanStart(t)
      BY <1>1 DEF ScanStart, num_active
    <3>. QED
      BY <1>0, <1>2, <3>2, <3>3 DEF BeginScan, Goto, TypeOK, Active
  <2>2. \A i \in Active : ~Passed(t, i)'
    BY <2>1 DEF Passed, Active
  <2>. QED
    BY <1>1, <2>1, <2>2 DEF ScanSeenBy
<1>3. CASE Scan(t) /\ task_status[pos[t]] = AVAILABLE
  <2>1. pc'[t] = "cas" /\ pos' = pos /\ waiting' = waiting /\ task_status' = task_status
    BY <1>0, <1>3 DEF Scan, Goto, TypeOK
  <2>2. \A i \in Active : Passed(t, i)' <=> Passed(t, i)
    BY <1>1, <2>1 DEF Passed, ScanStart, num_active
  <2>. QED
    BY <1>0, <1>1, <1>3, <2>1, <2>2 DEF ScanSeenBy, Scan, AVAILABLE, WAITING
<1>4. ASSUME NEW w \in BOOLEAN, ScanOn(t, w), pos[t] \in Active, UNCHANGED task_status,
             ~w => /\ task_status[pos[t]] \in Taken
                   /\ \A i \in Active : Passed(t, i) => task_status[i] \in Taken
      PROVE  /\ ScanSeenBy(t)'
             /\ pc'[t] = "report" => \A i \in Active : task_status'[i] \in Taken
  <2>1. /\ waiting'[t] = w /\ pc'[t] \in {"scan", "get", "report"}
        /\ pc'[t] = "scan" /\ ~w
              => \A i \in Active : Passed(t, i)' => task_status[i] \in Taken
        /\ pc'[t] = "report" => \A i \in Active : task_status[i] \in Taken
    BY <1>0, <1>1, <1>4, ScanOnSeen
  <2>. QED
    BY <1>1, <1>4, <2>1 DEF ScanSeenBy
<1>5. CASE Scan(t) /\ task_status[pos[t]] # AVAILABLE
  <2>. DEFINE w == waiting[t] \/ task_status[pos[t]] = WAITING
  <2>1. w \in BOOLEAN /\ ScanOn(t, w) /\ pos[t] \in Active /\ UNCHANGED task_status
    BY <1>0, <1>5 DEF Scan, ShapeAt
  <2>2. ~w => /\ task_status[pos[t]] \in Taken
              /\ \A i \in Active : Passed(t, i) => task_status[i] \in Taken
    <3>1. pc[t] = "scan" /\ pos[t] \in Task
      BY <1>0, <1>5 DEF Scan, TypeOK
    <3>. QED
      BY <1>0, <1>5, <3>1 DEF ScanSeenBy, Taken
  <2>. HIDE DEF w
  <2>. QED
    BY <1>4, <2>1, <2>2
<1>6. CASE CasFail(t)
  <2>. DEFINE w == waiting[t]
  <2>1. w \in BOOLEAN /\ ScanOn(t, w) /\ pos[t] \in Active /\ UNCHANGED task_status
    BY <1>0, <1>6 DEF CasFail, ShapeAt, TypeOK
  <2>2. ~w => /\ task_status[pos[t]] \in Taken
              /\ \A i \in Active : Passed(t, i) => task_status[i] \in Taken
    <3>1. pc[t] = "cas" /\ pos[t] \in Task /\ task_status[pos[t]] # AVAILABLE
      BY <1>0, <1>6 DEF CasFail, TypeOK
    <3>2. task_status[pos[t]] # WAITING
      BY <1>0, <3>1 DEF ScanSeenBy
    <3>. QED
      BY <1>0, <3>1, <3>2 DEF ScanSeenBy, Taken
  <2>. HIDE DEF w
  <2>. QED
    BY <1>4, <2>1, <2>2
<1>7. CASE ~(BeginScan(t) \/ Scan(t) \/ CasFail(t))
  <2>1. pc'[t] \notin {"scan", "cas", "report"}
    BY <1>0, <1>7 DEF NodePerf, TakeForwarded, CasTake, Finish, CloseList, NextWatcher, EndTask,
       LookWaiting, SecondPass, LookUnfinished, MoveWatch, MoveTooLate, Queue, Goto, TypeOK
  <2>. QED
    BY <2>1 DEF ScanSeenBy
<1>. QED
  BY <1>2, <1>3, <1>5, <1>6, <1>7

\* A step inside node_perf preserves the invariant.
LEMMA CInvNodePerf ==
    ASSUME IInv, CInv, ~WeakCAS, NEW t \in Thread, NodePerf(t)
    PROVE  CInv'
<1>. USE DEF chainVars, dagVars, flagVars, taskVars, scanVars, notifyVars
<1>0. /\ TypeOK /\ ShapeAt(t) /\ Active \subseteq Task /\ num_active \in Nat
      /\ \A i \in Task : i \in Active <=> i < num_active
      /\ task_status \in [Task -> {DONE, INPROGRESS, AVAILABLE, WAITING}]
      /\ 0 \in Thread
  BY StatusTypes DEF IInv, ThreadShape
<1>1. /\ task_map' = task_map /\ Active' = Active /\ num_active' = num_active /\ OthersKeep(t)
      /\ pc[t] \notin {"idle", "release", "mix", "report"}
      /\ pc'[t] \notin {"idle", "release", "mix"}
  BY NodePerfFrame DEF IInv, Active, num_active
<1>2. \A i \in Task : /\ task_status[i] \in Taken => task_status'[i] \in Taken
                      /\ task_status[i] # WAITING => task_status'[i] # WAITING
  BY TakenStays
<1>3. ScanSeen'
  <2>1. ASSUME NEW u \in Thread \ {t} PROVE ScanSeenBy(u)'
    <3>1. pc'[u] = pc[u] /\ pos'[u] = pos[u] /\ waiting'[u] = waiting[u] /\ pos[u] \in Task
      BY <1>0, <1>1, WaitingKept DEF OthersKeep, TypeOK
    <3>2. \A i \in Active : Passed(u, i)' <=> Passed(u, i)
      BY <1>1, <3>1 DEF Passed, ScanStart
    <3>3. ScanSeenBy(u)
      BY DEF CInv, ScanSeen
    <3>. QED
      BY <1>0, <1>1, <1>2, <3>1, <3>2, <3>3 DEF ScanSeenBy
  <2>. QED
    BY <2>1, ScanSeenOwn DEF ScanSeen
<1>4. Settled'
  <2>1. CASE t = 0
    <3>. SUFFICES ASSUME pc'[0] = "report", NEW i \in Task PROVE task_status'[i] \in Taken
      BY <1>1, <2>1 DEF Settled
    <3>1. CASE i \in Active
      BY <2>1, <3>1, ScanSeenOwn
    <3>2. CASE i \notin Active
      <4>1. i >= num_active
        BY <1>0, <3>2 DEF Task
      <4>. QED
        BY <1>2, <4>1 DEF CInv, DoneCounts, Taken
    <3>. QED
      BY <3>1, <3>2
  <2>2. CASE t # 0
    BY <1>0, <1>1, <1>2, <2>2 DEF Settled, CInv, OthersKeep
  <2>. QED
    BY <2>1, <2>2
<1>5. Owned' /\ DoneCounts'
  <2>. USE DEF DONE, INPROGRESS, AVAILABLE, WAITING
  <2>1. CASE UNCHANGED <<task_status, ran>> /\ ~Finish(t) /\ ~TakeForwarded(t) /\ ~CasTake(t)
    <3>1. pc[t] # "run"
      BY <2>1 DEF NodePerf, BeginScan, Scan, CasFail, CloseList, NextWatcher, EndTask, LookWaiting,
         SecondPass, LookUnfinished, MoveWatch, MoveTooLate, Queue
    <3>2. \A u \in Thread : pc[u] = "run" => pc'[u] = "run" /\ which_task'[u] = which_task[u]
      BY <1>1, <3>1 DEF OthersKeep
    <3>. QED
      BY <1>1, <2>1, <3>2 DEF Owned, DoneCounts, CInv
  <2>2. CASE TakeForwarded(t) \/ CasTake(t)
    <3>1. PICK j \in Task :
            /\ task_status' = [task_status EXCEPT ![j] = INPROGRESS] /\ ran' = ran
            /\ which_task'[t] = j /\ pc'[t] = "run" /\ task_status[j] # DONE
      <4>1. CASE TakeForwarded(t)
        <5>1. next_task[t] \in Task /\ task_status[next_task[t]] = WAITING
          BY <4>1, StatusStep DEF TakeForwarded, CasTake, Finish, Queue, Serving
        <5>2. /\ task_status' = [task_status EXCEPT ![next_task[t]] = INPROGRESS] /\ ran' = ran
              /\ which_task'[t] = next_task[t] /\ pc'[t] = "run"
          BY <1>0, <4>1 DEF TakeForwarded, Goto, TypeOK
        <5>3. task_status[next_task[t]] # DONE
          BY <5>1
        <5>. QED
          BY <5>1, <5>2, <5>3, Zenon
      <4>2. CASE CasTake(t)
        <5>1. /\ task_status' = [task_status EXCEPT ![pos[t]] = INPROGRESS] /\ ran' = ran
              /\ which_task'[t] = pos[t] /\ pc'[t] = "run"
              /\ pos[t] \in Task /\ task_status[pos[t]] # DONE
          BY <1>0, <4>2 DEF CasTake, Goto, TypeOK
        <5>. QED
          BY <5>1, Zenon
      <4>. QED
        BY <2>2, <4>1, <4>2
    <3>2. \A u \in Thread : pc[u] = "run" => pc'[u] = "run" /\ which_task'[u] = which_task[u]
      BY <1>1, <2>2 DEF OthersKeep, TakeForwarded, CasTake
    <3>3. \A i \in Task : i # j => task_status'[i] = task_status[i]
      BY <1>0, <3>1
    <3>4. task_status'[j] = INPROGRESS /\ j < num_active
      BY <1>0, <3>1 DEF CInv, DoneCounts, Task
    <3>5. Owned'
      BY <3>1, <3>2, <3>3 DEF Owned, CInv
    <3>. QED
      BY <1>0, <1>1, <3>1, <3>3, <3>4, <3>5 DEF DoneCounts, CInv, Task
  <2>3. CASE Finish(t)
    <3>1. PICK j \in Task : j = which_task[t]
      BY <1>0 DEF TypeOK
    <3>2. /\ task_status[j] = INPROGRESS /\ task_status' = [task_status EXCEPT ![j] = DONE]
          /\ ran' = [ran EXCEPT ![j] = @ + 1] /\ which_task' = which_task
          /\ ran[j] = 0 /\ ran \in [Task -> Nat]
      BY <2>3, <3>1, <1>0 DEF Finish, IInv, Running, RanOnce, TypeOK
    <3>3. \A i \in Task : i # j => task_status'[i] = task_status[i] /\ ran'[i] = ran[i]
      BY <1>0, <3>2
    <3>4. task_status'[j] = DONE /\ ran'[j] = 1
      BY <1>0, <3>2
    <3>5. \A u \in Thread : pc[u] = "run" /\ which_task[u] # j => pc'[u] = "run"
      BY <1>1, <3>1 DEF OthersKeep
    <3>6. Owned'
      BY <3>2, <3>3, <3>4, <3>5 DEF Owned, CInv
    <3>. QED
      BY <1>0, <1>1, <3>3, <3>4, <3>6 DEF DoneCounts, CInv
  <2>4. CASE Queue(t) /\ next_task[t] # INVALID /\ to_notify[t] \in Task
             /\ task_status[to_notify[t]] = WAITING
    <3>1. PICK j \in Task : j = to_notify[t]
      BY <2>4
    <3>2. /\ task_status[j] = WAITING /\ task_status' = [task_status EXCEPT ![j] = AVAILABLE]
          /\ ran' = ran /\ which_task' = which_task /\ pc[t] # "run"
      BY <2>4, <3>1 DEF Queue
    <3>3. \A i \in Task : i # j => task_status'[i] = task_status[i]
      BY <1>0, <3>2
    <3>4. task_status'[j] = AVAILABLE /\ j < num_active
      BY <1>0, <3>2 DEF CInv, DoneCounts, Task
    <3>5. \A u \in Thread : pc[u] = "run" => pc'[u] = "run"
      BY <1>1, <3>2 DEF OthersKeep
    <3>6. Owned'
      BY <3>2, <3>3, <3>4, <3>5 DEF Owned, CInv
    <3>. QED
      BY <1>0, <1>1, <3>2, <3>3, <3>4, <3>6 DEF DoneCounts, CInv, Task
  <2>. QED
    BY <2>1, <2>2, <2>3, <2>4, StatusStep
<1>. QED
  BY <1>3, <1>4, <1>5 DEF CInv

\* What the start of a control period does to the status of the tasks.
LEMMA SetupStatus ==
    ASSUME IInv, StartCycle
    PROVE  \A i \in Task : /\ i >= num_active' => task_status'[i] = DONE
                           /\ i < num_active' => task_status'[i] \in {AVAILABLE, WAITING}
<1>. DEFINE m == IF dag_changed THEN chain ELSE task_map
            d == IF dag_changed THEN DepsOf(chain) ELSE task_dep
<1>1. task_map' = m /\ task_status' = InitialStatus(d, Len(m))
  BY Zenon DEF StartCycle, dag_setup
<1>2. num_active' = Len(m) /\ Len(m) \in Nat
  BY <1>1 DEF num_active, IInv, TypeOK
<1>. HIDE DEF m, d
<1>. QED
  BY <1>1, <1>2 DEF InitialStatus, Task

\* The start of a control period establishes the invariant anew.
LEMMA CInvSetup ==
    ASSUME IInv, StartCycle
    PROVE  CInv'
<1>0. /\ TypeOK /\ Handshake /\ Thread = Worker \cup {0} /\ 0 \in Thread
  BY ThreadsAssumption DEF IInv, Thread, Worker
<1>1. \A t \in Thread : pc'[t] \in {"idle", "release"}
  BY <1>0 DEF StartCycle, Goto, TypeOK, Handshake, WorkersParked
<1>2. pc'[0] = "release"
  BY <1>0 DEF StartCycle, Goto, TypeOK
<1>3. TypeOK'
  BY TypeStep DEF Next, MasterStep
<1>4. \A i \in Task : i \in Active' <=> i < num_active'
  BY <1>3, BoundsAssumption DEF TypeOK, Active, num_active, Task
<1>5. Active' \subseteq Task
  BY <1>3, BoundsAssumption DEF TypeOK, Active, num_active, Task
<1>6. \A i \in Task : task_status'[i] # INPROGRESS
  <2>1. num_active' \in Nat
    BY <1>3 DEF TypeOK, num_active
  <2>2. \A i \in Task : i >= num_active' \/ i < num_active'
    BY <2>1 DEF Task
  <2>. QED
    BY <2>2, SetupStatus DEF DONE, INPROGRESS, AVAILABLE, WAITING
<1>7. Owned' /\ ScanSeen' /\ Settled'
  BY <1>1, <1>2, <1>6 DEF Owned, ScanSeen, ScanSeenBy, Settled
<1>8. DoneCounts'
  BY <1>4, <1>5, SetupStatus DEF DoneCounts, DONE, AVAILABLE, WAITING
<1>. QED
  BY <1>7, <1>8 DEF CInv

\* The other steps leave the tasks alone; with the workers parked, the mix
\* happens only after the performance thread has left node_perf.
LEMMA CInvOther ==
    ASSUME IInv, CInv, [Next]_vars, ~StartCycle, \A t \in Thread : ~NodePerf(t)
    PROVE  CInv'
<1>. USE DEF vars, chainVars, dagVars, flagVars, taskVars, scanVars, notifyVars
<1>0. /\ TypeOK /\ ScanSeen /\ Settled /\ Owned /\ DoneCounts /\ 0 \in Thread
      /\ Worker \subseteq Thread
  BY StatusTypes, ThreadsAssumption DEF IInv, CInv, Worker, Thread
<1>1. UNCHANGED <<task_map, task_status, ran, pos, waiting, which_task>>
  BY DEF Next, MasterStep, ThreadStep, ChainStep, Release, Gather, Mix, Wake, Report,
     InsertInstance, DeactInstance, AsyncMark, AsyncSplice, TurnoffWhileRunning
<1>. DEFINE Outer(t) == /\ pc[t] # "run" /\ pc'[t] \notin {"scan", "cas"}
                        /\ t = 0 /\ pc'[0] \in {"report", "mix", "idle"}
                              => pc[0] \in {"report", "mix", "idle"}
<1>2. pc' = pc \/ \E t \in Thread : Outer(t) /\ pc' = [pc EXCEPT ![t] = pc'[t]]
  <2>1. CASE Release
    BY <1>0, <2>1 DEF Release, Goto, TypeOK
  <2>2. CASE Gather
    BY <1>0, <2>2 DEF Gather, Goto, TypeOK
  <2>3. CASE Mix
    BY <1>0, <2>3 DEF Mix, Goto, TypeOK
  <2>4. CASE ChainStep
    BY <2>4 DEF ChainStep, InsertInstance, DeactInstance, AsyncMark, AsyncSplice
  <2>5. ASSUME NEW t \in Thread, Wake(t) \/ Report(t) PROVE Outer(t) /\ pc' = [pc EXCEPT ![t] = pc'[t]]
    <3>1. t # 0
      BY <2>5 DEF Worker, Wake, Report
    <3>. QED
      BY <1>0, <2>5, <3>1 DEF Wake, Report, Goto, TypeOK
  <2>6. ASSUME NEW t \in Thread, TurnoffWhileRunning(t) PROVE pc' = pc
    BY <2>6 DEF TurnoffWhileRunning
  <2>7. CASE UNCHANGED vars
    BY <2>7
  <2>. HIDE DEF Outer
  <2>. QED
    BY <2>1, <2>2, <2>3, <2>4, <2>5, <2>6, <2>7 DEF Next, MasterStep, ThreadStep
<1>21. /\ \A t \in Thread : pc'[t] = pc[t] \/ (pc[t] # "run" /\ pc'[t] \notin {"scan", "cas"})
       /\ pc'[0] \in {"report", "mix", "idle"} => pc[0] \in {"report", "mix", "idle"}
  <2>1. CASE pc' = pc
    BY <2>1
  <2>2. ASSUME NEW t \in Thread, Outer(t), pc' = [pc EXCEPT ![t] = pc'[t]]
        PROVE  /\ \A u \in Thread : pc'[u] = pc[u] \/ (pc[u] # "run" /\ pc'[u] \notin {"scan", "cas"})
               /\ pc'[0] \in {"report", "mix", "idle"} => pc[0] \in {"report", "mix", "idle"}
    <3>1. \A u \in Thread : u # t => pc'[u] = pc[u]
      BY <1>0, <2>2 DEF TypeOK
    <3>. QED
      BY <1>0, <2>2, <3>1
  <2>. QED
    BY <1>2, <2>1, <2>2
<1>3. Active' = Active /\ num_active' = num_active
  BY <1>1 DEF Active, num_active
<1>4. ScanSeen'
  <2>1. \A t \in Thread, i \in Active : Passed(t, i)' <=> Passed(t, i)
    BY <1>1, <1>3 DEF Passed, ScanStart
  <2>. QED
    BY <1>0, <1>1, <1>21, <1>3, <2>1 DEF ScanSeen, ScanSeenBy
<1>5. Settled' /\ Owned' /\ DoneCounts'
  BY <1>0, <1>1, <1>21, <1>3 DEF Settled, Owned, DoneCounts
<1>. QED
  BY <1>4, <1>5 DEF CInv

\* Before the first control period there is nothing to do.
LEMMA CInvInit == Init => CInv
<1>. SUFFICES ASSUME Init PROVE CInv
  OBVIOUS
<1>1. num_active = 0 /\ Active = {}
  BY EmptySeq DEF Init, Active, num_active
<1>. QED
  BY <1>1 DEF Init, CInv, ScanSeen, ScanSeenBy, Settled, Owned, DoneCounts, Taken, DONE, INPROGRESS

\* With a compare-and-swap that does not fail spuriously, the scan invariant
\* holds throughout.
LEMMA CompleteInvariance == ASSUME ~WeakCAS PROVE Spec => [](IInv /\ CInv)
<1>1. Init => IInv /\ CInv
  BY InitIInv, CInvInit
<1>2. IInv /\ CInv /\ [Next]_vars => (IInv /\ CInv)'
  <2>. SUFFICES ASSUME IInv, CInv, [Next]_vars PROVE IInv' /\ CInv'
    OBVIOUS
  <2>1. IInv'
    BY NextIInv, StutterIInv
  <2>2. CASE StartCycle
    BY <2>1, <2>2, CInvSetup
  <2>3. CASE \E t \in Thread : NodePerf(t)
    BY <2>1, <2>3, CInvNodePerf
  <2>4. CASE ~StartCycle /\ \A t \in Thread : ~NodePerf(t)
    BY <2>1, <2>4, CInvOther
  <2>. QED
    BY <2>2, <2>3, <2>4, <2>1
<1>. QED
  BY <1>1, <1>2, PTL DEF Spec

\* While the workers are parked and the performance thread is not inside
\* node_perf, no task is in progress.
LEMMA AllDone ==
    ASSUME IInv, CInv, pc[0] \in {"mix", "idle"}
    PROVE  \A i \in Task : task_status[i] = DONE
<1>1. \A t \in Thread : pc[t] # "run"
  <2>1. Thread = Worker \cup {0}
    BY ThreadsAssumption DEF Thread, Worker
  <2>. QED
    BY <2>1 DEF IInv, Handshake, WorkersParked
<1>. QED
  BY <1>1 DEF CInv, Settled, Owned, Taken

\* When kperf mixes the buffers, every instance of the chain has been performed
\* exactly once: no thread left node_perf too early and no task was forgotten,
\* for every number of threads, every orchestra and every chain.
THEOREM CompletePeriods == ASSUME ~WeakCAS PROVE Spec => []CycleComplete
<1>1. IInv /\ CInv => CycleComplete
  <2>. SUFFICES ASSUME IInv, CInv, pc[0] = "mix", NEW i \in Active
                PROVE  task_status[i] = DONE /\ ran[i] = 1
    BY DEF CycleComplete
  <2>1. i \in Task
    BY StatusTypes DEF IInv
  <2>. QED
    BY <2>1, AllDone DEF CInv, DoneCounts
<1>. QED
  BY <1>1, CompleteInvariance, PTL

-----------------------------------------------------------------------------
(***************************************************************************)
(* The dispatcher implements TaskGraph.                                    *)
(***************************************************************************)

\* What the refinement mapping makes of the status array.
StateOf(s) == CASE s = DONE -> "done" [] s = INPROGRESS -> "running" [] OTHER -> "todo"
GraphState == [i \in Task |-> StateOf(task_status[i])]

\* The abstract state of a task for each status word.
LEMMA StatesOf ==
    /\ StateOf(DONE) = "done" /\ StateOf(INPROGRESS) = "running"
    /\ StateOf(AVAILABLE) = "todo" /\ StateOf(WAITING) = "todo"
BY DEF StateOf, DONE, INPROGRESS, AVAILABLE, WAITING

\* The empty graph of a new performance.
LEMMA GraphInit == Init => Graph!Init
<1>. SUFFICES ASSUME Init PROVE Graph!Init
  OBVIOUS
<1>1. num_active = 0
  BY EmptySeq DEF Init, num_active
<1>2. Graph!Task = Task
  BY DEF Graph!Task, Task
<1>3. GraphState = [i \in Task |-> "done"]
  BY StatesOf DEF Init, GraphState
<1>4. task_dep = [i \in Task |-> {}]
  BY DEF Init
<1>. QED
  BY <1>1, <1>2, <1>3, <1>4 DEF Graph!Init, GraphState, StateOf

\* dag_build and dag_reinit begin a new period of the abstract graph, and find
\* the last one completely performed.
LEMMA SetupRefines ==
    ASSUME IInv, CInv, StartCycle
    PROVE  Graph!NewCycle
<1>1. Graph!Task = Task
  BY DEF Graph!Task, Task
<1>2. \A i \in Task : GraphState[i] = "done"
  BY AllDone, StatesOf DEF StartCycle, GraphState
<1>3. /\ task_map' \in Seq(Instr) /\ Len(task_map') <= MaxActive /\ task_map' # <<>>
      /\ task_dep' \in [Task -> SUBSET Task] /\ GraphShape'
  BY SetupFacts DEF StartCycle, IInv
<1>4. num_active' \in 1..MaxActive
  BY <1>3, BoundsAssumption DEF num_active
<1>5. \A j \in Task : \A i \in task_dep'[j] : i < j /\ j < num_active'
  BY <1>3 DEF GraphShape
<1>6. GraphState' = [i \in Task |-> IF i < num_active' THEN "todo" ELSE "done"]
  <2>1. \A i \in Task : i >= num_active' \/ i < num_active'
    BY <1>4, BoundsAssumption DEF Task
  <2>2. ASSUME NEW i \in Task
        PROVE  StateOf(task_status'[i]) = IF i < num_active' THEN "todo" ELSE "done"
    BY <2>1, SetupStatus, StatesOf
  <2>. QED
    BY <2>2 DEF GraphState
<1>. QED
  BY <1>1, <1>2, <1>3, <1>4, <1>5, <1>6 DEF Graph!NewCycle, GraphState, StateOf

\* Every step of the dispatcher is a step of the abstract graph or invisible.
LEMMA StepRefines ==
    ASSUME IInv, CInv, [Next]_vars
    PROVE  Graph!Next \/ UNCHANGED <<num_active, task_dep, GraphState>>
<1>. USE DEF vars, chainVars, dagVars, flagVars, taskVars, scanVars, notifyVars
<1>0. /\ TypeOK /\ Active \subseteq Task
      /\ task_status \in [Task -> {DONE, INPROGRESS, AVAILABLE, WAITING}]
  BY StatusTypes DEF IInv
<1>1. Graph!Task = Task
  BY DEF Graph!Task, Task
<1>2. CASE StartCycle
  BY <1>2, SetupRefines DEF Graph!Next
<1>3. ASSUME NEW t \in Thread, NodePerf(t)
      PROVE  Graph!Next \/ UNCHANGED <<num_active, task_dep, GraphState>>
  <2>1. task_dep' = task_dep /\ num_active' = num_active
    BY <1>3, NodePerfFrame DEF IInv, num_active
  <2>2. ASSUME NEW j \in Task, task_status[j] \in {AVAILABLE, WAITING}, DepsDone(j),
               task_status' = [task_status EXCEPT ![j] = INPROGRESS]
        PROVE  Graph!Start(j)
    <3>1. GraphState[j] = "todo" /\ \A i \in task_dep[j] : GraphState[i] = "done"
      <4>1. \A i \in task_dep[j] : i \in Task
        BY <1>0 DEF TypeOK
      <4>. QED
        BY <2>2, <4>1, StatesOf DEF DepsDone, GraphState
    <3>2. GraphState' = [GraphState EXCEPT ![j] = "running"]
      BY <1>0, <2>2, StatesOf DEF GraphState
    <3>. QED
      BY <2>1, <3>1, <3>2 DEF Graph!Start, GraphState, StateOf
  <2>3. CASE UNCHANGED task_status
    BY <2>1, <2>3 DEF GraphState
  <2>4. CASE TakeForwarded(t) /\ FwdOf[t] = next_task[t] /\ next_task[t] \in Task
             /\ task_status[next_task[t]] = WAITING
    <3>1. PICK j \in Task : j = next_task[t]
      BY <2>4
    <3>2. /\ task_status[j] = WAITING /\ DepsDone(j)
          /\ task_status' = [task_status EXCEPT ![j] = INPROGRESS]
      BY <1>3, <2>4, <3>1 DEF IInv, Ready, TakeForwarded
    <3>3. Graph!Start(j)
      BY <2>2, <3>2
    <3>. QED
      BY <1>1, <3>3 DEF Graph!Next
  <2>5. CASE CasTake(t) /\ pos[t] \in Active /\ task_status[pos[t]] = AVAILABLE
    <3>1. PICK j \in Task : j = pos[t] /\ j \in Active
      BY <1>0, <2>5
    <3>2. /\ task_status[j] = AVAILABLE /\ DepsDone(j)
          /\ task_status' = [task_status EXCEPT ![j] = INPROGRESS]
      BY <2>5, <3>1 DEF IInv, Ready, CasTake, AVAILABLE, WAITING
    <3>3. Graph!Start(j)
      BY <2>2, <3>2
    <3>. QED
      BY <1>1, <3>3 DEF Graph!Next
  <2>6. CASE Finish(t) /\ which_task[t] \in Task /\ task_status[which_task[t]] = INPROGRESS
    <3>1. PICK j \in Task : j = which_task[t]
      BY <2>6
    <3>2. GraphState[j] = "running"
      BY <2>6, <3>1, StatesOf DEF GraphState
    <3>3. task_status' = [task_status EXCEPT ![j] = DONE]
      BY <2>6, <3>1 DEF Finish
    <3>4. GraphState' = [GraphState EXCEPT ![j] = "done"]
      BY <1>0, <3>3, StatesOf DEF GraphState
    <3>5. Graph!Finish(j)
      BY <2>1, <3>2, <3>4 DEF Graph!Finish, GraphState, StateOf
    <3>. QED
      BY <1>1, <3>1, <3>5 DEF Graph!Next
  <2>7. CASE Queue(t) /\ next_task[t] # INVALID /\ to_notify[t] \in Task
             /\ task_status[to_notify[t]] = WAITING
    <3>1. PICK j \in Task : j = to_notify[t]
      BY <2>7
    <3>2. task_status' = [task_status EXCEPT ![j] = AVAILABLE] /\ task_status[j] = WAITING
      BY <2>7, <3>1 DEF Queue
    <3>3. \A i \in Task : StateOf(task_status'[i]) = StateOf(task_status[i])
      BY <1>0, <3>2, StatesOf
    <3>4. GraphState' = GraphState
      BY <3>3 DEF GraphState
    <3>. QED
      BY <2>1, <3>4
  <2>. QED
    BY <1>3, <2>3, <2>4, <2>5, <2>6, <2>7, StatusStep
<1>4. CASE ~StartCycle /\ \A t \in Thread : ~NodePerf(t)
  <2>1. UNCHANGED <<task_map, task_dep, task_status>>
    BY <1>4 DEF Next, MasterStep, ThreadStep, ChainStep, Release, Gather, Mix, Wake, Report,
       InsertInstance, DeactInstance, AsyncMark, AsyncSplice, TurnoffWhileRunning
  <2>. QED
    BY <2>1 DEF num_active, GraphState
<1>. QED
  BY <1>2, <1>3, <1>4

\* For every number of threads, orchestra and chain, the dispatcher is the
\* abstract task graph: a task starts once, after the tasks it depends on, and a
\* period begins when every task of the last one has been performed.
THEOREM DispatcherImplementsTaskGraph == ASSUME ~WeakCAS PROVE Spec => ImplementsTaskGraph
<1>1. Init => Graph!Init
  BY GraphInit
<1>2. IInv /\ CInv /\ [Next]_vars => [Graph!Next]_<<num_active, task_dep, GraphState>>
  BY StepRefines
<1>3. IInv /\ CInv /\ [Next]_vars => [Graph!Next]_(Graph!vars)
  BY <1>2 DEF Graph!vars, GraphState, StateOf
<1>. QED
  BY <1>1, <1>3, CompleteInvariance, PTL DEF Spec, ImplementsTaskGraph, Graph!Spec

-----------------------------------------------------------------------------
(***************************************************************************)
(* The graph that a period uses                                            *)
(***************************************************************************)

\* When instances are inserted by the performance thread, a graph that is not
\* marked for rebuilding is the graph of the active chain.
THEOREM CurrentGraph == ASSUME ~AsyncInsert PROVE Spec => []GraphIsCurrent
<1>. USE DEF vars, chainVars, dagVars, flagVars, taskVars, scanVars, notifyVars
<1>1. Init => GraphIsCurrent
  BY DEF Init, GraphIsCurrent
<1>2. IInv /\ GraphIsCurrent /\ [Next]_vars => GraphIsCurrent'
  <2>. SUFFICES ASSUME IInv, GraphIsCurrent, [Next]_vars PROVE GraphIsCurrent'
    OBVIOUS
  <2>1. inserting # 1 /\ inserting = 0
    BY DEF IInv, InsertShape, TypeOK
  <2>2. CASE StartCycle
    BY <2>1, <2>2, Zenon DEF StartCycle, dag_setup, GraphIsCurrent
  <2>3. CASE InsertInstance \/ DeactInstance \/ AsyncMark
    BY <2>3 DEF InsertInstance, DeactInstance, AsyncMark, GraphIsCurrent
  <2>4. CASE AsyncSplice
    BY <2>1, <2>4 DEF AsyncSplice
  <2>5. CASE \E t \in Thread : TurnoffWhileRunning(t)
    BY <2>5 DEF TurnoffWhileRunning, GraphIsCurrent
  <2>6. CASE \E t \in Thread : NodePerf(t)
    BY <2>6, NodePerfFrame DEF IInv, GraphIsCurrent
  <2>7. CASE Release \/ Gather \/ Mix \/ (\E t \in Thread : Wake(t) \/ Report(t)) \/ UNCHANGED vars
    BY <2>7 DEF Release, Gather, Mix, Wake, Report, GraphIsCurrent
  <2>. QED
    BY <2>2, <2>3, <2>4, <2>5, <2>6, <2>7 DEF Next, MasterStep, ChainStep, ThreadStep
<1>. QED
  BY <1>1, <1>2, Invariance, PTL DEF Spec

-----------------------------------------------------------------------------
(***************************************************************************)
(* No waiting task is lost                                                 *)
(***************************************************************************)

\* The converse of PointedWaits.
WaitsPointed ==
    \A x \in Task : task_status[x] = WAITING => Refers(task_watch, LinkOf, CurOf, NxtOf, FwdOf, x)

\* The links form no cycle: some ranking of the tasks grows along them.
Grows(r, l) == \A a \in Task : l[a] \in Task => r[a] < r[l[a]]
Ranked      == \E r \in [Task -> Nat] : Grows(r, LinkOf)

\* Only tasks of the graph have watchers, now or in the next step.
ActiveHeads ==
    /\ \A i \in Task : task_watch[i] \in Task => i \in Active
    /\ \A t \in Thread : pc[t] \in {"move1", "move2"} => k[t] \in Active

WInv == WaitsPointed /\ Ranked /\ ActiveHeads

\* An entry pushed on a list is ranked before all others.
LEMMA RankedPush ==
    ASSUME NEW l \in [Task -> Ptr], NEW r \in [Task -> Nat], Grows(r, l),
           NEW a \in Task, NEW h \in Ptr, h # a, \A x \in Task : l[x] # a
    PROVE  \E q \in [Task -> Nat] : Grows(q, [l EXCEPT ![a] = h])
<1>. DEFINE q == [x \in Task |-> IF x = a THEN 0 ELSE r[x] + 1]
            L == [l EXCEPT ![a] = h]
<1>1. q \in [Task -> Nat]
  OBVIOUS
<1>2. q[a] = 0 /\ \A x \in Task : x # a => q[x] = r[x] + 1
  OBVIOUS
<1>3. L[a] = h /\ \A x \in Task : x # a => L[x] = l[x]
  OBVIOUS
<1>. HIDE DEF q, L
<1>4. ASSUME NEW x \in Task, L[x] \in Task PROVE q[x] < q[L[x]]
  <2>1. CASE x = a
    BY <1>2, <1>3, <1>4, <2>1
  <2>2. CASE x # a
    <3>1. L[x] = l[x] /\ l[x] \in Task /\ l[x] # a /\ r[x] < r[l[x]]
      BY <1>3, <1>4, <2>2 DEF Grows
    <3>2. q[x] = r[x] + 1 /\ q[l[x]] = r[l[x]] + 1 /\ r[x] \in Nat /\ r[l[x]] \in Nat
      BY <1>2, <2>2, <3>1
    <3>. QED
      BY <3>1, <3>2
  <2>. QED
    BY <2>1, <2>2
<1>5. Grows(q, L)
  BY <1>4 DEF Grows
<1>. QED
  BY <1>1, <1>5 DEF L

\* A step inside node_perf loses no reference and closes no cycle of links.
LEMMA PointedStep ==
    ASSUME IInv, WInv, NEW t \in Thread, NodePerf(t)
    PROVE  WaitsPointed' /\ Ranked'
<1>0. /\ RefMove(t) /\ TypeOK /\ WaitsPointed
      /\ task_status \in [Task -> {DONE, INPROGRESS, AVAILABLE, WAITING}]
  BY RefMoves DEF IInv, TypeOK, WInv
<1>1. /\ task_watch \in [Task -> Ptr] /\ LinkOf \in [Task -> Ptr] /\ CurOf \in [Thread -> Ptr]
      /\ NxtOf \in [Thread -> Ptr] /\ FwdOf \in [Thread -> Ptr]
  BY <1>0, RefTypes
<1>2. Once(task_watch, LinkOf, CurOf, NxtOf, FwdOf)
  BY DEF IInv, OnePointer
<1>3. PICK r \in [Task -> Nat] : Grows(r, LinkOf)
  BY DEF WInv, Ranked
<1>4. CASE NoneMoves
  BY <1>0, <1>3, <1>4 DEF NoneMoves, WaitsPointed, Ranked
<1>5. ASSUME NEW i \in Task, HeadMoves(t, i) PROVE WaitsPointed' /\ Ranked'
  <2>1. /\ UNCHANGED <<LinkOf, NxtOf, FwdOf, task_status>>
        /\ \A x \in Task : x # i => task_watch'[x] = task_watch[x]
        /\ \A u \in Thread : u # t => CurOf'[u] = CurOf[u]
        /\ CurOf'[t] = task_watch[i] /\ CurOf[t] \notin Task
    BY <1>1, <1>5 DEF HeadMoves
  <2>2. \A x \in Task : Refers(task_watch, LinkOf, CurOf, NxtOf, FwdOf, x)
                          => Refers(task_watch', LinkOf, CurOf', NxtOf, FwdOf, x)
    BY <2>1 DEF Refers
  <2>. QED
    BY <1>0, <1>3, <2>1, <2>2 DEF WaitsPointed, Ranked
<1>6. ASSUME NEW a \in Task, LinkMoves(t, a) PROVE WaitsPointed' /\ Ranked'
  <2>1. /\ UNCHANGED <<task_watch, CurOf, FwdOf, task_status>>
        /\ \A x \in Task : x # a => LinkOf'[x] = LinkOf[x]
        /\ \A u \in Thread : u # t => NxtOf'[u] = NxtOf[u]
        /\ NxtOf'[t] = LinkOf[a] /\ NxtOf[t] \notin Task /\ LinkOf'[a] = NULL
    BY <1>1, <1>6 DEF LinkMoves
  <2>2. \A x \in Task : Refers(task_watch, LinkOf, CurOf, NxtOf, FwdOf, x)
                          => Refers(task_watch, LinkOf', CurOf, NxtOf', FwdOf, x)
    BY <2>1 DEF Refers
  <2>3. Grows(r, LinkOf')
    BY <1>3, <2>1, NullIsNoTask DEF Grows
  <2>. QED
    BY <1>0, <2>1, <2>2, <2>3 DEF WaitsPointed, Ranked
<1>7. ASSUME NEW a \in Task, CurDropped(t, a)
      PROVE  /\ \A u \in Thread : u # t => CurOf'[u] = CurOf[u] /\ NxtOf'[u] = NxtOf[u]
             /\ CurOf[t] = a /\ CurOf'[t] = NxtOf[t]
             /\ \A x \in Task : Refers(task_watch, LinkOf, CurOf, NxtOf, FwdOf, x) /\ x # a
                                  => Refers(task_watch, LinkOf, CurOf', NxtOf', FwdOf, x)
  <2>1. /\ \A u \in Thread : u # t => CurOf'[u] = CurOf[u] /\ NxtOf'[u] = NxtOf[u]
        /\ CurOf[t] = a /\ CurOf'[t] = NxtOf[t]
    BY <1>1, <1>7 DEF CurDropped
  <2>. QED
    BY <2>1 DEF Refers
<1>8. ASSUME NEW a \in Task, NEW i \in Task, CurPushed(t, a, i) PROVE WaitsPointed' /\ Ranked'
  <2>1. /\ UNCHANGED <<FwdOf, task_status>> /\ CurDropped(t, a)
        /\ \A x \in Task : x # i => task_watch'[x] = task_watch[x]
        /\ \A x \in Task : x # a => LinkOf'[x] = LinkOf[x]
        /\ task_watch'[i] = a /\ LinkOf'[a] = task_watch[i] /\ LinkOf[a] \notin Task
        /\ LinkOf' = [LinkOf EXCEPT ![a] = task_watch[i]]
    BY <1>1, <1>8 DEF CurPushed
  <2>2. \A x \in Task : Refers(task_watch, LinkOf, CurOf', NxtOf', FwdOf, x)
                          => Refers(task_watch', LinkOf', CurOf', NxtOf', FwdOf, x)
    BY <2>1 DEF Refers
  <2>3. Refers(task_watch', LinkOf', CurOf', NxtOf', FwdOf, a)
    BY <2>1 DEF Refers
  <2>4. WaitsPointed'
    BY <1>0, <1>7, <2>1, <2>2, <2>3 DEF WaitsPointed
  <2>5. task_watch[i] # a /\ \A x \in Task : LinkOf[x] # a
    BY <1>1, <1>2, <1>7, <2>1 DEF Once, Apart
  <2>6. task_watch[i] \in Ptr
    BY <1>1
  <2>7. Ranked'
    BY <1>1, <1>3, <2>1, <2>5, <2>6, RankedPush DEF Ranked
  <2>. QED
    BY <2>4, <2>7
<1>9. ASSUME NEW a \in Task, CurForwarded(t, a) PROVE WaitsPointed' /\ Ranked'
  <2>1. /\ UNCHANGED <<task_watch, LinkOf, task_status>> /\ CurDropped(t, a)
        /\ \A u \in Thread : u # t => FwdOf'[u] = FwdOf[u]
        /\ FwdOf'[t] = a /\ FwdOf[t] \notin Task
    BY <1>1, <1>9 DEF CurForwarded
  <2>2. \A x \in Task : Refers(task_watch, LinkOf, CurOf', NxtOf', FwdOf, x) \/ x = a
                          => Refers(task_watch, LinkOf, CurOf', NxtOf', FwdOf', x)
    BY <2>1 DEF Refers
  <2>. QED
    BY <1>0, <1>3, <1>7, <2>1, <2>2 DEF WaitsPointed, Ranked
<1>10. ASSUME NEW a \in Task, CurFreed(t, a) PROVE WaitsPointed' /\ Ranked'
  <2>1. /\ UNCHANGED <<task_watch, LinkOf, FwdOf>> /\ CurDropped(t, a)
        /\ \A x \in Task : x # a => task_status'[x] = task_status[x]
        /\ task_status'[a] # WAITING
    BY <1>0, <1>10 DEF CurFreed, AVAILABLE, WAITING
  <2>. QED
    BY <1>0, <1>3, <1>7, <2>1 DEF WaitsPointed, Ranked
<1>11. ASSUME NEW a \in Task, FwdStarted(t, a) PROVE WaitsPointed' /\ Ranked'
  <2>1. /\ UNCHANGED <<task_watch, LinkOf, CurOf, NxtOf>> /\ FwdOf[t] = a
        /\ \A x \in Task : x # a => task_status'[x] = task_status[x]
        /\ task_status'[a] # WAITING
        /\ \A u \in Thread : u # t => FwdOf'[u] = FwdOf[u]
    BY <1>0, <1>1, <1>11 DEF FwdStarted, INPROGRESS, WAITING
  <2>2. \A x \in Task : Refers(task_watch, LinkOf, CurOf, NxtOf, FwdOf, x) /\ x # a
                          => Refers(task_watch, LinkOf, CurOf, NxtOf, FwdOf', x)
    BY <2>1 DEF Refers
  <2>. QED
    BY <1>0, <1>3, <2>1, <2>2 DEF WaitsPointed, Ranked
<1>. QED
  BY <1>0, <1>4, <1>5, <1>6, <1>8, <1>9, <1>10, <1>11 DEF RefMove

\* A watcher moves only to a task of the graph: to one it depends on.
LEMMA HeadsStep ==
    ASSUME IInv, WInv, NEW t \in Thread, NodePerf(t)
    PROVE  ActiveHeads'
<1>. USE DEF chainVars, dagVars, flagVars, taskVars, scanVars, notifyVars
<1>0. TypeOK /\ ThreadShape /\ ShapeAt(t) /\ GraphShape /\ ActiveHeads /\ RefMove(t)
  BY RefMoves DEF IInv, ThreadShape, WInv
<1>1. Active' = Active /\ OthersKeep(t)
  BY <1>0, NodePerfFrame DEF Active, num_active
<1>2. \A i \in Task : task_watch'[i] \in Task => i \in Active
  <2>1. task_watch \in [Task -> Ptr]
    BY <1>0, RefTypes
  <2>2. CASE task_watch' = task_watch
    BY <1>0, <2>2 DEF ActiveHeads
  <2>3. ASSUME NEW i \in Task, HeadMoves(t, i)
        PROVE  \A x \in Task : task_watch'[x] \in Task => x \in Active
    BY <1>0, <2>1, <2>3, NullIsNoTask DEF ActiveHeads, HeadMoves
  <2>4. ASSUME NEW a \in Task, NEW i \in Task, CurPushed(t, a, i),
               pc[t] \in {"move1", "move2"}, i = k[t]
        PROVE  \A x \in Task : task_watch'[x] \in Task => x \in Active
    BY <1>0, <2>1, <2>4 DEF ActiveHeads, CurPushed
  <2>. QED
    BY <1>0, <2>2, <2>3, <2>4
    DEF RefMove, NoneMoves, LinkMoves, CurForwarded, CurFreed, FwdStarted
<1>3. pc'[t] \in {"move1", "move2"} => k'[t] \in Active
  <2>1. ASSUME LookWaiting(t) \/ LookUnfinished(t), pc'[t] \in {"move1", "move2"}
        PROVE  k'[t] \in Active
    <3>1. pc[t] \in Serving /\ Remaining(t) # {} /\ k'[t] = Minimum(Remaining(t))
      BY <1>0, <2>1 DEF LookWaiting, LookUnfinished, Goto, TypeOK, Serving
    <3>2. PICK d \in Task : d = Minimum(Remaining(t)) /\ d \in task_dep[to_notify[t]]
                            /\ to_notify[t] \in Task
      BY <1>0, <3>1, RemainingFacts
    <3>3. d < to_notify[t] /\ to_notify[t] < num_active /\ num_active \in Nat
      BY <1>0, <3>2, StatusTypes DEF GraphShape
    <3>. QED
      BY <3>1, <3>2, <3>3 DEF Active, Task
  <2>2. CASE Scan(t) \/ CasFail(t)
    BY <1>0, <2>2, ScanOnFacts DEF Scan, CasFail, Goto, ShapeAt, TypeOK
  <2>3. CASE ~(LookWaiting(t) \/ LookUnfinished(t) \/ Scan(t) \/ CasFail(t))
    BY <1>0, <2>3 DEF NodePerf, BeginScan, TakeForwarded, CasTake, Finish, CloseList, NextWatcher,
       EndTask, SecondPass, MoveWatch, MoveTooLate, Queue, Goto, TypeOK
  <2>. QED
    BY <2>1, <2>2, <2>3
<1>. QED
  BY <1>0, <1>1, <1>2, <1>3 DEF ActiveHeads, OthersKeep

\* dag_build puts every task with a dependency on a list: it is the last one
\* pushed on it or the successor of the one pushed after it.
LEMMA EveryWatcherListed ==
    ASSUME NEW d \in [Task -> SUBSET Task], NEW old \in [Task -> Task \cup {NULL}],
           NEW x \in Task, d[x] # {}
    PROVE  \/ \E i \in Task : FirstLists(d)[i] = x
           \/ \E y \in Task : d[y] # {} /\ FirstLinks(d, old)[y] = x
<1>1. PICK i \in Task : i = Minimum(d[x])
  <2>1. d[x] \in SUBSET Nat /\ d[x] \in SUBSET Task
    BY DEF Task
  <2>. QED
    BY <2>1, MinimumOf
<1>. DEFINE F == FirstWatchers(d, i)
<1>2. x \in F /\ F \in SUBSET Task
  BY <1>1 DEF FirstWatchers
<1>3. \A y \in F : d[y] # {} /\ Minimum(d[y]) = i
  BY DEF FirstWatchers
<1>4. FirstLists(d)[i] = MaximumOrNull(F)
  BY DEF FirstLists
<1>. HIDE DEF F
<1>5. MaximumOrNull(F) \in F /\ \A y \in F : y <= MaximumOrNull(F)
  BY <1>2, MaximumOf
<1>6. CASE MaximumOrNull(F) = x
  BY <1>4, <1>6
<1>7. CASE MaximumOrNull(F) # x
  <2>. DEFINE G == {y \in F : x < y}
  <2>1. G \in SUBSET Nat /\ G # {}
    <3>1. PICK h \in F : h = MaximumOrNull(F)
      BY <1>5
    <3>2. x <= h /\ x # h /\ h \in Task
      BY <1>2, <1>5, <1>7, <3>1
    <3>3. x < h
      BY <3>2 DEF Task
    <3>4. F \in SUBSET Nat
      BY <1>2 DEF Task
    <3>. QED
      BY <3>1, <3>3, <3>4
  <2>2. PICK y \in G : \A z \in G : y <= z
    BY <2>1, MinimumOf
  <2>3. y \in F /\ y \in Task /\ x < y
    BY <1>2, <2>2
  <2>. DEFINE S == {l \in F : l < y}
  <2>4. FirstLinks(d, old)[y] = MaximumOrNull(S)
    <3>1. d[y] # {} /\ Minimum(d[y]) = i
      BY <1>3, <2>3
    <3>. QED
      BY <2>3, <3>1 DEF FirstLinks, F
  <2>5. S \in SUBSET Task /\ x \in S
    BY <1>2, <2>3
  <2>6. MaximumOrNull(S) \in S /\ \A z \in S : z <= MaximumOrNull(S)
    <3>. HIDE DEF S
    <3>. QED
      BY <2>5, MaximumOf
  <2>7. PICK z \in Task : z = MaximumOrNull(S) /\ z \in F /\ z < y /\ x <= z
    BY <1>2, <2>5, <2>6
  <2>8. z = x
    <3>1. ~(x < z)
      BY <2>2, <2>3, <2>7 DEF Task
    <3>. QED
      BY <2>7, <3>1 DEF Task
  <2>. QED
    BY <1>3, <2>3, <2>4, <2>7, <2>8
<1>. QED
  BY <1>6, <1>7

\* The lists of a new control period hold every waiting task.
LEMMA PointedSetup ==
    ASSUME IInv, StartCycle
    PROVE  WInv'
<1>. DEFINE d == task_dep'
            none == [t \in Thread |-> NULL]
<1>0. /\ TypeOK /\ Handshake /\ Thread = Worker \cup {0} /\ 0 \in Thread
  BY ThreadsAssumption DEF IInv, Thread, Worker
<1>1. /\ d \in [Task -> SUBSET Task]
      /\ \A j \in Task : task_status'[j] = WAITING <=> d[j] # {}
      /\ task_watch' = FirstLists(d) /\ wl_next' = FirstLinks(d, wl_next) /\ GraphShape'
      /\ task_map' \in Seq(Instr)
  BY SetupFacts DEF StartCycle, IInv
<1>2. wl_next \in [Task -> Task \cup {NULL}]
  BY <1>0 DEF TypeOK
<1>3. \A t \in Thread : pc'[t] \in {"idle", "release"}
  BY <1>0 DEF StartCycle, Goto, Handshake, WorkersParked, TypeOK
<1>4. CurOf' = none /\ NxtOf' = none /\ FwdOf' = none /\ SrvOf' = none
  BY <1>3 DEF CurOf, NxtOf, FwdOf, SrvOf, Serving, Holding
<1>. HIDE DEF d
<1>5. \A a \in Task : Linked(a)' <=> d[a] # {}
  BY <1>1, <1>4, NullIsNoTask DEF Linked
<1>6. LinkOf' = [a \in Task |-> IF d[a] # {} THEN FirstLinks(d, wl_next)[a] ELSE NULL]
  BY <1>1, <1>5 DEF LinkOf
<1>7. WaitsPointed'
  <2>. SUFFICES ASSUME NEW x \in Task, d[x] # {}
                PROVE  Refers(task_watch', LinkOf', none, none, none, x)
    BY <1>1, <1>4 DEF WaitsPointed
  <2>1. \/ \E i \in Task : FirstLists(d)[i] = x
        \/ \E y \in Task : d[y] # {} /\ FirstLinks(d, wl_next)[y] = x
    BY <1>1, <1>2, EveryWatcherListed
  <2>. QED
    BY <1>1, <1>6, <2>1 DEF Refers
<1>8. Ranked'
  <2>. DEFINE r == [j \in Task |-> MaxActive - j]
  <2>1. r \in [Task -> Nat] /\ \A j \in Task : r[j] = MaxActive - j
    BY BoundsAssumption DEF Task
  <2>. HIDE DEF r
  <2>2. ASSUME NEW a \in Task, LinkOf'[a] \in Task PROVE r[a] < r[LinkOf'[a]]
    <3>1. PICK b \in Task : b = LinkOf'[a]
      BY <2>2
    <3>2. b < a
      BY <1>1, <1>2, <1>6, <3>1, ListLinks, NullIsNoTask
    <3>. QED
      BY <2>1, <3>1, <3>2, BoundsAssumption DEF Task
  <2>3. Grows(r, LinkOf')
    BY <2>2 DEF Grows
  <2>. QED
    BY <2>1, <2>3 DEF Ranked
<1>9. ActiveHeads'
  <2>1. ASSUME NEW i \in Task, task_watch'[i] \in Task PROVE i \in Active'
    <3>1. PICK j \in Task : j = task_watch'[i]
      BY <2>1
    <3>2. d[j] # {} /\ Minimum(d[j]) = i
      BY <1>1, <3>1, ListHeads DEF FirstWatchers
    <3>3. d[j] \in SUBSET Nat
      BY <1>1 DEF Task
    <3>4. i \in d[j]
      BY <3>2, <3>3, MinimumOf
    <3>5. i < j /\ j < num_active'
      BY <1>1, <3>4 DEF GraphShape, d
    <3>6. num_active' \in Nat
      BY <1>1 DEF num_active
    <3>7. PICK n \in Nat : n = num_active'
      BY <3>6
    <3>8. i \in Nat /\ j \in Nat /\ i < j /\ j < n
      BY <3>5, <3>7 DEF Task
    <3>9. i \in 0..(n - 1)
      BY <3>8
    <3>. QED
      BY <3>7, <3>9, Zenon DEF Active
  <2>. QED
    BY <1>3, <2>1 DEF ActiveHeads
<1>. QED
  BY <1>7, <1>8, <1>9 DEF WInv

\* The other steps move no reference.
LEMMA PointedOther ==
    ASSUME IInv, WInv, NEW t \in Thread, OtherStep(t)
    PROVE  WInv'
<1>1. NoneMoves /\ OthersKeep(t)
  BY PointerOther DEF OtherStep
<1>2. task_map' = task_map
  BY DEF OtherStep, dagVars
<1>3. WaitsPointed' /\ Ranked'
  BY <1>1 DEF WInv, NoneMoves, WaitsPointed, Ranked
<1>4. \A u \in Thread : pc'[u] \in {"move1", "move2"} => k'[u] = k[u] /\ pc[u] = pc'[u]
  BY <1>1 DEF OtherStep, OthersKeep, Outside, notifyVars
<1>5. ActiveHeads'
  BY <1>1, <1>2, <1>4 DEF WInv, ActiveHeads, NoneMoves, Active, num_active
<1>. QED
  BY <1>3, <1>5 DEF WInv

\* No task waits before the first period.
LEMMA PointedInit == Init => WInv
<1>. SUFFICES ASSUME Init PROVE WInv
  OBVIOUS
<1>1. WaitsPointed /\ ActiveHeads
  BY NullIsNoTask DEF Init, WaitsPointed, ActiveHeads, DONE, WAITING
<1>2. Ranked
  <2>1. \A a \in Task : LinkOf[a] = NULL
    BY DEF Init, LinkOf
  <2>2. [j \in Task |-> 0] \in [Task -> Nat]
    OBVIOUS
  <2>3. Grows([j \in Task |-> 0], LinkOf)
    BY <2>1, NullIsNoTask DEF Grows
  <2>. QED
    BY <2>2, <2>3 DEF Ranked
<1>. QED
  BY <1>1, <1>2 DEF WInv

\* Every waiting task is referred to, and the links are well founded, in every
\* reachable state; weak or strong compare-and-swap, both ways of inserting.
LEMMA PointedInvariance == Spec => [](IInv /\ WInv)
<1>1. Init => IInv /\ WInv
  BY InitIInv, PointedInit
<1>2. IInv /\ WInv /\ [Next]_vars => (IInv /\ WInv)'
  <2>. SUFFICES ASSUME IInv, WInv, [Next]_vars PROVE IInv' /\ WInv'
    OBVIOUS
  <2>1. IInv'
    BY NextIInv, StutterIInv
  <2>2. CASE StartCycle
    BY <2>1, <2>2, PointedSetup
  <2>3. ASSUME NEW t \in Thread, NodePerf(t) PROVE IInv' /\ WInv'
    BY <2>1, <2>3, PointedStep, HeadsStep DEF WInv
  <2>4. CASE Next /\ ~StartCycle /\ \A t \in Thread : ~NodePerf(t)
    <3>1. PICK t \in Thread : OtherStep(t)
      BY <2>4, OtherSteps
    <3>. QED
      BY <2>1, <3>1, PointedOther
  <2>5. CASE UNCHANGED vars
    <3>1. 0 \in Thread /\ OtherStep(0)
      BY <2>5, ThreadsAssumption DEF vars, chainVars, dagVars, flagVars, taskVars, scanVars,
         notifyVars, OthersKeep, OtherStep, FwdOf, Thread
    <3>. QED
      BY <2>1, <3>1, PointedOther
  <2>. QED
    BY <2>2, <2>3, <2>4, <2>5
<1>. QED
  BY <1>1, <1>2, PTL DEF Spec

\* A list holds its head and, with an entry, the next one.
LEMMA EntriesClosed ==
    ASSUME NEW p
    PROVE  /\ p \in Task => p \in Entries(p)
           /\ \A a \in Entries(p) : wl_next[a] \in Task => wl_next[a] \in Entries(p)
BY DEF Entries

\* A task that waits for its dependencies is on the list of a task of the graph,
\* or in the hands of a thread inside dag_end_task, or forwarded: the wake-up
\* that move_watch and dag_end_task hand around is never lost, for every number
\* of threads and every orchestra.
THEOREM WakeupKept == Spec => []NoLostWakeup
<1>1. ASSUME IInv, WInv PROVE NoLostWakeup
  <2>. DEFINE Found == Watched \cup Served \cup Forwarded
              Lost == {x \in Task : task_status[x] = WAITING /\ x \notin Found}
              Walk(t) == Entries(to_notify[t])
              Serve(t) == {to_notify[t]} \cup Entries(next[t])
              Walkers == {t \in Thread : pc[t] = "walk"}
              Servers == {t \in Thread : pc[t] \in Serving}
  <2>1. Served = (UNION {Walk(t) : t \in Walkers}) \cup (UNION {Serve(t) : t \in Servers})
    BY Zenon DEF Served
  <2>2. \A t \in Thread : pc[t] = "walk" => Walk(t) \subseteq Served
    <3>. HIDE DEF Walk, Serve
    <3>. QED
      BY <2>1, Zenon
  <2>3. \A t \in Thread : pc[t] \in Serving => Serve(t) \subseteq Served
    <3>. SUFFICES ASSUME NEW t \in Thread, pc[t] \in Serving PROVE Serve(t) \subseteq Served
      OBVIOUS
    <3>1. t \in Servers
      OBVIOUS
    <3>. HIDE DEF Walk, Serve, Walkers, Servers
    <3>. QED
      BY <2>1, <3>1, Zenon
  <2>4. \A a \in Served : \E t \in Thread : \/ pc[t] = "walk" /\ a \in Walk(t)
                                            \/ pc[t] \in Serving /\ a \in Serve(t)
    <3>. SUFFICES ASSUME NEW a \in Served
                  PROVE  \E t \in Thread : \/ pc[t] = "walk" /\ a \in Walk(t)
                                           \/ pc[t] \in Serving /\ a \in Serve(t)
      OBVIOUS
    <3>1. Walkers \subseteq Thread /\ Servers \subseteq Thread
      OBVIOUS
    <3>2. (\A t \in Walkers : pc[t] = "walk") /\ (\A t \in Servers : pc[t] \in Serving)
      OBVIOUS
    <3>. HIDE DEF Walk, Serve, Walkers, Servers
    <3>3. (\E t \in Walkers : a \in Walk(t)) \/ (\E t \in Servers : a \in Serve(t))
      BY <2>1, Zenon
    <3>. QED
      BY <3>1, <3>2, <3>3, Zenon
  <2>5. PICK r \in [Task -> Nat] : Grows(r, LinkOf)
    BY <1>1 DEF WInv, Ranked
  <2>6. Lost = {}
    <3>. SUFFICES ASSUME Lost # {} PROVE FALSE
      OBVIOUS
    <3>. DEFINE R == {r[x] : x \in Lost}
    <3>1. R \in SUBSET Nat /\ R # {}
      BY <2>5
    <3>2. PICK x \in Lost : \A y \in Lost : r[x] <= r[y]
      <4>1. PICK n \in R : \A m \in R : n <= m
        <5>. HIDE DEF R
        <5>. QED
          BY <3>1, MinimumOf
      <4>2. PICK x \in Lost : n = r[x]
        BY <4>1
      <4>3. \A y \in Lost : r[x] <= r[y]
        BY <4>1, <4>2
      <4>. QED
        BY <4>3
    <3>3. x \in Task /\ task_status[x] = WAITING /\ x \notin Found
      BY <3>2
    <3>4. Refers(task_watch, LinkOf, CurOf, NxtOf, FwdOf, x)
      BY <1>1, <3>3 DEF WInv, WaitsPointed
    <3>. HIDE DEF Found, Lost
    <3>5. ASSUME NEW i \in Task, task_watch[i] \in Task
          PROVE  \A y \in Entries(task_watch[i]) : y \in Found
      BY <1>1, <3>5 DEF WInv, ActiveHeads, Found, Watched
    <3>6. ASSUME NEW t \in Thread
          PROVE  /\ pc[t] = "walk" => \A y \in Entries(to_notify[t]) : y \in Found
                 /\ pc[t] \in Serving => to_notify[t] \in Found
                                         /\ \A y \in Entries(next[t]) : y \in Found
      <4>1. pc[t] = "walk" => Walk(t) \subseteq Served
        BY <2>2, Zenon
      <4>2. pc[t] \in Serving => Serve(t) \subseteq Served
        BY <2>3, Zenon
      <4>. QED
        BY <4>1, <4>2 DEF Found
    <3>7. ASSUME NEW i \in Task PROVE task_watch[i] # x
      BY <3>3, <3>5, EntriesClosed
    <3>8. ASSUME NEW t \in Thread PROVE CurOf[t] # x /\ NxtOf[t] # x /\ FwdOf[t] # x
      <4>1. CurOf[t] # x
        BY <3>3, <3>6, EntriesClosed, NullIsNoTask DEF CurOf
      <4>2. NxtOf[t] # x
        BY <3>3, <3>6, EntriesClosed, NullIsNoTask DEF NxtOf
      <4>3. FwdOf[t] # x
        BY <3>3, NullIsNoTask DEF FwdOf, Holding, Found, Forwarded
      <4>. QED
        BY <4>1, <4>2, <4>3
    <3>9. PICK a \in Task : LinkOf[a] = x
      BY <3>4, <3>7, <3>8 DEF Refers
    <3>10. Linked(a) /\ wl_next[a] = x /\ r[a] < r[x]
      BY <2>5, <3>3, <3>9, NullIsNoTask DEF LinkOf, Grows
    <3>11. a \in Found
      <4>1. a \notin Lost
        BY <2>5, <3>2, <3>3, <3>10
      <4>. QED
        BY <3>10, <4>1 DEF Lost, Linked
    <3>12. CASE a \in Watched
      <4>1. PICK i \in Active : a \in Entries(task_watch[i])
        BY <3>12 DEF Watched
      <4>2. x \in Entries(task_watch[i])
        BY <3>3, <3>10, <4>1, EntriesClosed
      <4>. QED
        BY <3>3, <4>2 DEF Found, Watched
    <3>13. CASE a \in Served
      <4>1. PICK t \in Thread : \/ pc[t] = "walk" /\ a \in Entries(to_notify[t])
                                \/ pc[t] \in Serving /\ a \in {to_notify[t]} \cup Entries(next[t])
        <5>1. \E t \in Thread : \/ pc[t] = "walk" /\ a \in Walk(t)
                                \/ pc[t] \in Serving /\ a \in Serve(t)
          BY <2>4, <3>13, Zenon
        <5>. QED
          BY <5>1
      <4>2. ~(pc[t] \in Serving /\ a = to_notify[t])
        BY <3>10 DEF Linked, SrvOf
      <4>. QED
        BY <3>3, <3>6, <3>10, <4>1, <4>2, EntriesClosed
    <3>14. CASE a \in Forwarded
      <4>1. PICK t \in Thread : pc[t] \in Holding /\ next_task[t] = a
        BY <3>14 DEF Forwarded, Holding
      <4>2. FwdOf[t] = a
        BY <4>1, NullIsNoTask DEF FwdOf
      <4>. QED
        BY <3>10, <4>2 DEF Linked
    <3>. QED
      BY <3>11, <3>12, <3>13, <3>14 DEF Found
  <2>7. Active \subseteq Task
    BY <1>1, StatusTypes DEF IInv
  <2>. QED
    BY <2>6, <2>7 DEF NoLostWakeup
<1>. QED
  BY <1>1, PointedInvariance, PTL

=============================================================================
