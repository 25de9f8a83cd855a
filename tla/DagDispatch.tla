---------------------------- MODULE DagDispatch ----------------------------
(***************************************************************************)
(* Parallel performance of one control period: the task graph of           *)
(* Engine/cs_new_dispatch.c and the threads of Top/csound_perf.c that      *)
(* drain it.                                                               *)
(*                                                                         *)
(* Thread 0 is the performance thread (kperf); threads 1..NumThreads-1 are *)
(* the workers (kperf_thread).  Task i is the i-th instance of the active  *)
(* chain at the time of the last dag_build.  Every read, write or          *)
(* compare-and-swap of shared memory is one step; a loop that retries a    *)
(* compare-and-swap until it succeeds is the step of its last iteration.   *)
(***************************************************************************)
EXTENDS Integers, Sequences, FiniteSets

CONSTANTS
    NumThreads,   \* oparms->numThreads
    Instr,        \* instrument numbers
    Reads,        \* INSTR_SEMANTICS.read of each instrument
    Writes,       \* INSTR_SEMANTICS.write
    ReadWrites,   \* INSTR_SEMANTICS.read_write
    Monitors,     \* instruments with an opcode flagged IW
    MaxActive,    \* bound: instances on the active chain
    MaxCycles,    \* bound: control periods performed
    WeakCAS,      \* TRUE: a compare-and-swap may fail spuriously (LL/SC builds)
    AsyncInsert   \* TRUE: realtime mode, instances are spliced by another thread

ASSUME ThreadsAssumption == NumThreads \in Nat \ {0}
ASSUME BoundsAssumption  == MaxActive \in Nat \ {0} /\ MaxCycles \in Nat
ASSUME InstrAssumption   == Instr \subseteq Nat
ASSUME SwitchAssumption  == WeakCAS \in BOOLEAN /\ AsyncInsert \in BOOLEAN

Thread == 0..(NumThreads - 1)
Worker == 1..(NumThreads - 1)
Task   == 0..(MaxActive - 1)

\* The taskID that is no task, the null pointer, and the closed watch list
INVALID   == -1
NULL      == -2
DoNotRead == -3

\* enum state
DONE       == 0
INPROGRESS == 1
AVAILABLE  == 2
WAITING    == 3

VARIABLES
    chain,        \* the active list (actanchor.nxtact ...), as instrument numbers
    inserting,    \* 1 while insert_new has marked dag_changed and not yet spliced
    dag_changed,
    task_map,     \* the chain the graph was built for
    task_dep,     \* task_dep[j]: the tasks j depends on
    task_status,
    task_watch,   \* task_watch[i]: head of the list of tasks to notify when i ends
    wl_next,      \* dag_wlmm[j].next: the entry after j on the list that holds j
    parflag,      \* the performance thread's cycle flag
    taskflag,     \* the workers' answers
    seen,         \* kperf_thread's local taskflag: the last parflag it saw
    pc,           \* where each thread is
    which_task,   \* node_perf's current task
    next_task,    \* the task forwarded by dag_end_task
    pos,          \* dag_get_task's scan index
    waiting,      \* dag_get_task's count_waiting # 0
    to_notify,    \* dag_end_task's current watcher
    next,         \* dag_end_task's saved successor of the current watcher
    k,            \* dag_end_task's dependency index
    wait_current, \* dag_end_task's wait_on_current_tasks
    ran,          \* history: how often each task was performed this cycle
    cycles        \* control periods started

dagVars    == <<task_map, task_dep, task_status, task_watch, wl_next>>
flagVars   == <<parflag, taskflag, seen>>
chainVars  == <<chain, inserting, dag_changed>>
scanVars   == <<pos, waiting>>
notifyVars == <<to_notify, next, k, wait_current>>
taskVars   == <<which_task, next_task>>
vars == <<chainVars, dagVars, flagVars, pc, taskVars, scanVars, notifyVars, ran, cycles>>

num_active == Len(task_map)
Active     == 0..(num_active - 1)
TaskInstr(i) == task_map[i + 1]

Goto(t, label) == pc' = [pc EXCEPT ![t] = label]
Minimum(S)     == CHOOSE m \in S : \A n \in S : m <= n
MaximumOrNull(S) == IF S = {} THEN NULL ELSE CHOOSE m \in S : \A n \in S : n <= m

(***************************************************************************)
(* dag_build and dag_reinit                                                *)
(***************************************************************************)

\* Mutant of Dependent: a later instance may overwrite what an earlier one reads.
Dependent_NoAntiDependency(a, b) ==
    \/ a \in Monitors \/ b \in Monitors
    \/ Writes[a] \cap Reads[b] # {}
    \/ Writes[a] \cap Writes[b] # {}

\* The test of dag_build: must a later instance of b wait for one of a?
Dependent(a, b) ==
    \/ a \in Monitors \/ b \in Monitors
    \/ Writes[a] \cap Reads[b] # {}
    \/ ReadWrites[a] \cap Reads[b] # {}
    \/ Reads[a] \cap Writes[b] # {}
    \/ Writes[a] \cap Writes[b] # {}
    \/ ReadWrites[a] \cap Writes[b] # {}
    \/ Reads[a] \cap ReadWrites[b] # {}
    \/ Writes[a] \cap ReadWrites[b] # {}

DepsOf(c) ==
    [j \in Task |-> IF j < Len(c)
                    THEN {i \in 0..(j - 1) : Dependent(c[i + 1], c[j + 1])}
                    ELSE {}]

\* A task that depends on others first watches the lowest of them; the lists
\* are built by pushing the tasks in ascending order.
FirstWatchers(dep, i) == {j \in Task : dep[j] # {} /\ Minimum(dep[j]) = i}

InitialStatus(dep, n) ==
    [j \in Task |-> IF j >= n THEN DONE
                    ELSE IF dep[j] = {} THEN AVAILABLE ELSE WAITING]

\* Mutant of dag_setup: dag_reinit forgets to reset the status array.
dag_setup_NoReset ==
    LET m == IF dag_changed THEN chain ELSE task_map
        d == IF dag_changed THEN DepsOf(chain) ELSE task_dep
    IN  /\ task_map' = m
        /\ task_dep' = d
        /\ task_status' = IF dag_changed THEN InitialStatus(d, Len(m)) ELSE task_status
        /\ task_watch' = [i \in Task |-> MaximumOrNull(FirstWatchers(d, i))]
        /\ wl_next' = [j \in Task |->
              IF d[j] = {} THEN wl_next[j]
              ELSE MaximumOrNull({l \in FirstWatchers(d, Minimum(d[j])) : l < j})]
        /\ dag_changed' = FALSE

\* dag_build when the chain changed since the last build, dag_reinit otherwise.
\* (The entries past num_active, which dag_build leaves as they are and
\* dag_reinit marks DONE, are never read.)
dag_setup ==
    LET m == IF dag_changed THEN chain ELSE task_map
        d == IF dag_changed THEN DepsOf(chain) ELSE task_dep
    IN  /\ task_map' = m
        /\ task_dep' = d
        /\ task_status' = InitialStatus(d, Len(m))
        /\ task_watch' = [i \in Task |-> MaximumOrNull(FirstWatchers(d, i))]
        /\ wl_next' = [j \in Task |->
              IF d[j] = {} THEN wl_next[j]
              ELSE MaximumOrNull({l \in FirstWatchers(d, Minimum(d[j])) : l < j})]
        /\ dag_changed' = FALSE

(***************************************************************************)
(* kperf and kperf_thread                                                  *)
(***************************************************************************)

\* kperf: prepare the graph of this control period.
StartCycle ==
    /\ pc[0] = "idle" /\ chain # <<>> /\ cycles < MaxCycles
    /\ dag_setup
    /\ cycles' = cycles + 1
    /\ ran' = [i \in Task |-> 0]
    /\ Goto(0, "release")
    /\ UNCHANGED <<chain, inserting, flagVars, taskVars, scanVars, notifyVars>>

\* kperf: flip parflag, which releases the workers, and join the work.
Release ==
    /\ pc[0] = "release"
    /\ parflag' = 1 - parflag
    /\ next_task' = [next_task EXCEPT ![0] = INVALID]
    /\ Goto(0, "get")
    /\ UNCHANGED <<chainVars, dagVars, taskflag, seen, which_task, scanVars,
                   notifyVars, ran, cycles>>

\* kperf_thread: the spin on parflag ends.
Wake(t) ==
    /\ t \in Worker /\ pc[t] = "idle" /\ parflag # seen[t]
    /\ seen' = [seen EXCEPT ![t] = parflag]
    /\ next_task' = [next_task EXCEPT ![t] = INVALID]
    /\ Goto(t, "get")
    /\ UNCHANGED <<chainVars, dagVars, parflag, taskflag, which_task, scanVars,
                   notifyVars, ran, cycles>>

\* kperf_thread: answer the cycle after node_perf returned.
Report(t) ==
    /\ t \in Worker /\ pc[t] = "report"
    /\ taskflag' = [taskflag EXCEPT ![t] = seen[t]]
    /\ Goto(t, "idle")
    /\ UNCHANGED <<chainVars, dagVars, parflag, seen, taskVars, scanVars,
                   notifyVars, ran, cycles>>

\* Mutant of Gather: the loop over taskflag stops one worker early.
Gather_OneShort ==
    /\ pc[0] = "report"
    /\ \A t \in 1..(NumThreads - 2) : taskflag[t] = parflag
    /\ Goto(0, "mix")
    /\ UNCHANGED <<chainVars, dagVars, flagVars, taskVars, scanVars,
                   notifyVars, ran, cycles>>

\* kperf: every worker answered.
Gather ==
    /\ pc[0] = "report"
    /\ \A t \in Worker : taskflag[t] = parflag
    /\ Goto(0, "mix")
    /\ UNCHANGED <<chainVars, dagVars, flagVars, taskVars, scanVars,
                   notifyVars, ran, cycles>>

\* kperf: mix the threads' buffers and send the period to the output.
Mix ==
    /\ pc[0] = "mix"
    /\ Goto(0, "idle")
    /\ UNCHANGED <<chainVars, dagVars, flagVars, taskVars, scanVars,
                   notifyVars, ran, cycles>>

(***************************************************************************)
(* dag_get_task                                                            *)
(***************************************************************************)

ScanStart(t) == (t * num_active) \div NumThreads

\* The task forwarded by dag_end_task is started without a search.
TakeForwarded(t) ==
    /\ pc[t] = "get" /\ next_task[t] # INVALID
    /\ task_status' = [task_status EXCEPT ![next_task[t]] = INPROGRESS]
    /\ which_task' = [which_task EXCEPT ![t] = next_task[t]]
    /\ Goto(t, "run")
    /\ UNCHANGED <<chainVars, task_map, task_dep, task_watch, wl_next, flagVars,
                   next_task, scanVars, notifyVars, ran, cycles>>

BeginScan(t) ==
    /\ pc[t] = "get" /\ next_task[t] = INVALID
    /\ pos' = [pos EXCEPT ![t] = ScanStart(t)]
    /\ waiting' = [waiting EXCEPT ![t] = FALSE]
    /\ Goto(t, "scan")
    /\ UNCHANGED <<chainVars, dagVars, flagVars, taskVars, notifyVars, ran, cycles>>

\* Advance the scan; after a full turn retry (WAIT) or leave node_perf (INVALID).
ScanOn(t, sawWaiting) ==
    LET i == IF pos[t] + 1 = num_active THEN 0 ELSE pos[t] + 1
    IN  /\ pos' = [pos EXCEPT ![t] = i]
        /\ waiting' = [waiting EXCEPT ![t] = sawWaiting]
        /\ Goto(t, IF i # ScanStart(t) THEN "scan"
                   ELSE IF sawWaiting THEN "get" ELSE "report")

Scan(t) ==
    /\ pc[t] = "scan"
    /\ IF task_status[pos[t]] = AVAILABLE
       THEN Goto(t, "cas") /\ UNCHANGED scanVars
       ELSE ScanOn(t, waiting[t] \/ task_status[pos[t]] = WAITING)
    /\ UNCHANGED <<chainVars, dagVars, flagVars, taskVars, notifyVars, ran, cycles>>

\* Mutant of CasTake: a plain store in place of the compare-and-swap.
CasTake_PlainStore(t) ==
    /\ pc[t] = "cas"
    /\ task_status' = [task_status EXCEPT ![pos[t]] = INPROGRESS]
    /\ which_task' = [which_task EXCEPT ![t] = pos[t]]
    /\ Goto(t, "run")
    /\ UNCHANGED <<chainVars, task_map, task_dep, task_watch, wl_next, flagVars,
                   next_task, scanVars, notifyVars, ran, cycles>>

CasTake(t) ==
    /\ pc[t] = "cas" /\ task_status[pos[t]] = AVAILABLE
    /\ task_status' = [task_status EXCEPT ![pos[t]] = INPROGRESS]
    /\ which_task' = [which_task EXCEPT ![t] = pos[t]]
    /\ Goto(t, "run")
    /\ UNCHANGED <<chainVars, task_map, task_dep, task_watch, wl_next, flagVars,
                   next_task, scanVars, notifyVars, ran, cycles>>

\* Another thread took it, or the weak compare-and-swap failed spuriously.
CasFail(t) ==
    /\ pc[t] = "cas" /\ (task_status[pos[t]] # AVAILABLE \/ WeakCAS)
    /\ ScanOn(t, waiting[t])
    /\ UNCHANGED <<chainVars, dagVars, flagVars, taskVars, notifyVars, ran, cycles>>

(***************************************************************************)
(* node_perf: perform the instance                                         *)
(***************************************************************************)

\* The opcodes of the instance have run; dag_end_task publishes DONE.
Finish(t) ==
    /\ pc[t] = "run"
    /\ ran' = [ran EXCEPT ![which_task[t]] = @ + 1]
    /\ task_status' = [task_status EXCEPT ![which_task[t]] = DONE]
    /\ Goto(t, "swap")
    /\ UNCHANGED <<chainVars, task_map, task_dep, task_watch, wl_next, flagVars,
                   taskVars, scanVars, notifyVars, cycles>>

\* deact takes the p-th instance off the active chain.
Unlink(c, p) == SubSeq(c, 1, p - 1) \o SubSeq(c, p + 1, Len(c))

\* An opcode of a running instance turns an instance off: the chain changes
\* under the cycle, whose graph does not.
TurnoffWhileRunning(t) ==
    /\ pc[t] = "run"
    /\ \E p \in 1..Len(chain) : chain' = Unlink(chain, p)
    /\ dag_changed' = TRUE
    /\ UNCHANGED <<inserting, dagVars, flagVars, pc, taskVars, scanVars,
                   notifyVars, ran, cycles>>

(***************************************************************************)
(* dag_end_task                                                            *)
(***************************************************************************)

\* Mutant of CloseList: the list is read but stays open.
CloseList_LeftOpen(t) ==
    /\ pc[t] = "swap"
    /\ to_notify' = [to_notify EXCEPT ![t] = task_watch[which_task[t]]]
    /\ task_watch' = [task_watch EXCEPT ![which_task[t]] = NULL]
    /\ next_task' = [next_task EXCEPT ![t] = INVALID]
    /\ Goto(t, "walk")
    /\ UNCHANGED <<chainVars, task_map, task_dep, task_status, wl_next, flagVars,
                   which_task, scanVars, next, k, wait_current, ran, cycles>>

\* Take the list of watchers and close it.
CloseList(t) ==
    /\ pc[t] = "swap"
    /\ to_notify' = [to_notify EXCEPT ![t] = task_watch[which_task[t]]]
    /\ task_watch' = [task_watch EXCEPT ![which_task[t]] = DoNotRead]
    /\ next_task' = [next_task EXCEPT ![t] = INVALID]
    /\ Goto(t, "walk")
    /\ UNCHANGED <<chainVars, task_map, task_dep, task_status, wl_next, flagVars,
                   which_task, scanVars, next, k, wait_current, ran, cycles>>

NextWatcher(t) ==
    /\ pc[t] = "walk" /\ to_notify[t] # NULL
    /\ next' = [next EXCEPT ![t] = wl_next[to_notify[t]]]
    /\ k' = [k EXCEPT ![t] = 0]
    /\ wait_current' = [wait_current EXCEPT ![t] = FALSE]
    /\ Goto(t, "pass1")
    /\ UNCHANGED <<chainVars, dagVars, flagVars, taskVars, scanVars, to_notify,
                   ran, cycles>>

EndTask(t) ==
    /\ pc[t] = "walk" /\ to_notify[t] = NULL
    /\ Goto(t, "get")
    /\ UNCHANGED <<chainVars, dagVars, flagVars, taskVars, scanVars, notifyVars,
                   ran, cycles>>

\* The dependencies of the watcher that this pass has not looked at yet.
Remaining(t) == {d \in task_dep[to_notify[t]] : d >= k[t]}

\* First pass: prefer a dependency that is itself waiting.
LookWaiting(t) ==
    /\ pc[t] = "pass1" /\ Remaining(t) # {}
    /\ LET d == Minimum(Remaining(t))
           s == task_status[d]
       IN  /\ k' = [k EXCEPT ![t] = IF s = WAITING THEN d ELSE d + 1]
           /\ wait_current' =
                 [wait_current EXCEPT ![t] = @ \/ s \in {AVAILABLE, INPROGRESS}]
           /\ Goto(t, IF s = WAITING THEN "move1" ELSE "pass1")
    /\ UNCHANGED <<chainVars, dagVars, flagVars, taskVars, scanVars, to_notify, next,
                   ran, cycles>>

\* Second pass: any dependency that is not done.
SecondPass(t) ==
    /\ pc[t] = "pass1" /\ Remaining(t) = {} /\ wait_current[t]
    /\ k' = [k EXCEPT ![t] = 0]
    /\ Goto(t, "pass2")
    /\ UNCHANGED <<chainVars, dagVars, flagVars, taskVars, scanVars, to_notify, next,
                   wait_current, ran, cycles>>

\* Mutant of LookUnfinished: a dependency in progress counts as done.
LookUnfinished_IgnoresInProgress(t) ==
    /\ pc[t] = "pass2" /\ Remaining(t) # {}
    /\ LET d == Minimum(Remaining(t))
       IN  IF task_status[d] \in {WAITING, AVAILABLE}
           THEN k' = [k EXCEPT ![t] = d] /\ Goto(t, "move2")
           ELSE k' = [k EXCEPT ![t] = d + 1] /\ UNCHANGED pc
    /\ UNCHANGED <<chainVars, dagVars, flagVars, taskVars, scanVars, to_notify, next,
                   wait_current, ran, cycles>>

LookUnfinished(t) ==
    /\ pc[t] = "pass2" /\ Remaining(t) # {}
    /\ LET d == Minimum(Remaining(t))
       IN  IF task_status[d] # DONE
           THEN k' = [k EXCEPT ![t] = d] /\ Goto(t, "move2")
           ELSE k' = [k EXCEPT ![t] = d + 1] /\ UNCHANGED pc
    /\ UNCHANGED <<chainVars, dagVars, flagVars, taskVars, scanVars, to_notify, next,
                   wait_current, ran, cycles>>

\* Mutant of MoveWatch: the walk goes on from the entry's new successor.
MoveWatch_NextNotSaved(t) ==
    /\ pc[t] \in {"move1", "move2"} /\ task_watch[k[t]] # DoNotRead
    /\ wl_next' = [wl_next EXCEPT ![to_notify[t]] = task_watch[k[t]]]
    /\ task_watch' = [task_watch EXCEPT ![k[t]] = to_notify[t]]
    /\ to_notify' = [to_notify EXCEPT ![t] = task_watch[k[t]]]
    /\ Goto(t, "walk")
    /\ UNCHANGED <<chainVars, task_map, task_dep, task_status, flagVars, taskVars,
                   scanVars, next, k, wait_current, ran, cycles>>

\* move_watch succeeds: the watcher is put in front of the list of task k.
MoveWatch(t) ==
    /\ pc[t] \in {"move1", "move2"} /\ task_watch[k[t]] # DoNotRead
    /\ wl_next' = [wl_next EXCEPT ![to_notify[t]] = task_watch[k[t]]]
    /\ task_watch' = [task_watch EXCEPT ![k[t]] = to_notify[t]]
    /\ to_notify' = [to_notify EXCEPT ![t] = next[t]]
    /\ Goto(t, "walk")
    /\ UNCHANGED <<chainVars, task_map, task_dep, task_status, flagVars, taskVars,
                   scanVars, next, k, wait_current, ran, cycles>>

\* move_watch finds the list closed: task k ended in the meantime.
MoveTooLate(t) ==
    /\ pc[t] \in {"move1", "move2"} /\ task_watch[k[t]] = DoNotRead
    /\ wl_next' = [wl_next EXCEPT ![to_notify[t]] = NULL]
    /\ k' = [k EXCEPT ![t] = @ + 1]
    /\ Goto(t, IF pc[t] = "move1" THEN "pass1" ELSE "pass2")
    /\ UNCHANGED <<chainVars, task_map, task_dep, task_status, task_watch, flagVars,
                   taskVars, scanVars, to_notify, next, wait_current, ran, cycles>>

\* canQueue: the first watcher is forwarded to this thread, the others are
\* made available to all.
Queue(t) ==
    /\ \/ pc[t] = "pass1" /\ ~wait_current[t]
       \/ pc[t] = "pass2"
    /\ Remaining(t) = {}
    /\ IF next_task[t] = INVALID
       THEN next_task' = [next_task EXCEPT ![t] = to_notify[t]] /\ UNCHANGED task_status
       ELSE task_status' = [task_status EXCEPT ![to_notify[t]] = AVAILABLE]
            /\ UNCHANGED next_task
    /\ to_notify' = [to_notify EXCEPT ![t] = next[t]]
    /\ Goto(t, "walk")
    /\ UNCHANGED <<chainVars, task_map, task_dep, task_watch, wl_next, flagVars,
                   which_task, scanVars, next, k, wait_current, ran, cycles>>

(***************************************************************************)
(* The active chain between control periods                                *)
(***************************************************************************)

\* The standard splice of insert_new: ascending instrument number.
Splice(c, ins) ==
    LET p == Cardinality({i \in 1..Len(c) : c[i] <= ins})
    IN  SubSeq(c, 1, p) \o <<ins>> \o SubSeq(c, p + 1, Len(c))

\* insert_new and deact on the performance thread, from sense_events.
InsertInstance ==
    /\ ~AsyncInsert /\ pc[0] = "idle" /\ Len(chain) < MaxActive
    /\ \E ins \in Instr : chain' = Splice(chain, ins)
    /\ dag_changed' = TRUE
    /\ UNCHANGED <<inserting, dagVars, flagVars, pc, taskVars, scanVars,
                   notifyVars, ran, cycles>>

\* Mutant of DeactInstance: the change is not counted.
DeactInstance_Unmarked ==
    /\ pc[0] = "idle" /\ inserting = 0
    /\ \E p \in 1..Len(chain) : chain' = Unlink(chain, p)
    /\ UNCHANGED <<inserting, dag_changed, dagVars, flagVars, pc, taskVars, scanVars,
                   notifyVars, ran, cycles>>

DeactInstance ==
    /\ pc[0] = "idle" /\ inserting = 0
    /\ \E p \in 1..Len(chain) : chain' = Unlink(chain, p)
    /\ dag_changed' = TRUE
    /\ UNCHANGED <<inserting, dagVars, flagVars, pc, taskVars, scanVars,
                   notifyVars, ran, cycles>>

\* insert_new on the event insertion thread of realtime mode: it counts the
\* change first and splices the instance in a later step.
AsyncMark ==
    /\ AsyncInsert /\ inserting = 0 /\ Len(chain) < MaxActive
    /\ inserting' = 1
    /\ dag_changed' = TRUE
    /\ UNCHANGED <<chain, dagVars, flagVars, pc, taskVars, scanVars, notifyVars,
                   ran, cycles>>

AsyncSplice ==
    /\ inserting = 1
    /\ inserting' = 0
    /\ \E ins \in Instr : chain' = Splice(chain, ins)
    /\ UNCHANGED <<dag_changed, dagVars, flagVars, pc, taskVars, scanVars,
                   notifyVars, ran, cycles>>

-----------------------------------------------------------------------------

\* The instances start to sound between cycles; no graph exists yet.
Init ==
    /\ chain = <<>> /\ inserting = 0 /\ dag_changed = TRUE
    /\ task_map = <<>>
    /\ task_dep = [i \in Task |-> {}]
    /\ task_status = [i \in Task |-> DONE]
    /\ task_watch = [i \in Task |-> NULL]
    /\ wl_next = [i \in Task |-> NULL]
    /\ parflag = 0
    /\ taskflag = [t \in Worker |-> 0]
    /\ seen = [t \in Worker |-> 0]
    /\ pc = [t \in Thread |-> "idle"]
    /\ which_task = [t \in Thread |-> 0]
    /\ next_task = [t \in Thread |-> INVALID]
    /\ pos = [t \in Thread |-> 0]
    /\ waiting = [t \in Thread |-> FALSE]
    /\ to_notify = [t \in Thread |-> NULL]
    /\ next = [t \in Thread |-> NULL]
    /\ k = [t \in Thread |-> 0]
    /\ wait_current = [t \in Thread |-> FALSE]
    /\ ran = [i \in Task |-> 0]
    /\ cycles = 0

\* What a thread does inside node_perf, dag_get_task and dag_end_task.
NodePerf(t) ==
    \/ TakeForwarded(t) \/ BeginScan(t) \/ Scan(t) \/ CasTake(t) \/ CasFail(t)
    \/ Finish(t) \/ CloseList(t) \/ NextWatcher(t) \/ EndTask(t)
    \/ LookWaiting(t) \/ SecondPass(t) \/ LookUnfinished(t)
    \/ MoveWatch(t) \/ MoveTooLate(t) \/ Queue(t)

ThreadStep(t) == NodePerf(t) \/ Wake(t) \/ Report(t)
MasterStep == StartCycle \/ Release \/ Gather \/ Mix
ChainStep  == InsertInstance \/ DeactInstance \/ AsyncMark \/ AsyncSplice

Next ==
    \/ MasterStep
    \/ ChainStep
    \/ \E t \in Thread : ThreadStep(t) \/ TurnoffWhileRunning(t)

Spec == Init /\ [][Next]_vars

\* Every thread keeps being scheduled: the operating system runs the workers,
\* which never block (they spin), and the host keeps calling csoundPerformKsmps.
FairSpec == Spec /\ WF_vars(Release \/ Gather \/ Mix)
                 /\ \A t \in Thread : WF_vars(ThreadStep(t))

-----------------------------------------------------------------------------
(***************************************************************************)
(* Properties                                                              *)
(***************************************************************************)

Label == {"idle", "release", "get", "scan", "cas", "run", "swap", "walk",
          "pass1", "pass2", "move1", "move2", "report", "mix"}

\* Every variable has its type; parflag and the flags of the workers are bits.
TypeOK ==
    /\ chain \in Seq(Instr) /\ Len(chain) <= MaxActive
    /\ inserting \in {0, 1} /\ dag_changed \in BOOLEAN
    /\ task_map \in Seq(Instr) /\ Len(task_map) <= MaxActive
    /\ task_dep \in [Task -> SUBSET Task]
    /\ task_status \in [Task -> {DONE, INPROGRESS, AVAILABLE, WAITING}]
    /\ task_watch \in [Task -> Task \cup {NULL, DoNotRead}]
    /\ wl_next \in [Task -> Task \cup {NULL}]
    /\ parflag \in {0, 1}
    /\ taskflag \in [Worker -> {0, 1}] /\ seen \in [Worker -> {0, 1}]
    /\ pc \in [Thread -> Label]
    /\ which_task \in [Thread -> Task]
    /\ next_task \in [Thread -> Task \cup {INVALID}]
    /\ pos \in [Thread -> Task] /\ waiting \in [Thread -> BOOLEAN]
    /\ to_notify \in [Thread -> Task \cup {NULL}]
    /\ next \in [Thread -> Task \cup {NULL}]
    /\ k \in [Thread -> 0..MaxActive] /\ wait_current \in [Thread -> BOOLEAN]
    /\ ran \in [Task -> Nat] /\ cycles \in 0..MaxCycles

\* Two instruments touch the same global resource and at least one of them
\* overwrites it; or one of them monitors the output (opcodes flagged IW).
Conflict(a, b) ==
    \/ a \in Monitors \/ b \in Monitors
    \/ Writes[a] \cap (Reads[b] \cup Writes[b] \cup ReadWrites[b]) # {}
    \/ Writes[b] \cap (Reads[a] \cup Writes[a] \cup ReadWrites[a]) # {}
    \/ ReadWrites[a] \cap Reads[b] # {} \/ ReadWrites[b] \cap Reads[a] # {}

Busy == {i \in Active : task_status[i] \in {INPROGRESS, DONE}}

\* A task of the parallel dispatcher starts only when every earlier task of the
\* chain whose instrument conflicts with its own has ended: the parallel period
\* computes what the sequential traversal of kperf computes.
ConflictsInOrder ==
    \A j \in Busy : \A i \in 0..(j - 1) :
        Conflict(TaskInstr(i), TaskInstr(j)) => task_status[i] = DONE

\* Nobody performs a task twice in a control period: neither a scan that races
\* a forwarded task, nor two threads that notify the same watcher.
NoTaskTwice ==
    /\ \A i \in Task : ran[i] <= 1
    /\ \A t, u \in Thread :
          t # u /\ pc[t] = "run" /\ pc[u] = "run" => which_task[t] # which_task[u]

\* When the performance thread mixes the buffers, every instance of the chain
\* has been performed: no watcher was lost, no thread left too early.
CycleComplete ==
    pc[0] = "mix" => \A i \in Active : task_status[i] = DONE /\ ran[i] = 1

\* The graph and the buffers are rebuilt only while every worker spins outside
\* node_perf, having seen the current parflag.
WorkersParked ==
    pc[0] \in {"idle", "release", "mix"} =>
        \A t \in Worker : pc[t] = "idle" /\ seen[t] = parflag

\* The entries of the watch list that starts at p: the least set that holds p
\* and, with an entry, the entry after it.
Entries(p) ==
    {x \in Task : \A S \in SUBSET Task :
        (p \in Task => p \in S) /\ (\A a \in S : wl_next[a] \in Task => wl_next[a] \in S)
          => x \in S}

Serving == {"pass1", "pass2", "move1", "move2"}

\* The tasks that an open list or an ending task still has to serve, and those
\* forwarded to a thread.
Watched == UNION {Entries(task_watch[i]) : i \in Active}
Served == (UNION {Entries(to_notify[t]) : t \in {u \in Thread : pc[u] = "walk"}})
          \cup (UNION {{to_notify[t]} \cup Entries(next[t]) :
                        t \in {u \in Thread : pc[u] \in Serving}})
Forwarded == {next_task[t] : t \in {u \in Thread : pc[u] \in {"get", "walk"} \cup Serving}}

\* No lost wake-up: a task that waits is on the list of a task that has not
\* closed it, or is held by a thread that is about to move or start it.
NoLostWakeup ==
    \A j \in Active :
        task_status[j] = WAITING => j \in Watched \cup Served \cup Forwarded

\* Once the graph is built and no insertion is under way, the graph that the
\* next period uses is the graph of the active chain (dag_changed is the only
\* trigger of a rebuild).
GraphIsCurrent ==
    ~dag_changed /\ inserting = 0 => task_map = chain

\* Every control period ends.
CycleEnds == pc[0] = "release" ~> pc[0] = "idle"

(***************************************************************************)
(* Refinement: the promise of the dispatcher, one control period at a time *)
(***************************************************************************)

\* A graph of tasks, each performed once, after the tasks it depends on.
Graph == INSTANCE TaskGraph WITH
            n     <- num_active,
            dep   <- task_dep,
            state <- [i \in Task |->
                        CASE task_status[i] = DONE -> "done"
                          [] task_status[i] = INPROGRESS -> "running"
                          [] OTHER -> "todo"]

\* The dispatcher implements the task graph.
ImplementsTaskGraph == Graph!Spec

=============================================================================
