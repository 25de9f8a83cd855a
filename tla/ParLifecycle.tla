---------------------------- MODULE ParLifecycle ----------------------------
(***************************************************************************)
(* The life of the worker threads of multicore performance: csoundStart    *)
(* creates them and meets them at a barrier (Top/main.c), each finds its   *)
(* index and then spins for work (kperf_thread, Top/csound_perf.c), the    *)
(* end of the score tells them to leave (csoundPerformKsmps), and          *)
(* csoundReset and csoundDestroy tell those still there and clear the      *)
(* instance under them (reset, Top/csound.c).  No thread is ever joined.   *)
(*                                                                         *)
(* The host makes one call at a time, as csound.h demands.  What the       *)
(* threads do inside a control period is module DagDispatch; here it is    *)
(* the state "perform".  A control period with no active instance does not *)
(* release the workers and changes nothing here.                           *)
(***************************************************************************)
EXTENDS Integers, Sequences

CONSTANTS
    numThreads,      \* oparms->numThreads: the performing thread and the workers
    MaxStarts,       \* bound: calls of csoundStart
    AfterEnd         \* TRUE: the host performs on after the end of the score

ASSUME ThreadsAssumption == numThreads \in Nat \ {0, 1}
ASSUME BoundsAssumption == MaxStarts \in Nat \ {0} /\ AfterEnd \in BOOLEAN

Start  == 1..MaxStarts
Slot   == 1..(numThreads - 1)          \* taskflag[0] is never used
Worker == Start \X Slot                \* the i-th thread of a start

VARIABLES
    hpc,         \* where the host's thread is
    starts,      \* csoundStart calls so far; the current generation
    parflag, multiThreadedComplete,
    taskflag,    \* the array, or <<>> when it has been freed
    threadInfo,  \* the list multiThreadedThreadInfo
    barrier,     \* one barrier2 per start
    wpc,         \* where each worker is
    index,       \* its local index
    wflag,       \* its local taskflag, the parflag it has last seen
    overtaken    \* history: the workers a reset did not find gone

flags  == <<parflag, multiThreadedComplete>>
tables == <<taskflag, threadInfo>>
local  == <<wpc, index, wflag>>
vars   == <<hpc, starts, flags, tables, barrier, local, overtaken>>

Init ==
    /\ hpc = "new" /\ starts = 0
    /\ parflag = 0 /\ multiThreadedComplete = 0
    /\ taskflag = <<>> /\ threadInfo = <<>>
    /\ barrier = [s \in Start |-> [count |-> 0, iteration |-> 0]]
    /\ wpc = [t \in Worker |-> "none"]
    /\ index = [t \in Worker |-> 0]
    /\ wflag = [t \in Worker |-> 0]
    /\ overtaken = {}

-----------------------------------------------------------------------------
(* The barrier of threads.c, and the flag that releases the workers.       *)

\* Mutant of BarrierMax: only the workers are counted.
BarrierMax_WorkersOnly == numThreads - 1

BarrierMax == numThreads

\* The first half of csoundWaitBarrier: the last to arrive opens the barrier.
Arrive(s) ==
    LET c == barrier[s].count + 1 IN
    barrier' = [barrier EXCEPT ![s] =
        IF c >= BarrierMax
        THEN [count |-> 0, iteration |-> @.iteration + 1]
        ELSE [count |-> c, iteration |-> @.iteration]]

Open(s) == barrier[s].iteration > 0

Not(flag) == 1 - flag

-----------------------------------------------------------------------------
(* The host: csoundStart.                                                  *)

BeginStart ==
    /\ hpc = "new" /\ starts < MaxStarts
    /\ hpc' = "create"
    /\ starts' = starts + 1
    /\ parflag' = 0 /\ multiThreadedComplete' = 0
    /\ taskflag' = [i \in Slot |-> 0]
    /\ UNCHANGED <<threadInfo, barrier, local, overtaken>>

\* The thread runs from here on, before it is in the list.
CreateThread ==
    /\ hpc = "create" /\ Len(threadInfo) < numThreads - 1
    /\ hpc' = "link"
    /\ wpc' = [wpc EXCEPT ![<<starts, Len(threadInfo) + 1>>] = "start"]
    /\ UNCHANGED <<starts, flags, tables, barrier, index, wflag, overtaken>>

LinkThread ==
    /\ hpc = "link"
    /\ hpc' = "create"
    /\ threadInfo' = Append(threadInfo, <<starts, Len(threadInfo) + 1>>)
    /\ UNCHANGED <<starts, flags, taskflag, barrier, local, overtaken>>

HostArrives ==
    /\ hpc = "create" /\ Len(threadInfo) = numThreads - 1
    /\ hpc' = "wait"
    /\ Arrive(starts)
    /\ UNCHANGED <<starts, flags, tables, local, overtaken>>

\* csoundStart returns; the instance is compiled and may be performed.
HostPasses ==
    /\ hpc = "wait" /\ Open(starts)
    /\ hpc' = "ready"
    /\ UNCHANGED <<starts, flags, tables, barrier, local, overtaken>>

-----------------------------------------------------------------------------
(* The host: csoundPerformKsmps.                                           *)

\* sense_events finds the end of the score in every call after the first that
\* does, until csoundRewindScore or a new event gives it work again; neither
\* touches the workers.
MayPerform == hpc = "ready" /\ (multiThreadedComplete = 1 => AfterEnd)

\* A control period with active instances releases the workers ...
Cycle ==
    /\ MayPerform
    /\ hpc' = "gather"
    /\ parflag' = Not(parflag)
    /\ UNCHANGED <<starts, multiThreadedComplete, tables, barrier, local, overtaken>>

\* ... and waits for all of them.
Gather ==
    /\ hpc = "gather" /\ \A i \in Slot : taskflag[i] = parflag
    /\ hpc' = "ready"
    /\ UNCHANGED <<starts, flags, tables, barrier, local, overtaken>>

\* Mutant of EndScore: the end is not marked before the workers are released.
EndScore_Unmarked ==
    /\ MayPerform
    /\ hpc' = "ending"
    /\ UNCHANGED <<starts, flags, tables, barrier, local, overtaken>>

\* sense_events finds the end.
EndScore ==
    /\ MayPerform
    /\ hpc' = "ending"
    /\ multiThreadedComplete' = 1
    /\ UNCHANGED <<starts, parflag, tables, barrier, local, overtaken>>

\* Mutant of FlipAtEnd: the workers are not released to see the end.
FlipAtEnd_Forgotten ==
    /\ hpc = "ending"
    /\ hpc' = "ready"
    /\ UNCHANGED <<starts, flags, tables, barrier, local, overtaken>>

FlipAtEnd ==
    /\ hpc = "ending"
    /\ hpc' = "ready"
    /\ parflag' = Not(parflag)
    /\ UNCHANGED <<starts, multiThreadedComplete, tables, barrier, local, overtaken>>

-----------------------------------------------------------------------------
(* The host: reset, called by csoundReset and csoundDestroy.               *)

\* Workers that were told to leave at the end of the score are not told again.
BeginReset ==
    /\ hpc = "ready"
    /\ IF multiThreadedComplete = 0
       THEN hpc' = "stopping" /\ multiThreadedComplete' = 1
       ELSE hpc' = "cleanup" /\ UNCHANGED multiThreadedComplete
    /\ UNCHANGED <<starts, parflag, tables, barrier, local, overtaken>>

StopWorkers ==
    /\ hpc = "stopping"
    /\ hpc' = "cleanup"
    /\ parflag' = Not(parflag)
    /\ UNCHANGED <<starts, multiThreadedComplete, tables, barrier, local, overtaken>>

Gone(t) == wpc[t] \in {"none", "exited"}

\* memreset frees the task flags and the list.  Nothing in the code waits for
\* the workers: those still on their way out are overtaken.
Memreset ==
    /\ hpc = "cleanup"
    /\ hpc' = "clear"
    /\ taskflag' = <<>> /\ threadInfo' = <<>>
    /\ overtaken' = overtaken \cup {t \in Worker : ~Gone(t)}
    /\ UNCHANGED <<starts, flags, barrier, local>>

\* The instance is overwritten with the initial environment cenviron_.
Clear ==
    /\ hpc = "clear"
    /\ hpc' = "new"
    /\ parflag' = 0 /\ multiThreadedComplete' = 0
    /\ UNCHANGED <<starts, tables, barrier, local, overtaken>>

Host ==
    \/ BeginStart \/ CreateThread \/ LinkThread \/ HostArrives \/ HostPasses
    \/ Cycle \/ Gather \/ EndScore \/ FlipAtEnd
    \/ BeginReset \/ StopWorkers \/ Memreset \/ Clear

-----------------------------------------------------------------------------
(* A worker: kperf_thread.                                                 *)

Goto(t, from, to) == wpc[t] = from /\ wpc' = [wpc EXCEPT ![t] = to]

shared == <<hpc, starts, flags, tables, barrier, overtaken>>

WorkerArrives(t) ==
    /\ Goto(t, "start", "wait")
    /\ Arrive(t[1])
    /\ UNCHANGED <<hpc, starts, flags, tables, index, wflag, overtaken>>

WorkerPasses(t) ==
    /\ Open(t[1])
    /\ Goto(t, "wait", "lookup")
    /\ UNCHANGED <<shared, index, wflag>>

\* get_thread_index and index++; a thread not in the list dies, "Bad ThreadId".
Lookup(t) ==
    /\ \/ \E i \in DOMAIN threadInfo :
              /\ threadInfo[i] = t
              /\ Goto(t, "lookup", "spin")
              /\ index' = [index EXCEPT ![t] = i]
       \/ /\ \A i \in DOMAIN threadInfo : threadInfo[i] # t
          /\ Goto(t, "lookup", "died")
          /\ UNCHANGED index
    /\ UNCHANGED <<shared, wflag>>

\* The loop that reads parflag until it differs from the one seen last.
Spin(t) ==
    /\ parflag # wflag[t]
    /\ Goto(t, "spin", "test")
    /\ wflag' = [wflag EXCEPT ![t] = parflag]
    /\ UNCHANGED <<shared, index>>

Test(t) ==
    /\ Goto(t, "test", IF multiThreadedComplete = 1 THEN "exited" ELSE "perform")
    /\ UNCHANGED <<shared, index, wflag>>

\* Mutant of Report: the index is not moved past the performing thread's.
Report_OffByOne(t) ==
    /\ IF taskflag = <<>>
       THEN Goto(t, "perform", "died") /\ UNCHANGED taskflag
       ELSE /\ Goto(t, "perform", "spin")
            /\ taskflag' = [i \in Slot |->
                   IF i = index[t] - 1 THEN wflag[t] ELSE taskflag[i]]
    /\ UNCHANGED <<hpc, starts, flags, threadInfo, barrier, index, wflag, overtaken>>

\* node_perf is over; the store of the task flag hits a freed array after
\* memreset.
Report(t) ==
    /\ IF taskflag = <<>>
       THEN Goto(t, "perform", "died") /\ UNCHANGED taskflag
       ELSE /\ Goto(t, "perform", "spin")
            /\ taskflag' = [taskflag EXCEPT ![index[t]] = wflag[t]]
    /\ UNCHANGED <<hpc, starts, flags, threadInfo, barrier, index, wflag, overtaken>>

WorkerStep(t) ==
    \/ WorkerArrives(t) \/ WorkerPasses(t) \/ Lookup(t)
    \/ Spin(t) \/ Test(t) \/ Report(t)

Next == Host \/ \E t \in Worker : WorkerStep(t)

\* Every thread that can run does; a call of the host that has begun goes on.
\* Nothing makes the host call.
Fairness ==
    /\ \A t \in Worker : WF_vars(WorkerStep(t))
    /\ WF_vars(CreateThread \/ LinkThread \/ HostArrives \/ HostPasses)
    /\ WF_vars(Gather) /\ WF_vars(FlipAtEnd) /\ WF_vars(StopWorkers)
    /\ WF_vars(Memreset \/ Clear)

Spec == Init /\ [][Next]_vars /\ Fairness

-----------------------------------------------------------------------------
(* Properties.                                                             *)

\* Type invariant: the flags of csoundCore.h stay 0 or 1, the task flags are
\* the array or freed, the list holds the threads of the current start.
TypeOK ==
    /\ hpc \in {"new", "create", "link", "wait", "ready", "gather", "ending",
               "stopping", "cleanup", "clear"}
    /\ starts \in 0..MaxStarts
    /\ parflag \in 0..1 /\ multiThreadedComplete \in 0..1
    /\ taskflag = <<>> \/ taskflag \in [Slot -> 0..1]
    /\ threadInfo \in Seq({starts} \X Slot) /\ Len(threadInfo) < numThreads
    /\ barrier \in [Start -> [count : 0..(numThreads - 1), iteration : 0..1]]
    /\ wpc \in [Worker -> {"none", "start", "wait", "lookup", "spin", "test",
                           "perform", "exited", "died"}]
    /\ index \in [Worker -> 0..(numThreads - 1)]
    /\ wflag \in [Worker -> 0..1]
    /\ overtaken \subseteq Worker

\* Every thread kperf_thread looks up finds itself in the list that csoundStart
\* is still building when the thread begins: none that a reset has not overtaken
\* dies with "Bad ThreadId", and no two threads of a start share an index, and
\* with it a task flag and a buffer of spout_tmp.
EveryWorkerHasIndex ==
    \A t \in Worker :
        /\ wpc[t] = "died" => t \in overtaken
        /\ wpc[t] \in {"spin", "test", "perform"} => index[t] = t[2]

\* As long as no reset has overtaken a worker, a thread is in node_perf only
\* while kperf waits for it, in the start it was created by: never beside the
\* host between two calls, after the end of the score, or after a reset.
OnlyReleasedWorkersPerform ==
    overtaken = {} =>
        \A t \in Worker : wpc[t] = "perform" => hpc = "gather" /\ t[1] = starts

\* kperf's wait for the task flags ends: csoundPerformKsmps returns, unless a
\* worker of an earlier start lives on and may answer in a new one's place.
GatherReturns ==
    (hpc = "gather" /\ overtaken = {}) ~> (hpc # "gather")

\* "exit thread on performance end" (kperf_thread), "stop multicore threads if
\* still running" (reset): once multiThreadedComplete is set, every worker of
\* the start leaves, but for those that reset overtakes on their way.
WorkersExit ==
    \A s \in Start :
        (starts = s /\ multiThreadedComplete = 1 /\ overtaken = {}) ~>
            (\A i \in Slot : wpc[<<s, i>>] = "exited" \/ <<s, i>> \in overtaken)
=============================================================================
