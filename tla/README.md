# TLA+ models of the Csound engine

This directory models the concurrent core of Csound (library `libcsound`): the
parallel dispatcher of control periods, the life of instrument instances
between the performance thread and the event thread of realtime mode, the event
thread with its queues, MIDI keys and shutdown, the times at which score events
happen and notes end, the performance thread object of the host API, the
single-producer single-consumer ring, the queue of asynchronous API requests,
and the life of the worker threads. Every module is translated from the C and
C++ source; `PROJECT.json` maps each definition to the lines it stands for.

## 1. Inventory

| component | source | state | operations | what is hard | correct when |
|---|---|---|---|---|---|
| Parallel dispatcher | `Engine/cs_new_dispatch.c`, `Top/csound_perf.c` | task graph (`task_dep`, `task_status`, `task_watch`, `dag_wlmm`), flags `parflag`/`taskflag` | `dag_build`, `dag_reinit`, `dag_get_task`, `dag_end_task`, `kperf`, `kperf_thread` | lock-free lists changed by several threads; spinning threads; a graph rebuilt between periods | conflicting instances run in chain order; each instance once; every period ends |
| Active instances | `Engine/insert.c`, `OOps/goto_ops.c`, `OOps/diskin2.c` | active chain, free list, off-time list, per-instance `actflg`, `init_done`, `init_running`, `turnoff_pending`, `retired_epoch` | `insert_new`, `deact`, `xturnoff`, `xturnoff_now`, `time_expire`, `maxalloc_turnoff`, `free_inactive_instances`, reinit | turnoff from running opcodes and from either thread during an init pass on another thread; reuse and freeing under a walk of the chain | passes of one instance never overlap; nothing retired or freed is reached; no activation is taken back twice |
| Realtime event insertion | `Engine/insert.c` (`event_insert_thread`), `Engine/musmon.c` | allocation queue, message queue, thread state | enqueue, dequeue, logging, stop, join | a producer, a logger or a late request meets the shutdown | nothing accepted is lost, no freed queue is written, shutdown ends |
| MIDI notes | `InOut/midirecv.c`, `Engine/insert.c`, `Engine/musmon.c` | key lists, sustain marks | note on/off, sustain pedal | note-offs that overtake note-ons in the queue; overlapping notes of one key | no note hangs |
| Event scheduler | `Engine/musmon.c`, `Engine/insert.c` | score cursor, `nxtim`, `cyclesRemaining`, off-time list, realtime event list | `sense_events`, `insert_event_node`, `sched_off_time`, `time_expire` | starts, waits and ends are rounded separately; a busy lock; section ends | notes start and end in the period next to their times; no endless wait |
| Performance thread | `Top/csPerfThread.cpp` | message list, `paused`, `status`, thread locks, recorder | the methods, `Perform`, `FlushMessageQueue`, `Record`, `Join` | stop, pause, flush and recording in every order, from several threads and callbacks | flush means flushed; audio goes on; `Join` returns |
| Ring | `InOut/circularbuffer.c` | buffer, `wp`, `rp` | read, peek, flush, write, check | both sides compute with a stale cursor of the other | a bounded FIFO, no slot used by both |
| Async API queue | `Top/threadsafe.c` | slots with `ready`, two positions, status, warned flag | enqueue wrappers, `message_dequeue`, `csoundGetAsyncStatus` | many producers, position wrap-around, nested calls from the audio thread, callbacks | a bounded FIFO; accepted requests run once; caller reads its own status |
| Worker life cycle | `Top/main.c`, `Top/csound_perf.c`, `Top/csound.c` | `multiThreadedComplete`, `parflag` | start, end of performance, reset | workers are never joined | every worker leaves |
| Channels | `OOps/bus.c` | name table, values with spin locks | set/get | audio thread versus host | a reader sees one writer's value |
| Opcodes, parser, drivers, front ends, bindings, utilities | `OOps/`, `Opcodes/`, `Engine/csound_orc*`, `InOut/rt*`, `Frontends/`, `util/` | - | - | numerical or sequential code | not modelled |

How they interact: the host calls `csoundPerformKsmps`, directly or through the
performance thread object. It runs `sense_events`, which takes the turnoffs
that the event thread hands over, expires notes, dispatches score, realtime and
MIDI events, and then `kperf`, which drains the async queue and performs the
active chain: alone, walking it, or with the workers after the task graph is
rebuilt or reset. In realtime mode notes are not inserted there: they go
through the allocation queue to the event thread, which links instances into
the chain and runs their init and reinit passes while the chain is performed.

## 2. Modules

| module | models |
|---|---|
| `DagDispatch` | the dispatcher, one step per shared access |
| `TaskGraph` | its promise: a graph of tasks, each performed once after its dependencies |
| `MCDagDispatch` | an orchestra of four instruments for TLC |
| `DagDispatch_proofs` | theorems: order and ownership; completeness, wake-ups, refinement |
| `InstanceLife` | the life of instances on the two threads of realtime mode |
| `MCInstanceLife`, `InstanceLife_proofs` | symmetry for TLC; theorems |
| `InsertThread`, `InsertThread_proofs` | the event thread's queues, MIDI keys and pedal, end of score, shutdown; theorems |
| `EventSchedule`, `EventSchedule_proofs` | times: score, section ends, realtime events, off-time list, release; theorems |
| `PerfThread`, `PerfThread_proofs` | the performance thread object of the host API; theorems |
| `CircularBuffer`, `Fifo` | the ring and its promise |
| `MCCircularBuffer`, `CircularBuffer_proofs` | its instance; theorems |
| `MessageQueue`, `ApiQueue` | the async API queue and its promise |
| `MCMessageQueue`, `MessageQueue_proofs` | its instance; theorems |
| `ParLifecycle`, `ParLifecycle_proofs` | start, end and reset of the workers; theorems |

Three of them look at the same code from different sides. `InstanceLife` keeps
the words and lists of an instance and abstracts time: when a note is due is a
free choice. `EventSchedule` keeps the times and abstracts the passes: an insert
is one step. `InsertThread` keeps the queues and the order of requests and
abstracts both. `DagDispatch` keeps only whether an instance is in the chain.

### DagDispatch

`task_status`, `task_watch`, `wl_next` are the arrays `dag_task_status`,
`dag_task_watch` and `dag_wlmm[].next`; `task_map` is the chain the graph was
built for. Thread 0 is the performance thread, the others are the workers; `pc`
says where each is:

`idle` (spin on `parflag`) - `release` - `get` (`dag_get_task`) - `scan` -
`cas` - `run` (the opcodes) - `swap` (close the list) - `walk` - `pass1`/`pass2`
(look for the next dependency to watch) - `move1`/`move2` (`move_watch`) -
`report` - `mix`.

A retry loop around a compare-and-swap that only ends with success
(`move_watch`, the swap of `dag_end_task`) is its last, successful iteration.
The compare-and-swap of `dag_get_task` is not a loop, so its failure is an
action of its own (`CasFail`), and with `WeakCAS` it may fail spuriously, which
is what `__atomic_compare_exchange_n(..., true, ...)` allows. The read and
write sets of the instruments are constants. The opcodes of an instance are one
step, in which it may turn an instance off (`TurnoffWhileRunning`). Memory is
sequentially consistent: the statuses are `volatile`, read and written without
fences, so weaker orders of the hardware are not covered.

`dag_setup` is one step. In realtime mode (`AsyncInsert`) the insertion thread
could also splice between the two walks of `dag_build`; that window is listed
as a hazard and not modelled.

### InstanceLife

Variables: `ins` holds the plain fields of each `INSDS` (`actflg`, `init_done`,
`relesing`, `xtratim`, whether p3 is finite, whether it has open files and
asynchronous readers, and `retired`, which stands for a `retired_epoch` that the
render interval under way still protects); `init_running` and `turnoff_pending`
are the words under `async_ref_spinlock`; `link` is `nxtact`/`prvact`; `free`,
`handoff` and `offs` count how often an instance is on the free list, on
`init_turnoff_pending` and on the off-time list, so that a double link shows.
A section under `async_ref_spinlock` or `instance_spinlock` is one step,
`alloc_spinlock` is a variable, and every store into the chain is a step,
because no lock protects the chain.

`call` is the turnoff a thread is in. `TurnOff` is the test of `actflg` with
which `deact` and `xturnoff` begin; then `claim` (or `revive` for the hand-off) -
`now` - `unschedule` - `extend` - `giveback` - `reschedule` for a note that gets
release time, or `deinit` - `unlink` - `ahead` - `back` (the two stores of the
unlink) - `retire` - `close` - `list` - `complete`. `perf.pc`:
`pending`/`batch`/`batched` (`instance_process_pending_turnoffs`) -
`expire`/`expiring` (`time_expire`) - `events`/`rtevents` - `section`/`purge` (a
realtime `s` event) - `walk`/`run`/`step` (`kperf`), and from `run` the stores of
`reinit` (`OpReinit` to `PostReinit`, `UndoReinit` to `ReinitError` when the queue
is full). `event.pc`: `idle` - `lock` - `room` - `find` - `tie`, or `begin` -
`place` - `behind` - `own` - `ahead` (the splice) - `activate` - `fields` -
`pass` - `relock` - `finish` - `sched` - `expiring` - `publish` - `done` for a
note, `repass` - `reinitlock` - `refinish` - `reactivate` - `ready` for a reinit,
`request` after an error.

One instrument; the place of a note in the chain and the moment it is due are
free choices. A change of the off-time list is one step. `Uses` says what the
orchestra and the host do besides playing notes. What decides between the two
runs is who turns notes off:

* `time_expire`, `maxalloc_turnoff`, the hand-off and a section end hold
  `alloc_spinlock`, as does the event thread while it inserts a note.
* `"turnoff"`: turnoff opcodes (goto_ops.c:185-298), MIDI note-offs
  (musmon.c:1254-1267), `indef_off` and negative p1 call `xturnoff`
  (insert.c:2221) without a look at the lock, at any moment. Nothing in the model
  holds them back.
* `"reinit"`: the opcode and its error path do not take the lock either.

Run `instance_live` has all of them. Run `instance_life` has neither `"turnoff"`
nor `"reinit"`: `OffOnce`, `NoDangling`, `ReuseSafe`, `AllVisited` and
`FilesClosed` are checked for orchestras whose notes end by their times, which is
what they are true of. With `"turnoff"`, or with `"reinit"` and `"reinit error"`, TLC
finds the first four violated; the findings say how.

### InsertThread

The ring of requests is a sequence. `alloc_queue_enqueue` checks
`alloc_queue_stopping`, which `alloc_queue_stop` sets without the lock, so the
check and the copy are two steps (`Admit`, `Fill`); everything else under
`alloc_queue_spinlock` is one. The event thread: `poll` (`Dequeue`) - insert -
`Complete` - `ReadLoop` and `CheckPending`, the two looks that decide whether it
leaves - `PrintMessage`. `perf` is one thread through `sense_events`: score,
then MIDI (`Sense`, `Hold` while `alloc_queue_midi_ready` says no, act), then
`Play`; at the end of the score `Stop`, `StopLoop`, `Join`, `FreeQueue`. `Quit`
is an `e` event or the end of a MIDI file. The transport of MIDI input is
external: any message may come, note-offs only for notes that came on.
`message_string_enqueue` is `LogLock`, `LogLook`, `LogCopy`; printing may log.

### EventSchedule

Times are counted in samples; a control period has `ksmps` of them. `RNDINT64`,
`Boundary` and `Expired` are the code's three different roundings (to the
nearest, `+0.5` floor, and a margin of 0.505 period), which is what the
properties are about. `sense_events` is `Sense` (expire) - `Read`, `Wait` or the
event itself - realtime events - `Perform`. With `realtime`, chosen in the
initial state, the insertion is a later step of the event thread
(`EventInsert`), and the lock it holds may be busy whenever the performance
thread tries it. `note` remembers for each note its times and how many periods
it was performed; `Extras` are the release times (`xtratim`) a note may have.

### PerfThread

A section under `queueLock` is one step; `QueueMessage` reads `status` before
it (`QueueLook`, `QueuePush`). `perf`: `detach` - `run` - `callback` - `write` -
`detach`, or `wait` when paused, `join recorder` inside a `StopRecord`, `end` -
`drop` - `done`. A thread lock is a Boolean that a wait takes and a notify
sets. Messages that only call the engine are one kind. The host that joins is
the last caller (`Join` destroys the locks others would use).

### CircularBuffer

Elements are numbered in the order of acceptance, so order, loss and
duplication are statements about numbers. Each element copied is a step; the
loads of the two cursors are one step, because a side's own cursor does not
change under it.

### MessageQueue

The positions are words modulo `Modulus`, and the run starts just below it, so
that they wrap. A caller's loads of `msg_queue_read` and `msg_queue_write`, its
compare-and-swap, the filling and the publication are steps of their own. The
host callback that a warning reaches may make a request with any outcome. The
guards of `Reset` and `Allocate` state what the API asks of a host: no call is
under way in another thread while it resets.

### ParLifecycle

The host makes one call at a time (`hpc`); a worker is a pair of a start and a
slot, because nothing joins the workers of an earlier start. `wpc` says where
each is: `start` - `wait` (at `barrier2`) - `lookup` (`get_thread_index`) -
`spin` (on `parflag`) - `test` (of `multiThreadedComplete`) - `perform`
(`node_perf`, which `DagDispatch` refines) - `exited`, or `died` ("Bad
ThreadId", or a store into the freed task flags). Creating a thread and linking
it into the list are two steps, as are marking the end and flipping the flag,
and freeing the memory and clearing the flags in `reset`. The wait of `kperf`
is one step: a task flag that matches stays so until the next period.
`perform_buffer` ends a score with the same two stores as `csoundPerformKsmps`.
A control period without active instances (or skipped by an `a` statement)
releases nobody and is no step. That a thread cannot be created (main.c:742) is
not modelled.

`AfterEnd` says whether the host performs on after the end of the score, where
every call finds the end again until `csoundRewindScore` or a new event.
`reset` stops the workers and joins none: `Memreset` may run while some still spin
or perform. `overtaken` is a history variable, the workers a reset did not find
gone. The properties say what it costs: `EveryWorkerHasIndex` and `WorkersExit`
except the overtaken workers only, `OnlyReleasedWorkersPerform` claims nothing
once there is one, and `GatherReturns` nothing for a period of a host whose
earlier workers may still answer.

## 3. Runs

| run | question | bounds | result |
|---|---|---|---|
| `dag_threads` | order of conflicting instances, no lost wake-up, no instance twice | 3 threads and the insertion thread, chains up to 3, one instrument monitors, 1 period | holds |
| `dag_cycles` | workers parked, graph current, a period is complete, every period ends, refinement of `TaskGraph` | 2 threads, chains up to 3, 2 periods, fairness | holds |
| `ring` | contents, no slot race, refinement of `Fifo` | 3 elements, calls of up to 4, 10 elements in all | holds |
| `api_queue` | slot ownership, status, bounded drain, accepted requests run, refinement of `ApiQueue` | 2 host threads with 1 request, 2 from the audio thread, 2 slots, fairness | holds |
| `par_lifecycle` | indices, performing only when released, periods return, workers leave | 3 threads, 2 starts, any number of periods, resets that overtake workers, fairness | holds |
| `instance_life` | off-time list, no dangling reference, files closed, safe reuse, complete walks, for turnoffs under `alloc_spinlock` | 2 instances, queue of 1; release time, files, asynchronous readers, realtime section ends; no turnoff opcodes or note-offs, no reinit | holds |
| `instance_live` | passes exclude each other, no turnoff handed over twice, retained turnoffs take place | 1 instance, queue of 1; every kind of turnoff, reinit, failing and refused reinit, realtime section ends, fairness | holds |
| `insert_thread` | nothing left at exit, no use after free, no stuck note, shutdown ends | 1 key with 2 note-ons, pedal, 1 score note, 1 host that compiles and logs once, queues of 1, fairness | holds |
| `event_schedule` | note lengths, punctual starts, order of realtime events, no endless wait | `ksmps` 200; starts 99, 300, lengths 101, 300, release 0 or 1; 2 score notes, 2 realtime events, 2 sections, 4 periods | holds |
| `perf_thread` | flush complete, audio goes on, recordings kept apart, `Join` returns | 1 host, all methods, 3 calls, callbacks with 1 message in the queue, ring of 2 blocks, fairness | holds |
| `turnoff_retained` | a turnoff during a queued reinit is retained | 1 instance | violated |
| `perf_flush` | flush complete, with two hosts | 2 hosts, 2 calls each | violated |

Why the bounds are enough. A watcher that moves needs a task with two
dependencies (chains of 3); the race of a forwarded task with a scan needs 3
threads at most; reuse of a graph needs 2 periods. Two instances are what a
walk that stands on an unlinked note needs to lose its way, and what a reuse
needs to meet a turnoff of another note (without files, three instances pass as
well); a queue of one entry is full or empty. The properties of `instance_live`
are about one instance at a time, and one that is reused meets its own past.
Two note-ons of one key overlap under the pedal, and with a queue of one the
second is held back. The starts and lengths of `event_schedule` lie on both
sides of half a period and of the 0.505 margin; their sums too. The ring turns
more than twice, and a call may ask for more than the ring holds; two slots and
positions that wrap give a full, an empty and a wrapped queue; a worker's life
has finitely many states per start, so only the starts are bounded, and two
generations of workers, one overtaken by
a reset, need two. `CHECK_DEADLOCK FALSE` is set where the
bounded number of periods, elements or calls ends the run; the async queue and
the two threads of `InstanceLife` never deadlock.

Fairness. `DagDispatch!FairSpec` asks that every thread keeps being scheduled
(the workers never block, they spin) and that `kperf`, once started, goes on.
No fairness is asked of the arrival or removal of instances, nor of the start
of a period. `MessageQueue!FairSpec` asks that a call that has begun goes on
(no caller waits for anyone) and that the host keeps performing, so that
`message_dequeue` keeps being called; no fairness for new calls or resets.
`ParLifecycle!Fairness` asks that every thread keeps being scheduled and that a
call of the host that has begun goes on; a spinning worker need not read the
flag between two of the host's calls, and nothing makes the host call.
`InstanceLife!Fairness`, `InsertThread!Fairness` and `PerfThread!LiveSpec` ask
that a thread goes on while it can, and, strongly, that a thread spinning on a
lock gets it in the end: the code's spin locks do not guarantee this, the
shortness of their sections makes it so in practice. The one lock that is only
tried is not covered by that: `RequestHonoured` says so in its premise.

### Findings

* `turnoff_retained`: `reinit` in realtime mode marks the note inactive until
  the event thread has run the pass; a note-off or the end of its time that
  comes meanwhile sees an inactive note and returns before it could leave a
  request. The comment in `reinit` says it is retained. The note plays on.
* `perf_flush`: `FlushMessageQueue` waits for `flushLock` and notifies it again
  without `queueLock`; a message queued between the two is marked as drained.

Divergences that other settings of the constants show:

* `WeakCAS = TRUE`: `ATOMIC_CAS` is weak, `dag_get_task` (cs_new_dispatch.c:328)
  takes a failure for a task taken by somebody else, and `CycleComplete` fails:
  on a machine with load-linked / store-conditional a period can end with an
  instance not performed.
* `AsyncInsert = TRUE` with `GraphIsCurrent`: `insert_new` (insert.c:1393) counts
  the change of the chain before it makes it; a rebuild in between loses it.
* `RejectedOnlyWhenFull` of `MessageQueue`: csound.h gives three reasons for a
  dropped request; contention and a stale position are two more.
* `AfterEnd = TRUE` with `GatherReturns`: with several threads, performing after
  a rewind from the end of the score never returns: the workers have left and
  are not created again. `WorkersExit` fails too: each call that finds the
  end flips `parflag`, so after two a worker can have missed both and spin on.
* `ParLifecycle`: `reset` does not wait for the workers it stops. A late one can
  perform on the cleared instance, or meet the flags of the next start and count
  as one of its workers (`OnlyReleasedWorkersPerform` without `overtaken = {}`).
* `"turnoff"` in the `Uses` of `instance_life`. With turnoffs that never look at
  `alloc_spinlock`:
  - `OffOnce`, `ReuseSafe`: a note turned off between `instance_init_finish`
    (insert.c:1527) and `sched_off_time` (insert.c:1570) is retired and then put
    on the off-time list, and again when it is reused; after an init error it is
    handed over a second time, made active again and put on the free list twice.
  - `AllVisited`, `NoDangling`: the stores that splice a note in
    (insert.c:1415-1428) and those that unlink its neighbour (insert.c:2160-2165)
    interleave. A live note is lost from the chain, or the chain leads to a
    retired one, which a section end frees.
  - a tie finds a note (`actflg`, `offtim < 0`) that the performance thread is
    just retiring, and goes on with it.
  - between the test of `actflg` and the claim (insert.c:2211, 2225) another
    turnoff of the note may run to its end: the deinit pass runs twice.
* `"reinit"` in the `Uses` of `instance_life`:
  - the error of a refused reinit (insert.c:2517) turns the note off with no
    lock, as above.
  - a reinit between its test of `actflg` and `instance_init_begin`
    (goto_ops.c:116, 123) of a note that the event thread retires meanwhile makes
    it active again, and it is in no chain.
  - an instance that waits for a reinit is inactive and still in the chain when
    a section end lists the inactive ones (insert.c:2411), against the comment
    of `free_instance` that free-list nodes clear `prvact`. `Reclaimable` keeps
    it from being taken.
* "The performance thread owns active-chain removal" (musmon.c:1350): the event
  thread unlinks too, in `maxalloc_turnoff` (insert.c:1255) and in the
  `time_expire` of `sched_off_time` (insert.c:1939).
* `EventSchedule`: a realtime `s` event drops the score event that waits but not
  the time of its wait, so later notes are late (`Punctual` excepts them); in
  realtime mode a note whose start lies just under half a period is one period
  shorter than elsewhere (`LengthKept` allows it).
* `PerfThread`: `QueueMessage` may link a message after the performance thread
  has dropped the rest, if it read `status` before; a flush then waits for ever.
  A `StopRecord` that runs before the recording thread first has its mutex
  finds `running` false (csPerfThread.cpp:215) and closes the file without what
  was recorded until then: that every block is filed is no property of the code.

## 4. Proofs

Every theorem is about `Spec`, without fairness, and holds for every value of
the constants that the named assumptions admit. A hypothesis beyond them is
written in the theorem; there are five, each explained below: `~WeakCAS`,
`~AsyncInsert`, `FewRequests`, a sole flusher, and `Serial`.

### The ring

`CircularBuffer_proofs` proves, for every size, the two invariants of run
`ring` (`NeverOverwritten`, `SlotsApart`), that elements come out in order
(`InOrder`) and that the space computed is exact (`ExactSpace`). The invariant
relates the cursors to the numbers accepted and released (`wp` is `accepted`
places after the start, modulo the size) and says what the private cursors and
the slots hold half way through a call. `RingImplementsFifo` follows from it: a
batch appears in the abstract queue when the cursor is stored, and the slots
between the cursors hold the abstract queue.

### The dispatcher

`DagDispatch_proofs` proves, for every number of threads and tasks, every
orchestra, weak or strong compare-and-swap and both ways of inserting, that
conflicting instances run in order (`InOrder`), none runs twice
(`PerformedOnce`), the handshake is a barrier (`Parked`) and indices stay in
range (`TypeCorrect`). None of these is inductive. The strengthening `IInv`
has these parts:

* `OnePointer`: each task is referred to from at most one of the heads of the
  lists, the links of the entries on lists, the current and next entries of
  the threads that walk a list, and the forwarded tasks. `PointedWaits`: a task
  referred to is WAITING. Together they make the thread that holds a watcher
  its only owner, so that its plain stores cannot meet anybody else's.
* `Ready`: a task that is not WAITING, or is forwarded, has its dependencies
  DONE; `Examined`: what a thread in one of the two passes of `dag_end_task`
  has established so far. They need `Closed` (a closed list belongs to a DONE
  task), which is what the failure of `move_watch` tells.
* `Running`, `RanOnce`: who performs a task, and how often it was performed.
* `GraphShape`: `dag_build`'s test finds every conflict, dependencies point
  backwards. `Handshake`, `GraphExists`, `ThreadShape`, `InsertShape`: the
  flags and the program points.

The lemmas `MoveHeadToCur`, `MoveLinkToNxt`, `DropCur`, `PushHead`, `Forward`
and `TakeForward` state the effect of the list operations on five arbitrary
families of references; the step lemmas map each action to one of them.
Assumptions: at least one thread, a bound of at least one task
(`ThreadsAssumption`, `BoundsAssumption`), instruments are numbers.

Its second part goes on from `IInv`:

* `CompletePeriods` and the refinement `DispatcherImplementsTaskGraph`, from
  `~WeakCAS`. `ScanSeen`: a scan that has met no waiting task has met only tasks
  that are in progress or done by now, so a thread that leaves `dag_get_task`
  leaves nothing unstarted (`Settled`). `Owned`: what is in progress has a
  thread in it, and at the mix every worker is parked. With a weak
  compare-and-swap `ScanSeen` is false: a spurious failure passes over an
  available task (section 3, Findings).
* `CurrentGraph`, from `~AsyncInsert`: where the performance thread inserts, a
  change of the chain and its count are one step.
* `WakeupKept`: a waiting task is never lost. It is the converse of
  `OnePointer`: each waiting task is referred to from at least one place (`WInv`).
  That alone allows a ring of entries that no list leads to; a rank that grows
  along the links rules it out, and a pushed entry gets the lowest rank of its
  list (`RankedPush`). This replaces an induction over the lists.

### The asynchronous queue

`MessageQueue_proofs` numbers the reservations. `Ring(b)` says that the two
words are `Done` and `Len(order)` places after `b`, modulo `Modulus`; that what a
caller has read of them is old and never ahead, with room behind the position
it is about to swap for; that a caller that stores holds the place of its
request; and that a ready slot holds the request of a place not given back. A
slot is the remainder of a place, and two places in use are fewer than
`Capacity` apart, so slots are owned (`SlotsOwned`). `DrainBounded` is a part of
the invariant; `RingImplementsApiQueue` maps the places not yet run to the
abstract queue.

`FewRequests` (fewer requests in all than `Modulus`) is needed: a caller that
is stopped between its load of `msg_queue_write` and the compare-and-swap while
the counter turns round exactly once swaps with a stale idea of the room. The
word has 64 bits, so the hypothesis holds of every real run; the positions
still wrap, because `Start` is arbitrary. `OwnStatus` needs no hypothesis.

### The performance thread object

`PerfThread_proofs`: `flushLock`, or having got it, means that no message of the
host is pending (`FlushInv`). This is inductive only if nobody else stands
between the wait for `flushLock` and the notify that gives it back, which is
the race that run `perf_flush` shows. So `FlushOfOne` takes one flushing
host among any number of others, and `SoleHostFlushes` states `FlushComplete`
for a single host. `RecordingsStayApart` holds for every number of hosts and
blocks: `CsPerfThreadMsg_Record` and `StopRecord` messages, the recording thread
and `Join` look at `recordData` at different moments, and yet a recording begins
only when nobody uses the one before.

### The event thread

`InsertThread_proofs`: `Drained` and `NothingFreedInUse` follow from `IInv`,
which orders the shutdown (`StopInv`: `alloc_queue_stopping`, then
`event_insert_loop`, then the thread, then the queues) and says what the last
look at the queue has established (`Closed`: nothing queued, nothing admitted).
For the messages, what is left to print, what is being copied and what the
last round has printed are together no more than that round may print
(`LogInv`), so the bounded last round empties the queue.

`NotesEnd` needs `NInv`, a count for each key: the notes of the key that have not
met their note-off (`Live`: on the key, in the queue, in the init pass, or about
to be posted) are at most the note-offs that are still to come or are held
back (`Owed`). `alloc_queue_midi` is the number of notes queued and in their
pass (`CountInv`), so while it is zero every live note is on its key, where the
note-off finds it.

### The life of instances

`InstanceLife_proofs` proves, for any number of instances, any queue and any
`Uses`, that init, reinit and deinit passes of an instance never overlap
(`PassesExclude`) and that none is linked twice through `init_turnoff_next`
(`HandedOverOnce`). Neither is inductive, because which thread may begin a pass
depends on what the other has promised in the two words. The invariant `IInv`
(theorem `Invariance`) is an account of these words:

* `DepthInv`: `init_running` is one for each reinit of the instance between its
  begin and its finish, on the performance thread, in the queue or on the event
  thread, plus one for a pass of the event thread.
* `OwnerInv`: `turnoff_pending` is "finalizing" exactly when one place owns the
  turnoff (`Owners`: the hand-off list, the batch, the instance the batch is at,
  the call of either thread), and then no pass has begun.
* `ControlInv`, `CallInv`: where the threads are and what their calls hold.

A pass makes `init_running` positive, a deinit pass is an owner, two deinit
passes are two owners. `PassesExclude` and `HandedOverOnce` follow.

`ListedOnce` (`OffOnce`) and `FilesClose` (`FilesClosed`) have the hypothesis
`Serial`: `Uses` has neither `"turnoff"` nor `"reinit"`. It is the scope of run
`instance_life`, and a restriction of the orchestra and the host, not of the
order in which the threads run; outside it `OffOnce` is false (section 3). The
strengthening `SInv` adds to `IInv`: who has `alloc_spinlock` (`LockInv`); that
the event thread, while it has a note still to schedule, finds it active and not
on the off-time list (`PledgeInv`); that a note of the list is active and has an
end (`NoteInv`); and that a turnoff which has taken its note off the list does
not find it there again (`TurnInv`). `FInv` adds `FileInv`: an active note is in
the chain until the turnoff that has unlinked it marks it inactive, and an
inactive one has files only for a reader. The proofs have a lemma per action, or
per group of actions that do the same to the invariant, and a case split over
`Next`.
Assumptions: the names are different, the queue has a place (`NamesAssumption`,
`BoundsAssumption`).

### The workers

`ParLifecycle_proofs` proves, for every number of threads, starts and calls,
that every worker finds its index (`Indexed`) and performs only when released
(`Released`), with no assumption on when a reset comes. The argument: while the
barrier is closed its count is the number of workers that wait, plus one if the
host does (`BarrierInv`), so it cannot open while `csoundStart` builds the list,
and a worker past it sees the whole list (`ListInv`). This holds also after a
reset has overtaken workers, because each start has its own barrier and list.
Until then, between the host's calls every worker's last flag and every task
flag equal `parflag` (`ReadyInv`), so only a period or a marked end can wake one;
within a period a matching task flag means a worker back in its loop
(`GatherInv`); `GenerationInv` keeps the workers of other starts out. After a
reset has overtaken a worker these three claim nothing.

### The times of events

`EventSchedule_proofs` proves the three properties of run `event_schedule` for
every `ksmps`, all starts, lengths and releases, any number of notes, sections
and realtime events, with and without realtime mode (`NotesKeepLength`,
`StartsPunctual`, `NeverSpins`). The rounding of a sum is not the sum of the
roundings, so none of them follows from the code of one step. The invariant:

* `TimeInv`: between two score events the clock stands on a boundary, and the
  wait for the next event, rounded from there, leads to the boundary next to
  that event (`WaitLeads`, by the lemma `WaitAhead`). So the errors of the waits
  do not add up. After a section end among the realtime events only "not before
  it" is left. `BetweenEvents` and `WaitsOn` say that the score is left only when
  there is something to wait for, which is what `NeverSpins` needs.
* `LengthInv`, without realtime mode: a note that plays has run since the
  boundary next to its start and is to end at a boundary (`ScoreNoteOK`); the
  off-time list holds exactly the notes that play, sorted, none overdue
  (`ScoreList`). Sorted is what lets `time_expire` stop at the first note that is
  not due; none overdue is kept because a period ends all that are due in it
  (the margin of half a period neither misses a boundary nor reaches the next
  one). A note that enters its release is put into the list anew, behind it.
* `LengthInv`, in realtime mode: the event thread moves the end by as much as
  the note is late, so the end is no boundary (`RtNote`). The margin then costs
  the note one period at the most, and the release none.
* `RtEventsInv`: the realtime events are sorted, and without a lock that may be
  busy none is left for more than a period after its time.

Assumption: `TimesAssumption` (`ksmps` positive, times and bounds natural
numbers, lengths positive).

### Only model-checked

* Liveness (`CycleEnds`, `AcceptedIsRun`, `GatherReturns`, `WorkersExit`,
  `RequestHonoured`, `ShutdownCompletes`, `JoinReturns`, `AudioGoesOn`): the
  prover has no support for fairness.
* `NoDangling`, `ReuseSafe` and `AllVisited`: with the chain changed store by
  store beside the walk, their invariant (the shape of a chain in the middle of
  a splice or an unlink) is still to be written.
* The two violations, which are counterexamples.

## 5. Plan

Done: the dispatcher, the ring, the async queue, the workers (first); the life
of instances, the event thread with MIDI, the times of events, the performance
thread object (second); theorems about all of them and the three refinements
(third). Every safety property of a passing run is a theorem, but for the three
of `instance_life` that are about the chain.

Left, in this order:

1. The invariant of the chain under `Serial`, for `NoDangling`, `ReuseSafe` and
   `AllVisited`.
2. The composition of `DagDispatch` with `InstanceLife`: `dag_build` as two
   walks of a chain that the event thread changes.
3. Channels (`OOps/bus.c`): creation under the table lock, the spin lock of a
   value, string channels.
4. Beat mode and tempo events in `EventSchedule`; the read and write sets that
   `csp_orc_semantics.c` computes, against those `DagDispatch` takes as given.

## 6. Not modelled

* Signal processing (opcodes, FFT, file formats), the parser and compiler,
  device and file I/O, front ends, bindings and utilities: numerical or
  sequential code over unbounded data, and by far the largest part of the
  repository. Their order of execution is what `DagDispatch` and `InstanceLife`
  are about, not what they compute.
* Channels; the debugger's copy of the performance loop; the lock-based
  barrier build (`PARCS_USE_LOCK_BARRIER`) of the same handshake.
* Weak memory: plain and `volatile` accesses are sequentially consistent.
* In `InstanceLife`: user-defined opcodes and their sub-instances, instances of
  `create`/`play`, several instruments; the orders of insertion other than the
  default one (the `order == 1` splice of insert.c:1394 falls through to it).
* In `EventSchedule`: beat mode and tempo, sample-accurate starts, `a`, `f` and
  `q` events, the wrap of the 32-bit `start_kcnt` (musmon.c:118).
* In `InsertThread`: MIDI controllers other than the pedal, and the race of
  `insert_midi` with the performance thread on the list of overlapping notes of
  a key (insert.c:1705), which has no lock.
* `dag_build` reading the chain in two walks while it changes
  (cs_new_dispatch.c:235), and a worker that cannot be created (main.c:742),
  where `csoundStart` waits at a barrier nobody completes.
