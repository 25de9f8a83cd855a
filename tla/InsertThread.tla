---------------------------- MODULE InsertThread ----------------------------
(***************************************************************************)
(* The event insertion thread of realtime mode: the allocation queue that  *)
(* feeds it (Engine/insert.c), the MIDI and end-of-score gates of the      *)
(* performance thread that wait for it (Engine/musmon.c), the queue of     *)
(* messages it prints, and its shutdown.                                   *)
(*                                                                         *)
(* The init pass of a request is one step.  A section under                *)
(* alloc_queue_spinlock that reads nothing another thread writes without   *)
(* the lock is one step; alloc_queue_enqueue, which reads                  *)
(* alloc_queue_stopping, is two, and so is message_string_enqueue.  The    *)
(* rings are sequences: CircularBuffer is about rings.                     *)
(***************************************************************************)
EXTENDS Integers, Sequences, FiniteSets

CONSTANTS
    Key,              \* MIDI keys of one channel
    Host,             \* host threads that compile code and log messages
    MAX_ALLOC_QUEUE,
    MAX_MESSAGE_QUEUE,
    MaxOns,           \* bound: MIDI note-ons of a key
    MaxScore,         \* bound: notes of the score
    MaxMerges,        \* bound: compilations by the hosts
    MaxLogs           \* bound: messages the hosts log

ASSUME SizesAssumption ==
    /\ MAX_ALLOC_QUEUE \in Nat \ {0} /\ MAX_MESSAGE_QUEUE \in Nat \ {0}
    /\ {MaxOns, MaxScore, MaxMerges, MaxLogs} \subseteq Nat
ASSUME NamesAssumption == Host \cap {"free", "perf"} = {}

Producer == Host \cup {"perf"}
Note     == Key \X (1..MaxOns)

\* Requests.  A MIDI note is the n-th note-on of its key.
Midi(k, n) == [type |-> "midi", note |-> <<k, n>>]
Score(n)   == [type |-> "score", note |-> n]
Merge      == [type |-> "merge", note |-> 0]
Refused    == [type |-> "refused", note |-> 0]

\* MIDI input
NoMessage == [type |-> "none", key |-> 0]
On(k)     == [type |-> "on", key |-> k]
Off(k)    == [type |-> "off", key |-> k]
Pedal(b)  == [type |-> IF b THEN "pedal down" ELSE "pedal up", key |-> 0]

VARIABLES
    queue,       \* alloc_queue and alloc_queue_items, or <<>> when it is freed
    allocated,   \* alloc_queue is not NULL
    active,      \* alloc_queue_active
    midi,        \* alloc_queue_midi
    stopping,    \* alloc_queue_stopping
    loop,        \* event_insert_loop
    lock,        \* owner of alloc_queue_spinlock, or "free"
    post,        \* per producer: what it is about to put into the queue
    perf,        \* the performance thread: pc, and midi_event_pending in msg
    worker,      \* the event thread: pc, request, processed, stopping
    chn,         \* the channel: kinsptr, the notes with m_sust, ksuscnt, sustaining
    sounding,    \* score notes on the off-time list
    mess,        \* the message queue: items, accepting, freed, lock
    log,         \* per host thread: where it is in message_string_enqueue
    input        \* what came in so far: on and off per key, score, merges, logs

allocQueue == <<queue, allocated, active, midi, stopping, loop, lock, post>>
engine     == <<chn, sounding>>
vars       == <<allocQueue, perf, worker, engine, mess, log, input>>

Init ==
    /\ queue = <<>> /\ allocated = TRUE /\ active = 0 /\ midi = 0
    /\ stopping = FALSE /\ loop = TRUE /\ lock = "free"
    /\ post = [p \in Producer |-> Refused]
    /\ perf = [pc |-> "score", msg |-> NoMessage]
    /\ worker = [pc |-> "poll", data |-> Refused, processed |-> 0, stopping |-> FALSE]
    /\ chn = [kinsptr |-> [k \in Key |-> <<>>], m_sust |-> {}, ksuscnt |-> 0,
              sustaining |-> FALSE]
    /\ sounding = {}
    /\ mess = [items |-> 0, accepting |-> TRUE, freed |-> FALSE, lock |-> "free", count |-> 0]
    /\ log = [h \in Host |-> "idle"]
    /\ input = [on |-> [k \in Key |-> 0], off |-> [k \in Key |-> 0],
                score |-> 0, merges |-> 0, logs |-> 0]

PerfAt(pc) == perf.pc = pc
PerfGoes(pc) == perf' = [perf EXCEPT !.pc = pc]

-----------------------------------------------------------------------------
(* The allocation queue.                                                   *)

Full == Len(queue) >= MAX_ALLOC_QUEUE

\* alloc_queue_enqueue, as far as its check: a full or closed queue refuses.
Admit(p, request) ==
    /\ lock = "free"
    /\ lock' = IF allocated THEN p ELSE lock
    /\ post' = [post EXCEPT ![p] = IF ~allocated \/ stopping \/ Full THEN Refused ELSE request]
    /\ UNCHANGED <<queue, allocated, active, midi, stopping, loop>>

\* ... and its copy.
Fill(p) ==
    /\ lock' = "free"
    /\ post' = [post EXCEPT ![p] = Refused]
    /\ queue' = IF post[p] = Refused THEN queue ELSE Append(queue, post[p])
    /\ midi' = midi + IF post[p].type = "midi" THEN 1 ELSE 0
    /\ UNCHANGED <<allocated, active, stopping, loop>>

\* A host thread compiles code (merge_state_enqueue).
HostAdmit(h) ==
    /\ input.merges < MaxMerges /\ log[h] = "idle"
    /\ Admit(h, Merge)
    /\ input' = [input EXCEPT !.merges = @ + 1]
    /\ UNCHANGED <<perf, worker, engine, mess, log>>

HostFill(h) ==
    /\ lock = h /\ Fill(h)
    /\ UNCHANGED <<perf, worker, engine, mess, log, input>>

has_pending == queue # <<>> \/ active > 0

\* Mutant of midi_ready: notes that are being initialised are not waited for.
midi_ready_QueuedOnly(wait_for_init) ==
    /\ ~stopping /\ ~Full
    /\ wait_for_init => ~\E i \in DOMAIN queue : queue[i].type = "midi"

midi_ready(wait_for_init) == ~stopping /\ ~Full /\ (wait_for_init => midi = 0)

-----------------------------------------------------------------------------
(* The performance thread: the score.                                      *)

\* insert_event: a note the queue refuses is deleted.
PostScore ==
    /\ PerfAt("score") /\ input.score < MaxScore
    /\ Admit("perf", Score(input.score + 1))
    /\ input' = [input EXCEPT !.score = @ + 1]
    /\ PerfGoes("posting score")
    /\ UNCHANGED <<worker, engine, mess, log>>

PostedScore ==
    /\ PerfAt("posting score") /\ Fill("perf")
    /\ PerfGoes("score")
    /\ UNCHANGED <<worker, engine, mess, log, input>>

\* The end of the score waits for the queue, then for the notes with an end.
WaitForWork == has_pending \/ sounding # {}

ScoreWaits ==
    /\ PerfAt("score") /\ lock = "free" /\ WaitForWork
    /\ PerfGoes("midi")
    /\ UNCHANGED <<allocQueue, worker, engine, mess, log, input>>

ScoreEnds ==
    /\ PerfAt("score") /\ lock = "free" /\ ~WaitForWork
    /\ PerfGoes("ended")
    /\ UNCHANGED <<allocQueue, worker, engine, mess, log, input>>

\* No event is due; or the host performs no further period.
ScoreLater ==
    /\ PerfAt("score")
    /\ PerfGoes("midi") \/ PerfGoes("quit")
    /\ UNCHANGED <<allocQueue, worker, engine, mess, log, input>>

\* A realtime 'e' event closes the queue and ends the notes.
Quit ==
    /\ PerfAt("score")
    /\ stopping' = TRUE
    /\ sounding' = {}
    /\ PerfGoes("quitting")
    /\ UNCHANGED <<queue, allocated, active, midi, loop, lock, post, worker, chn, mess, log, input>>

\* time_expire
Expire(n) ==
    /\ PerfAt("play") /\ n \in sounding
    /\ sounding' = sounding \ {n}
    /\ UNCHANGED <<allocQueue, perf, worker, chn, mess, log, input>>

Play ==
    /\ PerfAt("play")
    /\ PerfGoes("score")
    /\ UNCHANGED <<allocQueue, worker, engine, mess, log, input>>

-----------------------------------------------------------------------------
(* ... and MIDI input: one message at a time, held back while it must wait. *)

\* What came in, with another message of this type.
Counted(count, type, msg) ==
    IF msg.type = type THEN [count EXCEPT ![msg.key] = @ + 1] ELSE count

\* sens_midi: the held message, or another one.
Sense(msg) ==
    /\ PerfAt("midi") /\ midi_ready(FALSE)
    /\ perf.msg \in {NoMessage, msg}
    /\ perf' = [pc |-> "sensed", msg |-> msg]
    /\ input' = IF perf.msg = msg THEN input
                ELSE [input EXCEPT !.on = Counted(@, "on", msg), !.off = Counted(@, "off", msg)]
    /\ UNCHANGED <<allocQueue, worker, engine, mess, log>>

\* A keyboard releases only what is pressed.
Messages ==
    {On(k) : k \in {k \in Key : input.on[k] < MaxOns}}
      \cup {Off(k) : k \in {k \in Key : input.off[k] < input.on[k]}}
      \cup {Pedal(b) : b \in BOOLEAN} \cup ({perf.msg} \ {NoMessage})

MidiEnds ==
    /\ PerfAt("midi") /\ (perf.msg = NoMessage \/ ~midi_ready(FALSE))
    /\ PerfGoes("play")
    /\ UNCHANGED <<allocQueue, worker, engine, mess, log, input>>

\* Anything but a note-on waits for the notes before it.
Hold ==
    /\ PerfAt("sensed") /\ perf.msg.type # "on" /\ ~midi_ready(TRUE)
    /\ PerfGoes("play")
    /\ UNCHANGED <<allocQueue, worker, engine, mess, log, input>>

MayAct(type) == PerfAt("sensed") /\ perf.msg.type = type /\ (type = "on" \/ midi_ready(TRUE))

Acted == perf' = [pc |-> "midi", msg |-> NoMessage]

NoteOn ==
    /\ MayAct("on")
    /\ Admit("perf", Midi(perf.msg.key, input.on[perf.msg.key]))
    /\ PerfGoes("posting midi")
    /\ UNCHANGED <<worker, engine, mess, log, input>>

\* A note-on that is refused is kept for the next period.
NotePosted ==
    /\ PerfAt("posting midi") /\ Fill("perf")
    /\ IF post["perf"] = Refused THEN PerfGoes("play") ELSE Acted
    /\ UNCHANGED <<worker, engine, mess, log, input>>

\* A list without the notes in gone; the others stay in their order.
Without(list, gone) ==
    LET kept[i \in 0..Len(list)] ==
            IF i = 0 THEN <<>>
            ELSE IF list[i] \in gone THEN kept[i - 1] ELSE Append(kept[i - 1], list[i])
    IN  kept[Len(list)]

\* xturnoff, for a MIDI note: it leaves its key's list
XTurnoff(c, k, n) ==
    [c EXCEPT !.kinsptr[k] = Without(@, {n}),
              !.m_sust = @ \ {n},
              !.ksuscnt = IF n \in c.m_sust /\ @ > 0 THEN @ - 1 ELSE @]

\* The oldest note of the key ends; with the pedal down, the oldest that no
\* note-off has met yet is marked to end with the pedal.
NoteOff ==
    LET k == perf.msg.key
        list == chn.kinsptr[k]
        unmarked == Without(list, chn.m_sust) IN
    /\ MayAct("off")
    /\ chn' = IF list = <<>> THEN chn
              ELSE IF ~chn.sustaining THEN XTurnoff(chn, k, list[1])
              ELSE IF unmarked = <<>> THEN chn
              ELSE [chn EXCEPT !.m_sust = @ \cup {unmarked[1]}, !.ksuscnt = @ + 1]
    /\ Acted
    /\ UNCHANGED <<allocQueue, worker, sounding, mess, log, input>>

PedalDown ==
    /\ MayAct("pedal down")
    /\ chn' = [chn EXCEPT !.sustaining = TRUE]
    /\ Acted
    /\ UNCHANGED <<allocQueue, worker, sounding, mess, log, input>>

\* sustsoff
PedalUp ==
    /\ MayAct("pedal up")
    /\ chn' = IF ~chn.sustaining THEN chn
              ELSE IF chn.ksuscnt <= 0 THEN [chn EXCEPT !.sustaining = FALSE, !.ksuscnt = 0]
              ELSE [kinsptr |-> [k \in Key |-> Without(chn.kinsptr[k], chn.m_sust)],
                    m_sust |-> {}, ksuscnt |-> 0, sustaining |-> FALSE]
    /\ Acted
    /\ UNCHANGED <<allocQueue, worker, sounding, mess, log, input>>

\* An opcode turns a MIDI note off.
OpTurnoff(n) ==
    /\ PerfAt("play") /\ \E i \in DOMAIN chn.kinsptr[n[1]] : chn.kinsptr[n[1]][i] = n
    /\ chn' = XTurnoff(chn, n[1], n)
    /\ UNCHANGED <<allocQueue, perf, worker, sounding, mess, log, input>>

-----------------------------------------------------------------------------
(* The event thread.                                                       *)

WorkerGoes(pc) == worker' = [worker EXCEPT !.pc = pc]

Dequeue ==
    /\ worker.pc = "poll" /\ lock = "free"
    /\ worker.processed < MAX_ALLOC_QUEUE /\ queue # <<>>
    /\ worker' = [worker EXCEPT !.pc = "insert", !.data = Head(queue)]
    /\ queue' = Tail(queue) /\ active' = active + 1
    /\ UNCHANGED <<allocated, midi, stopping, loop, lock, post, perf, engine, mess, log, input>>

\* insert, insert_midi or merge_state_realtime; a note may come to nothing.
Insert(success) ==
    LET note == worker.data.note IN
    /\ worker.pc = "insert"
    /\ sounding' = IF success /\ worker.data.type = "score" THEN sounding \cup {note} ELSE sounding
    /\ chn' = IF success /\ worker.data.type = "midi"
              THEN [chn EXCEPT !.kinsptr[note[1]] = Append(@, note)] ELSE chn
    /\ WorkerGoes("complete")
    /\ UNCHANGED <<allocQueue, perf, mess, log, input>>

\* Mutant of Complete: the request is only taken off the MIDI count.
Complete_StaysActive ==
    /\ worker.pc = "complete" /\ lock = "free"
    /\ midi' = midi - IF worker.data.type = "midi" THEN 1 ELSE 0
    /\ worker' = [worker EXCEPT !.pc = "poll", !.data = Refused, !.processed = @ + 1]
    /\ UNCHANGED <<queue, allocated, active, stopping, loop, lock, post, perf, engine, mess, log, input>>

\* alloc_queue_complete
Complete ==
    /\ worker.pc = "complete" /\ lock = "free"
    /\ active' = active - 1
    /\ midi' = midi - IF worker.data.type = "midi" THEN 1 ELSE 0
    /\ worker' = [worker EXCEPT !.pc = "poll", !.data = Refused, !.processed = @ + 1]
    /\ UNCHANGED <<queue, allocated, stopping, loop, lock, post, perf, engine, mess, log, input>>

\* The round ends; event_insert_loop is read ...
ReadLoop ==
    /\ worker.pc = "poll" /\ lock = "free"
    /\ worker.processed = MAX_ALLOC_QUEUE \/ queue = <<>>
    /\ worker' = [worker EXCEPT !.pc = "pending", !.processed = 0, !.stopping = ~loop]
    /\ UNCHANGED <<allocQueue, perf, engine, mess, log, input>>

\* Mutant of CheckPending: the queue is not looked at again.
CheckPending_Skipped ==
    /\ worker.pc = "pending" /\ lock = "free"
    /\ mess' = IF worker.stopping THEN [mess EXCEPT !.accepting = FALSE]
               ELSE mess
    /\ WorkerGoes("print")
    /\ UNCHANGED <<allocQueue, perf, engine, log, input>>

\* ... and then the queue; when both say so, the message queue is closed.
CheckPending ==
    /\ worker.pc = "pending" /\ lock = "free"
    /\ LET stop == worker.stopping /\ ~has_pending IN
       /\ worker' = [worker EXCEPT !.pc = "print", !.stopping = stop]
       /\ mess' = [mess EXCEPT !.accepting = @ /\ ~stop]
    /\ UNCHANGED <<allocQueue, perf, engine, log, input>>

\* message_string_dequeue, at most as often as the queue has slots
PrintMessage ==
    /\ worker.pc = "print" /\ mess.lock = "free"
    /\ mess.count < MAX_MESSAGE_QUEUE /\ mess.items > 0
    /\ mess' = [mess EXCEPT !.items = @ - 1, !.count = @ + 1]
    /\ UNCHANGED <<allocQueue, perf, worker, engine, log, input>>

\* The callback that prints a message logs one itself, time and again.
PrintLogs ==
    /\ worker.pc = "print" /\ mess.count > 0 /\ mess.lock = "free"
    /\ mess.accepting /\ mess.items < MAX_MESSAGE_QUEUE
    /\ mess' = [mess EXCEPT !.items = @ + 1]
    /\ UNCHANGED <<allocQueue, perf, worker, engine, log, input>>

PrintEnds ==
    /\ worker.pc = "print"
    /\ mess.count = MAX_MESSAGE_QUEUE \/ (mess.lock = "free" /\ mess.items = 0)
    /\ WorkerGoes(IF worker.stopping THEN "gone" ELSE "poll")
    /\ mess' = [mess EXCEPT !.count = 0]
    /\ UNCHANGED <<allocQueue, perf, engine, log, input>>

-----------------------------------------------------------------------------
(* Messages: a host thread, with the callback message_string_enqueue.      *)

\* The pointer to the queue is read under the lock.  When the lock is busy or
\* the queue is gone the message is dropped: only a count is left of it.
LogLock(h) ==
    /\ log[h] = "idle" /\ lock # h /\ input.logs < MaxLogs
    /\ mess.lock = "free" /\ ~mess.freed
    /\ mess' = [mess EXCEPT !.lock = h] /\ log' = [log EXCEPT ![h] = "has"]
    /\ input' = [input EXCEPT !.logs = @ + 1]
    /\ UNCHANGED <<allocQueue, perf, worker, engine>>

\* A queue that is closed or full drops the message as well.
LogLook(h) ==
    /\ log[h] = "has"
    /\ IF mess.accepting /\ mess.items < MAX_MESSAGE_QUEUE
       THEN log' = [log EXCEPT ![h] = "copy"] /\ UNCHANGED mess
       ELSE log' = [log EXCEPT ![h] = "idle"] /\ mess' = [mess EXCEPT !.lock = "free"]
    /\ UNCHANGED <<allocQueue, perf, worker, engine, input>>

\* The queue may have been closed since.
LogCopy(h) ==
    /\ log[h] = "copy"
    /\ mess' = [mess EXCEPT !.lock = "free", !.items = @ + 1]
    /\ log' = [log EXCEPT ![h] = "idle"]
    /\ UNCHANGED <<allocQueue, perf, worker, engine, input>>

-----------------------------------------------------------------------------
(* stop_event_insert_thread, on the thread that performed.                 *)

Stop ==
    /\ PerfAt("ended") \/ PerfAt("quit")
    /\ stopping' = TRUE
    /\ PerfGoes("stopping")
    /\ UNCHANGED <<queue, allocated, active, midi, loop, lock, post, worker, engine, mess, log, input>>

StopLoop ==
    /\ PerfAt("stopping") \/ PerfAt("quitting")
    /\ loop' = FALSE
    /\ PerfGoes(IF perf.pc = "quitting" THEN "ended" ELSE "join")
    /\ UNCHANGED <<queue, allocated, active, midi, stopping, lock, post, worker, engine, mess, log, input>>

\* Mutant of Join: the message queue goes without its lock.
Join_Unlocked ==
    /\ PerfAt("join") /\ worker.pc = "gone"
    /\ mess' = [mess EXCEPT !.accepting = FALSE, !.freed = TRUE]
    /\ PerfGoes("free")
    /\ UNCHANGED <<allocQueue, worker, engine, log, input>>

\* realtime_message_queue_stop, after the join
Join ==
    /\ PerfAt("join") /\ worker.pc = "gone" /\ mess.lock = "free"
    /\ mess' = [mess EXCEPT !.accepting = FALSE, !.freed = TRUE]
    /\ PerfGoes("free")
    /\ UNCHANGED <<allocQueue, worker, engine, log, input>>

FreeQueue ==
    /\ PerfAt("free")
    /\ allocated' = FALSE /\ queue' = <<>> /\ active' = 0 /\ midi' = 0
    /\ perf' = [pc |-> "stopped", msg |-> NoMessage]
    /\ UNCHANGED <<stopping, loop, lock, post, worker, engine, mess, log, input>>

-----------------------------------------------------------------------------
PerfStep ==
    \/ PostScore \/ PostedScore \/ ScoreWaits \/ ScoreEnds \/ ScoreLater \/ Quit \/ Play
    \/ MidiEnds \/ Hold \/ NoteOn \/ NotePosted \/ NoteOff \/ PedalDown \/ PedalUp
    \/ Stop \/ StopLoop \/ Join \/ FreeQueue
    \/ \E msg \in Messages : Sense(msg)
    \/ \E n \in 1..MaxScore : Expire(n)
    \/ \E n \in Note : OpTurnoff(n)

WorkerStep ==
    \/ Dequeue \/ Complete \/ ReadLoop \/ CheckPending \/ PrintMessage \/ PrintEnds
    \/ \E success \in BOOLEAN : Insert(success)

HostStep(h) == HostFill(h) \/ LogLook(h) \/ LogCopy(h)

Next ==
    \/ PerfStep \/ WorkerStep \/ PrintLogs
    \/ \E h \in Host : HostStep(h) \/ HostAdmit(h) \/ LogLock(h)

Spec == Init /\ [][Next]_vars

(* Every thread goes on while it can, and finishes what it holds a lock    *)
(* for; a thread that waits for a lock gets it in the end.                 *)
Fairness ==
    /\ WF_vars(PostedScore \/ NotePosted \/ Stop \/ StopLoop \/ FreeQueue) /\ SF_vars(Join)
    /\ SF_vars(WorkerStep)
    /\ \A h \in Host : WF_vars(HostStep(h))

LiveSpec == Spec /\ Fairness

-----------------------------------------------------------------------------
(* Properties.                                                             *)

\* When the event thread has gone, nothing that was accepted is left behind:
\* no request (whose memory and init depth would be lost) and no message.
\* The order of alloc_queue_stop and the last look at the queue make it so.
DrainedAtExit ==
    worker.pc = "gone" => queue = <<>> /\ active = 0 /\ mess.items = 0

\* Nobody is about to write into a queue that has been freed, although neither
\* the producers nor those who log are joined.
NoUseAfterFree ==
    /\ ~allocated => \A p \in Producer : post[p] = Refused
    /\ mess.freed => \A h \in Host : log[h] = "idle"

\* A key of which every note-on has been followed by its note-off sounds no
\* more when the pedal is up: no note-off overtakes its note-on through the
\* queue, is met by a note that was marked already, or is lost, until the
\* event thread is stopped.
NoStuckNote ==
    allocated => \A k \in Key :
        input.on[k] = input.off[k] /\ perf.msg = NoMessage /\ ~chn.sustaining
            => chn.kinsptr[k] = <<>>

\* Shutdown comes to its end: the event thread leaves however much is queued,
\* and although printing a message may log another.
ShutdownCompletes == perf.pc \in {"ended", "quit"} ~> perf.pc = "stopped"
=============================================================================
