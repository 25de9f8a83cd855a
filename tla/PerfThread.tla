----------------------------- MODULE PerfThread -----------------------------
(***************************************************************************)
(* The performance thread of the host API (Top/csPerfThread.cpp): the      *)
(* messages that hosts queue, pausing, flushing, recording, and the end.   *)
(*                                                                         *)
(* A section under queueLock is one step.  A message keeps its kind and    *)
(* who queued it: "event" stands for every message that only calls the     *)
(* engine, "callback" for one whose function may queue messages.  The lock *)
(* of recordData is held by the recording thread while it drains the ring, *)
(* recordLock by the performance thread while it joins that thread.  The   *)
(* constructor has returned; no other call is made beside or after Join,   *)
(* which destroys the locks.                                               *)
(***************************************************************************)
EXTENDS Integers, Sequences

CONSTANTS
    Host,         \* threads that use the object
    Calls,        \* the methods they call
    MaxCalls,     \* bound: calls of a host
    MaxOwn,       \* bound: messages of the performance thread in the queue
    BufferBlocks  \* capacity of the recording ring

ASSUME BoundsAssumption ==
    /\ Calls \subseteq {"Play", "Pause", "TogglePause", "Stop", "Record", "StopRecord",
                        "ScoreEvent", "RequestCallback", "FlushMessageQueue", "Join"}
    /\ {MaxCalls, MaxOwn, BufferBlocks} \subseteq Nat
ASSUME HostAssumption == "perf" \notin Host

VARIABLES
    queue,      \* firstMessage ... lastMessage
    batch,      \* what Perform has detached, the message being run first
    paused,
    pauseLock,  \* thread locks: TRUE when notified
    flushLock,
    status,     \* not zero
    perf,       \* where the performance thread is
    recorder,   \* where the recording thread is
    recording,  \* recordData.running
    cbuf,       \* blocks in the recording ring
    call        \* per host: where it is, what it has to queue, calls made

locks  == <<pauseLock, flushLock>>
record == <<recorder, recording, cbuf>>
vars   == <<queue, batch, paused, locks, status, perf, record, call>>

Message(kind, who) == [kind |-> kind, from |-> who]

Init ==
    /\ queue = <<Message("Pause", "perf")>> /\ batch = <<>>
    /\ paused = TRUE /\ pauseLock = TRUE /\ flushLock = TRUE
    /\ status = FALSE /\ perf = "detach"
    /\ recorder = "none" /\ recording = FALSE /\ cbuf = 0
    /\ call = [h \in Host |-> [pc |-> "idle", todo |-> <<>>, made |-> 0]]

-----------------------------------------------------------------------------
(* QueueMessage, by a host and by the performance thread itself.           *)

\* Mutant of Enqueue: a paused performance is not woken.
Enqueue_NoWake(kind, who) ==
    /\ queue' = Append(queue, Message(kind, who))
    /\ flushLock' = FALSE /\ UNCHANGED pauseLock

\* link the message, mark the queue as not empty, wake up from pause
Enqueue(kind, who) ==
    /\ queue' = Append(queue, Message(kind, who))
    /\ flushLock' = FALSE /\ pauseLock' = TRUE

\* A host begins a call.
MayCall(h) ==
    /\ call[h].pc = "idle" /\ call[h].made < MaxCalls
    /\ \A g \in Host : call[g].pc \notin {"join recorder", "join", "joined"}

HostGoes(h, pc) == call' = [call EXCEPT ![h].pc = pc]

\* The messages a method queues: Stop's constructor queues one of its own.
Messages(method) == IF method = "Stop" THEN <<"StopRecord", "Stop">> ELSE <<method>>

\* A method that queues messages.
HostCalls(h, method) ==
    /\ MayCall(h)
    /\ method \in Calls \ {"Record", "FlushMessageQueue", "Join"}
    /\ call' = [call EXCEPT ![h] = [pc |-> "queue", todo |-> Messages(method), made |-> @.made + 1]]
    /\ UNCHANGED <<queue, batch, paused, locks, status, perf, record>>

Rest(c) == [c EXCEPT !.todo = Tail(@), !.pc = IF Len(c.todo) = 1 THEN "idle" ELSE "queue"]

\* status is read without the lock
QueueLook(h) ==
    /\ call[h].pc = "queue"
    /\ call' = [call EXCEPT ![h] = IF status THEN Rest(@) ELSE [@ EXCEPT !.pc = "push"]]
    /\ UNCHANGED <<queue, batch, paused, locks, status, perf, record>>

QueuePush(h) ==
    /\ call[h].pc = "push"
    /\ Enqueue(Head(call[h].todo), h)
    /\ call' = [call EXCEPT ![h] = Rest(@)]
    /\ UNCHANGED <<batch, paused, status, perf, record>>

\* A callback queues; status is zero while it runs.
OwnMessage(kind) ==
    /\ perf = "callback" \/ (perf = "run" /\ batch # <<>> /\ Head(batch).kind = "RequestCallback")
    /\ kind \in Calls \cap {"Play", "Pause", "RequestCallback"}
    /\ Len(SelectSeq(queue, LAMBDA m : m.from = "perf")) < MaxOwn
    /\ Enqueue(kind, "perf")
    /\ UNCHANGED <<batch, paused, status, perf, record, call>>

-----------------------------------------------------------------------------
(* Recording.                                                              *)

\* csoundCondSignal: lost unless the recording thread waits
Signalled == IF recorder = "wait" THEN "woken" ELSE recorder

\* The file is open; a ring and a thread of its own for the new recording.
StartRecorder == recorder # "drain" /\ cbuf' = 0 /\ recording' = TRUE /\ recorder' = "start"

\* Mutant of Record: the constructor does not take recordLock.
Record_NoLock(h, ok) ==
    /\ MayCall(h) /\ "Record" \in Calls
    /\ IF recording \/ ~ok THEN UNCHANGED record ELSE StartRecorder
    /\ call' = [call EXCEPT ![h] = [pc |-> "queue", todo |-> Messages("Record"), made |-> @.made + 1]]
    /\ UNCHANGED <<queue, batch, paused, locks, status, perf>>

\* The constructor of the Record message, under recordLock, which the
\* performance thread holds while it joins; the file may not open.
Record(h, ok) ==
    /\ MayCall(h) /\ "Record" \in Calls
    /\ perf # "join recorder"
    /\ IF recording \/ ~ok THEN UNCHANGED record ELSE StartRecorder
    /\ call' = [call EXCEPT ![h] = [pc |-> "queue", todo |-> Messages("Record"), made |-> @.made + 1]]
    /\ UNCHANGED <<queue, batch, paused, locks, status, perf>>

\* recordThread_
RecorderStarts ==
    /\ recorder = "start"
    /\ recorder' = IF recording THEN "wait" ELSE "close"
    /\ UNCHANGED <<queue, batch, paused, locks, status, perf, recording, cbuf, call>>

\* csoundCondWait may return on its own.
RecorderWakes(signalled) ==
    /\ recorder = IF signalled THEN "woken" ELSE "wait"
    /\ recorder' = "drain"
    /\ UNCHANGED <<queue, batch, paused, locks, status, perf, recording, cbuf, call>>

RecorderReads ==
    /\ recorder = "drain" /\ cbuf > 0
    /\ cbuf' = cbuf - 1
    /\ UNCHANGED <<queue, batch, paused, locks, status, perf, recording, recorder, call>>

\* nothing was read
RecorderLoops ==
    /\ recorder = "drain" /\ cbuf = 0
    /\ recorder' = IF recording THEN "wait" ELSE "close"
    /\ UNCHANGED <<queue, batch, paused, locks, status, perf, recording, cbuf, call>>

RecorderCloses ==
    /\ recorder = "close"
    /\ recorder' = "none"
    /\ UNCHANGED <<queue, batch, paused, locks, status, perf, recording, cbuf, call>>

\* stopRecordThread, up to the join
stopRecordThread ==
    /\ recorder # "drain"
    /\ recording' = FALSE
    /\ recorder' = IF recording THEN Signalled ELSE recorder
    /\ UNCHANGED cbuf

-----------------------------------------------------------------------------
(* Perform.                                                                *)

\* Mutant of Detach: the queue counts as drained when it is detached.
Detach_Marks ==
    /\ perf = "detach" /\ queue # <<>>
    /\ batch' = queue /\ queue' = <<>> /\ perf' = "run"
    /\ flushLock' = TRUE
    /\ UNCHANGED <<paused, pauseLock, status, record, call>>

Detach ==
    /\ perf = "detach" /\ queue # <<>>
    /\ batch' = queue /\ queue' = <<>> /\ perf' = "run"
    /\ UNCHANGED <<paused, locks, status, record, call>>

\* The queue is empty and no message is in flight.
Idle ==
    /\ perf = "detach" /\ queue = <<>>
    /\ pauseLock' = (pauseLock /\ ~paused) /\ flushLock' = TRUE
    /\ perf' = IF paused THEN "wait" ELSE "callback"
    /\ UNCHANGED <<queue, batch, paused, status, record, call>>

\* wait for pauseLock, and notify it again
Wake ==
    /\ perf = "wait" /\ pauseLock
    /\ perf' = "detach"
    /\ UNCHANGED <<queue, batch, paused, locks, status, record, call>>

Running(kinds) == perf = "run" /\ batch # <<>> /\ Head(batch).kind \in kinds

\* Messages whose run returns zero and does not touch the recording.
RunMessage ==
    /\ Running({"Play", "Pause", "TogglePause", "ScoreEvent", "RequestCallback", "Record"})
    /\ paused' = CASE Head(batch).kind = "Play" -> FALSE
                   [] Head(batch).kind = "Pause" -> TRUE
                   [] Head(batch).kind = "TogglePause" -> ~paused
                   [] OTHER -> paused
    /\ batch' = Tail(batch)
    /\ UNCHANGED <<queue, locks, status, perf, record, call>>

RunStopRecord ==
    /\ Running({"StopRecord"})
    /\ stopRecordThread
    /\ IF recording THEN perf' = "join recorder" /\ UNCHANGED batch
       ELSE UNCHANGED perf /\ batch' = Tail(batch)
    /\ UNCHANGED <<queue, paused, locks, status, call>>

JoinRecorder ==
    /\ perf = "join recorder" /\ recorder = "none"
    /\ perf' = "run" /\ batch' = Tail(batch)
    /\ UNCHANGED <<queue, paused, locks, status, record, call>>

\* The rest of the batch is discarded.
RunStop ==
    /\ Running({"Stop"})
    /\ batch' = <<>> /\ perf' = "end"
    /\ UNCHANGED <<queue, paused, locks, status, record, call>>

\* Mutant of BatchDone: messages are taken until there are none.
BatchDone_DrainsAll ==
    /\ perf = "run" /\ batch = <<>>
    /\ perf' = "detach"
    /\ UNCHANGED <<queue, batch, paused, locks, status, record, call>>

\* One batch is run before an audio block, unless paused.
BatchDone ==
    /\ perf = "run" /\ batch = <<>>
    /\ perf' = IF paused THEN "detach" ELSE "callback"
    /\ flushLock' = (flushLock \/ (~paused /\ queue = <<>>))
    /\ UNCHANGED <<queue, batch, paused, pauseLock, status, record, call>>

\* The process callback has run.  csoundPerformKsmps goes on or ends the
\* performance; a block that is recorded is written next.
Audio(end) ==
    /\ perf = "callback"
    /\ perf' = IF recording THEN IF end THEN "write last" ELSE "write"
               ELSE IF end THEN "end" ELSE "detach"
    /\ recorder' = IF recording THEN recorder ELSE Signalled
    /\ UNCHANGED <<queue, batch, paused, locks, status, recording, cbuf, call>>

\* csoundWriteCircularBuffer, which may overrun, and the signal
Write ==
    /\ perf \in {"write", "write last"}
    /\ cbuf' = IF cbuf < BufferBlocks THEN cbuf + 1 ELSE cbuf
    /\ recorder' = Signalled
    /\ perf' = IF perf = "write" THEN "detach" ELSE "end"
    /\ UNCHANGED <<queue, batch, paused, locks, status, recording, call>>

\* endOfPerf: status, cleanup
End ==
    /\ perf = "end"
    /\ status' = TRUE /\ perf' = "drop"
    /\ UNCHANGED <<queue, batch, paused, locks, record, call>>

\* delete any pending messages
Drop ==
    /\ perf = "drop"
    /\ queue' = <<>> /\ flushLock' = TRUE /\ perf' = "done"
    /\ UNCHANGED <<batch, paused, pauseLock, status, record, call>>

-----------------------------------------------------------------------------
(* FlushMessageQueue and Join, by a host.  From the performance thread a   *)
(* flush is ignored.                                                       *)

Flush(h) ==
    /\ MayCall(h) /\ "FlushMessageQueue" \in Calls
    /\ call' = [call EXCEPT ![h].pc = "flush", ![h].made = @ + 1]
    /\ UNCHANGED <<queue, batch, paused, locks, status, perf, record>>

FlushWait(h) ==
    /\ call[h].pc = "flush" /\ flushLock
    /\ flushLock' = FALSE
    /\ HostGoes(h, "flushed")
    /\ UNCHANGED <<queue, batch, paused, pauseLock, status, perf, record>>

FlushNotify(h) ==
    /\ call[h].pc = "flushed"
    /\ flushLock' = TRUE
    /\ HostGoes(h, "idle")
    /\ UNCHANGED <<queue, batch, paused, pauseLock, status, perf, record>>

\* The recording is stopped before the performance thread is joined.
Join(h) ==
    /\ "Join" \in Calls /\ \A g \in Host : call[g].pc = "idle"
    /\ IF recording THEN stopRecordThread /\ HostGoes(h, "join recorder")
       ELSE UNCHANGED record /\ HostGoes(h, "join")
    /\ UNCHANGED <<queue, batch, paused, locks, status, perf>>

JoinedRecorder(h) ==
    /\ call[h].pc = "join recorder" /\ recorder = "none"
    /\ HostGoes(h, "join")
    /\ UNCHANGED <<queue, batch, paused, locks, status, perf, record>>

JoinedPerf(h) ==
    /\ call[h].pc = "join" /\ perf = "done"
    /\ queue' = <<>> /\ pauseLock' = TRUE /\ flushLock' = TRUE
    /\ HostGoes(h, "joined")
    /\ UNCHANGED <<batch, paused, status, perf, record>>

-----------------------------------------------------------------------------
PerfStep ==
    \/ Detach \/ Idle \/ Wake \/ RunMessage \/ RunStopRecord \/ JoinRecorder \/ RunStop
    \/ BatchDone \/ Write \/ End \/ Drop \/ \E end \in BOOLEAN : Audio(end)

RecorderStep ==
    RecorderStarts \/ RecorderReads \/ RecorderLoops \/ RecorderCloses \/ RecorderWakes(TRUE)

HostStep(h) ==
    QueueLook(h) \/ QueuePush(h) \/ FlushWait(h) \/ FlushNotify(h)
    \/ JoinedRecorder(h) \/ JoinedPerf(h)

Next ==
    \/ PerfStep \/ RecorderStep \/ RecorderWakes(FALSE)
    \/ \E kind \in {"Play", "Pause", "RequestCallback"} : OwnMessage(kind)
    \/ \E h \in Host :
          \/ HostStep(h) \/ Flush(h) \/ Join(h)
          \/ \E ok \in BOOLEAN : Record(h, ok)
          \/ \E method \in Calls : HostCalls(h, method)

Spec == Init /\ [][Next]_vars

(* Every thread goes on while it can; the performance thread gets the lock *)
(* of the recording thread in the end.                                     *)
LiveSpec ==
    /\ Spec
    /\ SF_vars(PerfStep) /\ WF_vars(RecorderStep) /\ \A h \in Host : WF_vars(HostStep(h))

-----------------------------------------------------------------------------
(* Properties.                                                             *)

Queued(list, h) == \E i \in DOMAIN list : list[i].from = h
Pending(h)      == Queued(queue, h) \/ Queued(batch, h)

\* A flush returns only when every message that its caller had queued has been
\* run or discarded: none is left in the queue or in the detached batch.
FlushComplete == [][ \A h \in Host : FlushWait(h) => ~Pending(h) ]_vars

\* Messages that callbacks queue without end never keep the audio from being
\* performed: an unpaused performance comes back to the process callback.
AudioGoesOn == []<>(perf \in {"callback", "done"} \/ paused)

\* A recording begins only when the thread of the one before, which uses the
\* same recordData, has closed its file and gone, and the performance thread is
\* not between its look at "running" and the write of a block: recordings that
\* hosts start while a StopRecord message is run never share a ring or a file.
RecordingsApart ==
    [][ ~recording /\ recording' => recorder = "none" /\ perf \notin {"write", "write last"} ]_vars

Stopping ==
    \/ perf \in {"end", "drop", "done"}
    \/ \E i \in DOMAIN (queue \o batch) : (queue \o batch)[i].kind = "Stop"

\* Join returns once Stop has been called, although the performance may be
\* paused, may be recording and may end by itself meanwhile.
JoinReturns ==
    \A h \in Host :
        (call[h].pc \in {"join", "join recorder"} /\ Stopping) ~> call[h].pc = "joined"
=============================================================================
