-------------------------- MODULE PerfThread_proofs --------------------------
(***************************************************************************)
(* Proofs about PerfThread: when a flush returns, and that recordings stay *)
(* apart, for any number of calls and messages.                            *)
(***************************************************************************)
EXTENDS PerfThread, SequenceTheorems, TLAPS

Kind == {"Play", "Pause", "TogglePause", "Stop", "Record", "StopRecord",
         "ScoreEvent", "RequestCallback", "FlushMessageQueue", "Join"}
Msg  == [kind : Kind, from : Host \cup {"perf"}]
CallPc == {"idle", "queue", "push", "flush", "flushed", "join recorder", "join", "joined"}
CallState == [pc : CallPc, todo : Seq(Kind), made : Int]

\* A host that has still to queue something knows what.
TypeOK ==
    /\ queue \in Seq(Msg) /\ batch \in Seq(Msg)
    /\ flushLock \in BOOLEAN
    /\ call \in [Host -> CallState]
    /\ \A h \in Host : call[h].pc \in {"queue", "push"} => call[h].todo # <<>>

\* Only while messages are run is there a batch.
BatchInv ==
    /\ perf \notin {"run", "join recorder"} => batch = <<>>
    /\ perf = "join recorder" => batch # <<>>

\* The flush lock of a host, or the flush that has taken it, says the truth
\* about that host's messages.
FlushInv(h) == flushLock \/ call[h].pc = "flushed" => ~Pending(h)

IInv(h) == TypeOK /\ BatchInv /\ FlushInv(h)

\* No host but h is inside a flush that has taken the lock.
SoleFlusher(h) == \A g \in Host \ {h} : call[g].pc # "flushed"

-----------------------------------------------------------------------------
\* What a method queues.
LEMMA MessagesType ==
    ASSUME NEW method \in Kind
    PROVE  Messages(method) \in Seq(Kind) /\ Messages(method) # <<>>
<1>1. CASE method = "Stop"
  <2>1. "StopRecord" \in Kind /\ "Stop" \in Kind
    BY DEF Kind
  <2>2. <<"StopRecord", "Stop">> \in Seq(Kind) /\ <<"StopRecord", "Stop">> # <<>>
    BY <2>1
  <2>. QED
    BY <1>1, <2>2 DEF Messages
<1>2. CASE method # "Stop"
  <2>1. <<method>> \in Seq(Kind) /\ <<method>> # <<>>
    OBVIOUS
  <2>. QED
    BY <1>2, <2>1 DEF Messages
<1>. QED
  BY <1>1, <1>2

\* Taking a message off leaves nobody with more messages.
LEMMA TailQueued ==
    ASSUME NEW s \in Seq(Msg), s # <<>>, NEW h
    PROVE  Tail(s) \in Seq(Msg) /\ (Queued(Tail(s), h) => Queued(s, h))
<1>1. /\ Tail(s) \in Seq(Msg) /\ Len(Tail(s)) = Len(s) - 1 /\ Len(s) \in Nat
      /\ \A i \in 1..Len(Tail(s)) : Tail(s)[i] = s[i + 1]
      /\ DOMAIN s = 1..Len(s) /\ DOMAIN Tail(s) = 1..Len(Tail(s))
  BY HeadTailProperties, LenProperties
<1>2. ASSUME NEW i \in DOMAIN Tail(s), Tail(s)[i].from = h PROVE Queued(s, h)
  <2>1. i + 1 \in DOMAIN s /\ s[i + 1].from = h
    BY <1>1, <1>2
  <2>. QED
    BY <2>1 DEF Queued
<1>. QED
  BY <1>1, <1>2 DEF Queued

\* A message of somebody else leaves a host with the messages it had.
LEMMA AppendQueued ==
    ASSUME NEW s \in Seq(Msg), NEW kind \in Kind, NEW who \in Host \cup {"perf"}, NEW h
    PROVE  /\ Append(s, Message(kind, who)) \in Seq(Msg)
           /\ who # h /\ Queued(Append(s, Message(kind, who)), h) => Queued(s, h)
<1>1. PICK m \in Msg : m = Message(kind, who) /\ m.from = who
  <2>1. Message(kind, who) \in Msg /\ Message(kind, who).from = who
    BY DEF Message, Msg
  <2>. QED
    BY <2>1
<1>2. /\ Append(s, m) \in Seq(Msg) /\ Len(Append(s, m)) = Len(s) + 1 /\ Len(s) \in Nat
      /\ \A i \in 1..Len(s) : Append(s, m)[i] = s[i]
      /\ Append(s, m)[Len(s) + 1] = m
      /\ DOMAIN s = 1..Len(s) /\ DOMAIN Append(s, m) = 1..Len(Append(s, m))
  BY AppendProperties, LenProperties
<1>3. ASSUME who # h, NEW i \in DOMAIN Append(s, m), Append(s, m)[i].from = h PROVE Queued(s, h)
  <2>1. i # Len(s) + 1
    BY <1>1, <1>2, <1>3
  <2>2. i \in DOMAIN s /\ s[i].from = h
    BY <1>2, <1>3, <2>1
  <2>. QED
    BY <2>2 DEF Queued
<1>. QED
  BY <1>1, <1>2, <1>3 DEF Queued

\* Nobody has a message in an empty list.
LEMMA EmptyQueued == \A h : ~Queued(<<>>, h)
BY DEF Queued

\* The start: only the performance thread's own pause is queued.
LEMMA InitIInv == ASSUME NEW h \in Host PROVE Init => IInv(h)
<1>. SUFFICES ASSUME Init PROVE IInv(h)
  OBVIOUS
<1>1. PICK m \in Msg : m = Message("Pause", "perf") /\ m.from = "perf"
  <2>1. Message("Pause", "perf") \in Msg /\ Message("Pause", "perf").from = "perf"
    BY DEF Message, Msg, Kind
  <2>. QED
    BY <2>1
<1>2. queue = <<m>> /\ batch = <<>>
  BY <1>1 DEF Init
<1>3. queue \in Seq(Msg) /\ batch \in Seq(Msg)
  BY <1>2
<1>4. call \in [Host -> CallState]
  <2>1. <<>> \in Seq(Kind)
    BY EmptySeq
  <2>. QED
    BY <2>1 DEF Init, CallState, CallPc
<1>5. TypeOK /\ BatchInv
  BY <1>2, <1>3, <1>4 DEF Init, TypeOK, BatchInv
<1>6. ~Queued(queue, h) /\ ~Queued(batch, h)
  BY <1>1, <1>2, HostAssumption DEF Queued
<1>. QED
  BY <1>5, <1>6 DEF IInv, FlushInv, Pending

\* The rest of what a host has to queue.
LEMMA RestType ==
    ASSUME NEW c \in CallState, c.todo # <<>>
    PROVE  /\ Rest(c) \in CallState /\ Rest(c).pc \in {"idle", "queue"}
           /\ Rest(c).pc = "queue" => Rest(c).todo # <<>>
<1>1. /\ c.todo \in Seq(Kind) /\ Tail(c.todo) \in Seq(Kind)
      /\ Len(c.todo) \in Nat /\ Len(Tail(c.todo)) = Len(c.todo) - 1
  BY HeadTailProperties, LenProperties DEF CallState
<1>2. /\ Rest(c).pc = IF Len(c.todo) = 1 THEN "idle" ELSE "queue"
      /\ Rest(c).todo = Tail(c.todo) /\ Rest(c).made = c.made
      /\ Rest(c) = [pc |-> Rest(c).pc, todo |-> Rest(c).todo, made |-> Rest(c).made]
  <2>1. PICK t : t = Tail(c.todo)
    OBVIOUS
  <2>2. PICK q : q = IF Len(c.todo) = 1 THEN "idle" ELSE "queue"
    OBVIOUS
  <2>3. Rest(c) = [c EXCEPT !.todo = t, !.pc = q]
    BY <2>1, <2>2 DEF Rest
  <2>4. DOMAIN c = {"pc", "todo", "made"}
    BY DEF CallState
  <2>. QED
    BY <2>1, <2>2, <2>3, <2>4 DEF CallState
<1>3. Rest(c) \in CallState /\ Rest(c).pc \in {"idle", "queue"}
  <2>1. PICK q : q = Rest(c).pc /\ q \in {"idle", "queue"}
    BY <1>2
  <2>2. [pc |-> q, todo |-> Tail(c.todo), made |-> c.made] \in CallState
    BY <1>1, <2>1 DEF CallState, CallPc
  <2>. QED
    BY <1>2, <2>1, <2>2
<1>4. Len(c.todo) # 0
  BY <1>1
<1>5. Rest(c).pc = "queue" => Len(Tail(c.todo)) # 0
  BY <1>1, <1>2, <1>4
<1>6. Tail(c.todo) = <<>> => Len(Tail(c.todo)) = 0
  BY EmptySeq
<1>. QED
  BY <1>2, <1>3, <1>5, <1>6

\* The performance thread: queue and batch lose messages, and the lock is set
\* only when both are empty.
LEMMA PerfKeeps ==
    ASSUME NEW h \in Host, IInv(h), PerfStep
    PROVE  IInv(h)'
<1>. USE DEF IInv, TypeOK, BatchInv, FlushInv, Pending, locks
<1>1. CASE Detach
  BY <1>1, EmptyQueued, EmptySeq DEF Detach
<1>2. CASE Idle
  BY <1>2, EmptyQueued DEF Idle
<1>3. CASE Wake
  BY <1>3 DEF Wake
<1>4. CASE RunMessage
  BY <1>4, TailQueued DEF RunMessage, Running
<1>5. CASE RunStopRecord
  BY <1>5, TailQueued DEF RunStopRecord, Running
<1>6. CASE JoinRecorder
  BY <1>6, TailQueued DEF JoinRecorder
<1>7. CASE RunStop
  BY <1>7, EmptyQueued, EmptySeq DEF RunStop
<1>8. CASE BatchDone
  BY <1>8, EmptyQueued DEF BatchDone
<1>9. CASE Write
  BY <1>9 DEF Write
<1>10. CASE End
  BY <1>10 DEF End
<1>11. CASE Drop
  BY <1>11, EmptyQueued, EmptySeq DEF Drop
<1>12. ASSUME NEW end \in BOOLEAN, Audio(end) PROVE IInv(h)'
  BY <1>12 DEF Audio
<1>. HIDE DEF IInv
<1>. QED
  BY <1>1, <1>2, <1>3, <1>4, <1>5, <1>6, <1>7, <1>8, <1>9, <1>10, <1>11, <1>12 DEF PerfStep

\* A call goes to another place, and another call begins.
LEMMA CallPlace ==
    ASSUME NEW c \in CallState, NEW q \in CallPc
    PROVE  /\ \E d \in CallState : d = [c EXCEPT !.pc = q] /\ d.pc = q
           /\ \E d \in CallState : d = [c EXCEPT !.pc = q, !.made = @ + 1] /\ d.pc = q
           /\ c.made + 1 \in Int
<1>1. c.made \in Int /\ c.todo \in Seq(Kind) /\ DOMAIN c = {"pc", "todo", "made"}
  BY DEF CallState
<1>2. PICK n \in Int : n = c.made + 1
  BY <1>1
<1>3. [pc |-> q, todo |-> c.todo, made |-> c.made] \in CallState
  BY <1>1 DEF CallState
<1>4. [pc |-> q, todo |-> c.todo, made |-> n] \in CallState
  BY <1>1, <1>2 DEF CallState
<1>5. [c EXCEPT !.pc = q] = [pc |-> q, todo |-> c.todo, made |-> c.made]
  BY <1>1 DEF CallState
<1>6. [c EXCEPT !.pc = q, !.made = @ + 1] = [pc |-> q, todo |-> c.todo, made |-> n]
  <2>1. PICK d : d = [c EXCEPT !.pc = q]
    OBVIOUS
  <2>2. d \in CallState /\ DOMAIN d = {"pc", "todo", "made"} /\ d.pc = q /\ d.todo = c.todo /\ d.made = c.made
    BY <1>3, <1>5, <2>1 DEF CallState
  <2>3. [c EXCEPT !.pc = q, !.made = @ + 1] = [d EXCEPT !.made = n]
    BY <1>2, <2>1, <2>2
  <2>4. [d EXCEPT !.made = n] = [pc |-> d.pc, todo |-> d.todo, made |-> n]
    BY <2>2 DEF CallState
  <2>. QED
    BY <2>2, <2>3, <2>4
<1>7. /\ [pc |-> q, todo |-> c.todo, made |-> c.made].pc = q
      /\ [pc |-> q, todo |-> c.todo, made |-> n].pc = q
  OBVIOUS
<1>. QED
  BY <1>2, <1>3, <1>4, <1>5, <1>6, <1>7

\* A step of one host that leaves the queue alone.
LEMMA CallKeeps ==
    ASSUME NEW h \in Host, IInv(h), NEW g \in Host, NEW c \in CallState,
           call' = [call EXCEPT ![g] = c], c.pc \in {"queue", "push"} => c.todo # <<>>,
           UNCHANGED <<queue, batch, perf>>, flushLock' \in BOOLEAN,
           (flushLock' \/ (g = h /\ c.pc = "flushed")) => flushLock \/ call[h].pc = "flushed"
    PROVE  IInv(h)'
<1>1. call' \in [Host -> CallState] /\ call'[g] = c /\ \A f \in Host \ {g} : call'[f] = call[f]
  BY DEF IInv, TypeOK
<1>2. TypeOK' /\ BatchInv'
  BY <1>1 DEF IInv, TypeOK, BatchInv
<1>3. Pending(h)' <=> Pending(h)
  BY DEF Pending, Queued
<1>4. FlushInv(h)'
  BY <1>1, <1>3 DEF IInv, FlushInv
<1>. QED
  BY <1>2, <1>4 DEF IInv

\* A message that is queued clears the lock.
LEMMA EnqueueKeeps ==
    ASSUME NEW h \in Host, IInv(h), NEW kind \in Kind, NEW who \in Host \cup {"perf"},
           Enqueue(kind, who), UNCHANGED <<batch, perf>>,
           call' \in [Host -> CallState],
           \A f \in Host : call'[f].pc \in {"queue", "push"} => call'[f].todo # <<>>,
           call'[h].pc = "flushed" => call[h].pc = "flushed" /\ who # h
    PROVE  IInv(h)'
<1>1. queue' = Append(queue, Message(kind, who)) /\ flushLock' = FALSE
  BY DEF Enqueue
<1>2. queue' \in Seq(Msg) /\ (who # h /\ Queued(queue', h) => Queued(queue, h))
  BY <1>1, AppendQueued DEF IInv, TypeOK
<1>3. TypeOK' /\ BatchInv'
  BY <1>1, <1>2 DEF IInv, TypeOK, BatchInv
<1>4. who # h /\ Pending(h)' => Pending(h)
  BY <1>2 DEF Pending, Queued
<1>5. FlushInv(h)'
  BY <1>1, <1>4 DEF IInv, FlushInv
<1>. QED
  BY <1>3, <1>5 DEF IInv

\* The hosts, as long as h alone flushes.
LEMMA HostKeeps ==
    ASSUME NEW h \in Host, IInv(h), SoleFlusher(h), NEW g \in Host, HostStep(g)
    PROVE  IInv(h)'
<1>1. call \in [Host -> CallState] /\ call[g] \in CallState /\ flushLock \in BOOLEAN
  BY DEF IInv, TypeOK
<1>2. call[g].pc \in {"queue", "push"} => call[g].todo # <<>>
  BY DEF IInv, TypeOK
<1>3. CASE QueueLook(g)
  <2>1. PICK c : c = IF status THEN Rest(call[g]) ELSE [call[g] EXCEPT !.pc = "push"]
    OBVIOUS
  <2>2. call' = [call EXCEPT ![g] = c]
    BY <1>3, <2>1 DEF QueueLook
  <2>3. c \in CallState /\ c.pc # "flushed" /\ (c.pc \in {"queue", "push"} => c.todo # <<>>)
    <3>1. call[g].todo # <<>>
      BY <1>2, <1>3 DEF QueueLook
    <3>2. CASE status
      BY <1>1, <2>1, <3>1, <3>2, RestType
    <3>3. CASE ~status
      BY <1>1, <2>1, <3>1, <3>3 DEF CallState, CallPc
    <3>. QED
      BY <3>2, <3>3
  <2>. QED
    BY <1>1, <1>3, <2>2, <2>3, CallKeeps DEF QueueLook, locks
<1>4. CASE QueuePush(g)
  <2>1. call[g].todo # <<>> /\ call[g].todo \in Seq(Kind)
    BY <1>1, <1>2, <1>4 DEF QueuePush, CallState
  <2>2. PICK kind \in Kind : kind = Head(call[g].todo)
    BY <2>1, HeadTailProperties
  <2>3. PICK c \in CallState : /\ c = Rest(call[g]) /\ c.pc \in {"idle", "queue"}
                               /\ c.pc = "queue" => c.todo # <<>>
    BY <1>1, <2>1, RestType
  <2>4. /\ call' = [call EXCEPT ![g] = c] /\ Enqueue(kind, g) /\ UNCHANGED <<batch, perf>>
        /\ call[g].pc = "push"
    BY <1>4, <2>2, <2>3 DEF QueuePush
  <2>5. /\ call' \in [Host -> CallState]
        /\ \A f \in Host : call'[f].pc \in {"queue", "push"} => call'[f].todo # <<>>
        /\ call'[h].pc = "flushed" => call[h].pc = "flushed" /\ g # h
    BY <1>1, <2>3, <2>4 DEF IInv, TypeOK
  <2>. QED
    BY <2>4, <2>5, EnqueueKeeps
<1>5. CASE FlushWait(g)
  <2>1. PICK c \in CallState : c = [call[g] EXCEPT !.pc = "flushed"] /\ c.pc = "flushed"
    BY <1>1, CallPlace, Zenon DEF CallPc
  <2>2. call' = [call EXCEPT ![g] = c]
    BY <1>5, <2>1 DEF FlushWait, HostGoes
  <2>. QED
    BY <1>5, <2>1, <2>2, CallKeeps DEF FlushWait
<1>6. CASE FlushNotify(g)
  <2>1. g = h /\ call[h].pc = "flushed"
    BY <1>6 DEF FlushNotify, SoleFlusher
  <2>2. PICK c \in CallState : c = [call[g] EXCEPT !.pc = "idle"] /\ c.pc = "idle"
    BY <1>1, CallPlace, Zenon DEF CallPc
  <2>3. call' = [call EXCEPT ![g] = c]
    BY <1>6, <2>2 DEF FlushNotify, HostGoes
  <2>. QED
    BY <1>6, <2>1, <2>2, <2>3, CallKeeps DEF FlushNotify
<1>7. CASE JoinedRecorder(g)
  <2>1. PICK c \in CallState : c = [call[g] EXCEPT !.pc = "join"] /\ c.pc = "join"
    BY <1>1, CallPlace, Zenon DEF CallPc
  <2>2. call' = [call EXCEPT ![g] = c]
    BY <1>7, <2>1 DEF JoinedRecorder, HostGoes
  <2>. QED
    BY <1>1, <1>7, <2>1, <2>2, CallKeeps DEF JoinedRecorder, locks
<1>8. CASE JoinedPerf(g)
  <2>1. PICK c \in CallState : c = [call[g] EXCEPT !.pc = "joined"] /\ c.pc = "joined"
    BY <1>1, CallPlace, Zenon DEF CallPc
  <2>2. call' = [call EXCEPT ![g] = c]
    BY <1>8, <2>1 DEF JoinedPerf, HostGoes
  <2>3. queue' = <<>> /\ batch' = <<>> /\ flushLock' = TRUE /\ perf' = perf /\ perf = "done"
    BY <1>8 DEF JoinedPerf, IInv, BatchInv
  <2>4. <<>> \in Seq(Msg)
    BY EmptySeq
  <2>5. TypeOK'
    BY <1>1, <2>1, <2>2, <2>3, <2>4 DEF IInv, TypeOK
  <2>6. BatchInv' /\ FlushInv(h)'
    BY <2>3, EmptyQueued DEF BatchInv, FlushInv, Pending
  <2>. QED
    BY <2>5, <2>6 DEF IInv
<1>. QED
  BY <1>3, <1>4, <1>5, <1>6, <1>7, <1>8 DEF HostStep

\* A call begins.
LEMMA BeginKeeps ==
    ASSUME NEW h \in Host, IInv(h), NEW g \in Host,
           \/ Flush(g) \/ Join(g) \/ (\E ok \in BOOLEAN : Record(g, ok))
           \/ (\E method \in Calls : HostCalls(g, method))
    PROVE  IInv(h)'
<1>1. call \in [Host -> CallState] /\ call[g] \in CallState /\ flushLock \in BOOLEAN
  BY DEF IInv, TypeOK
<1>2. CASE Flush(g)
  <2>1. PICK c \in CallState : /\ c = [call[g] EXCEPT !.pc = "flush", !.made = @ + 1]
                               /\ c.pc = "flush"
    BY <1>1, CallPlace, Zenon DEF CallPc
  <2>2. call' = [call EXCEPT ![g] = c]
    BY <1>1, <1>2, <2>1 DEF Flush
  <2>. QED
    BY <1>1, <1>2, <2>1, <2>2, CallKeeps DEF Flush, locks
<1>3. CASE Join(g)
  <2>1. PICK q \in {"join recorder", "join"} : HostGoes(g, q)
    BY <1>3 DEF Join
  <2>5. q \in CallPc
    BY DEF CallPc
  <2>2. PICK c \in CallState : c = [call[g] EXCEPT !.pc = q] /\ c.pc = q
    BY <1>1, <2>5, CallPlace, Zenon
  <2>3. call' = [call EXCEPT ![g] = c]
    BY <2>1, <2>2 DEF HostGoes
  <2>. QED
    BY <1>1, <1>3, <2>2, <2>3, CallKeeps DEF Join, locks
<1>4. ASSUME NEW method \in Kind,
             call' = [call EXCEPT ![g] = [pc |-> "queue", todo |-> Messages(method), made |-> @.made + 1]],
             UNCHANGED <<queue, batch, locks, perf>>
      PROVE  IInv(h)'
  <2>1. PICK c \in CallState :
            /\ c = [pc |-> "queue", todo |-> Messages(method), made |-> call[g].made + 1]
            /\ c.pc = "queue" /\ c.todo # <<>>
    <3>1. PICK t \in Seq(Kind) : t = Messages(method) /\ t # <<>>
      BY MessagesType
    <3>2. call[g].made + 1 \in Int
      BY <1>1 DEF CallState
    <3>3. [pc |-> "queue", todo |-> t, made |-> call[g].made + 1] \in CallState
      BY <3>2 DEF CallState, CallPc
    <3>. QED
      BY <3>1, <3>3
  <2>2. call' = [call EXCEPT ![g] = c]
    BY <1>1, <1>4, <2>1
  <2>. QED
    BY <1>1, <1>4, <2>1, <2>2, CallKeeps DEF locks
<1>5. Calls \subseteq Kind
  BY BoundsAssumption DEF Kind
<1>6. ASSUME NEW ok \in BOOLEAN, Record(g, ok) PROVE IInv(h)'
  BY <1>4, <1>6 DEF Record, Kind
<1>7. ASSUME NEW method \in Calls, HostCalls(g, method) PROVE IInv(h)'
  BY <1>4, <1>5, <1>7 DEF HostCalls
<1>. QED
  BY <1>2, <1>3, <1>6, <1>7

\* Every step keeps the invariant while h alone flushes.
LEMMA NextIInv ==
    ASSUME NEW h \in Host
    PROVE  IInv(h) /\ SoleFlusher(h) /\ [Next]_vars => IInv(h)'
<1>. SUFFICES ASSUME IInv(h), SoleFlusher(h), [Next]_vars PROVE IInv(h)'
  OBVIOUS
<1>1. ASSUME UNCHANGED <<queue, batch, locks, perf, call>> PROVE IInv(h)'
  BY <1>1 DEF IInv, TypeOK, BatchInv, FlushInv, Pending, Queued, locks
<1>2. ASSUME RecorderStep \/ RecorderWakes(FALSE) \/ UNCHANGED vars PROVE IInv(h)'
  BY <1>1, <1>2 DEF RecorderStep, RecorderStarts, RecorderReads, RecorderLoops, RecorderCloses,
                    RecorderWakes, vars
<1>3. ASSUME NEW kind \in {"Play", "Pause", "RequestCallback"}, OwnMessage(kind) PROVE IInv(h)'
  <2>1. kind \in Kind /\ "perf" \in Host \cup {"perf"} /\ "perf" # h
    BY HostAssumption DEF Kind
  <2>2. Enqueue(kind, "perf") /\ UNCHANGED <<batch, perf, call>>
    BY <1>3 DEF OwnMessage
  <2>3. /\ call' \in [Host -> CallState]
        /\ \A f \in Host : call'[f].pc \in {"queue", "push"} => call'[f].todo # <<>>
        /\ call'[h].pc = "flushed" => call[h].pc = "flushed"
    BY <2>2 DEF IInv, TypeOK
  <2>. QED
    BY <2>1, <2>2, <2>3, EnqueueKeeps
<1>. QED
  BY <1>2, <1>3, PerfKeeps, HostKeeps, BeginKeeps DEF Next

\* However many hosts queue messages, the flushes of the one host that flushes
\* return only when none of its messages is left: flushLock says the truth to it.
THEOREM FlushOfOne ==
    ASSUME NEW h \in Host
    PROVE  Spec /\ []SoleFlusher(h) => [][FlushWait(h) => ~Pending(h)]_vars
<1>1. Init => IInv(h)
  BY InitIInv
<1>2. IInv(h) /\ SoleFlusher(h) /\ [Next]_vars => IInv(h)'
  BY NextIInv
<1>3. IInv(h) => (FlushWait(h) => ~Pending(h))
  BY DEF IInv, FlushInv, FlushWait
<1>. QED
  BY <1>1, <1>2, <1>3, PTL DEF Spec

\* The invariant of an object that one host thread uses.
SoleIInv(h) == Host = {h} /\ IInv(h)
Flushed     == \A h \in Host : FlushWait(h) => ~Pending(h)

\* With a single host thread, a flush returns only when every message its
\* caller had queued has been run or discarded.
THEOREM SoleHostFlushes ==
    ASSUME NEW h
    PROVE  Host = {h} /\ Spec => FlushComplete
<1>1. Host = {h} /\ Init => SoleIInv(h)
  BY InitIInv DEF SoleIInv
<1>2. SoleIInv(h) /\ [Next]_vars => SoleIInv(h)'
  <2>. SUFFICES ASSUME SoleIInv(h), [Next]_vars PROVE SoleIInv(h)'
    OBVIOUS
  <2>1. h \in Host /\ SoleFlusher(h)
    BY DEF SoleIInv, SoleFlusher
  <2>. QED
    BY <2>1, NextIInv DEF SoleIInv
<1>3. SoleIInv(h) => Flushed
  BY DEF SoleIInv, IInv, FlushInv, FlushWait, Flushed
<1>4. Host = {h} /\ Spec => [][Flushed]_vars
  BY <1>1, <1>2, <1>3, PTL DEF Spec
<1>. QED
  BY <1>4 DEF FlushComplete, Flushed

-----------------------------------------------------------------------------
(* The recording.                                                          *)

\* Every host has a record of its call.
CallsInv ==
    /\ DOMAIN call = Host
    /\ \A h \in Host : DOMAIN call[h] = {"pc", "todo", "made"}

Joining  == \E h \in Host : call[h].pc \in {"join recorder", "join", "joined"}
Awaiting == perf = "join recorder" \/ \E h \in Host : call[h].pc = "join recorder"
Writing  == perf \in {"write", "write last"}

\* A recording thread that was told to leave is being joined; a block that is
\* written belongs to the recording that runs, or the object is being joined.
RecorderInv ==
    /\ recorder # "none" /\ ~recording => Awaiting
    /\ Writing /\ ~recording => Joining

RecInv == CallsInv /\ RecorderInv

\* Changing a field of a record leaves it the fields it had.
LEMMA Fields ==
    ASSUME NEW c, DOMAIN c = {"pc", "todo", "made"}, NEW q
    PROVE  /\ DOMAIN [c EXCEPT !.pc = q] = {"pc", "todo", "made"}
           /\ [c EXCEPT !.pc = q].pc = q
           /\ DOMAIN [c EXCEPT !.pc = q, !.made = @ + 1] = {"pc", "todo", "made"}
           /\ [c EXCEPT !.pc = q, !.made = @ + 1].pc = q
           /\ DOMAIN Rest(c) = {"pc", "todo", "made"}
           /\ Rest(c).pc \in {"idle", "queue"}
  BY DEF Rest

\* A step of one host leaves the calls of the others alone.
LEMMA OneCall ==
    ASSUME CallsInv, NEW g \in Host, NEW c, DOMAIN c = {"pc", "todo", "made"},
           call' = [call EXCEPT ![g] = c]
    PROVE  CallsInv' /\ call'[g] = c /\ \A h \in Host \ {g} : call'[h] = call[h]
  BY DEF CallsInv

\* A host comes to a place that is not part of Join.
LEMMA OutsideJoin ==
    ASSUME RecInv, NEW g \in Host, NEW c, DOMAIN c = {"pc", "todo", "made"},
           call' = [call EXCEPT ![g] = c],
           call[g].pc \notin {"join recorder", "join", "joined"},
           UNCHANGED <<perf, record>>
    PROVE  RecInv'
<1>1. CallsInv' /\ \A h \in Host \ {g} : call'[h] = call[h]
  BY OneCall DEF RecInv
<1>2. Awaiting => Awaiting'
  BY <1>1 DEF Awaiting
<1>3. Joining => Joining'
  BY <1>1 DEF Joining
<1>. QED
  BY <1>1, <1>2, <1>3 DEF RecInv, RecorderInv, Writing, record

\* The performance thread goes on when the thread it joins has gone, and it
\* comes to a write only while a recording runs.
LEMMA PerfRecords == ASSUME RecInv, PerfStep PROVE RecInv'
<1>1. call' = call
  BY DEF PerfStep, Detach, Idle, Wake, RunMessage, RunStopRecord, JoinRecorder, RunStop,
         BatchDone, Audio, Write, End, Drop
<1>2. CallsInv' /\ (Joining <=> Joining')
  BY <1>1 DEF RecInv, CallsInv, Joining
<1>3. CASE RunStopRecord
  <2>1. recording => perf' = "join recorder"
    BY <1>3 DEF RunStopRecord
  <2>2. ~recording => recorder' = recorder /\ perf' = perf
    BY <1>3 DEF RunStopRecord, stopRecordThread
  <2>3. ~recording' /\ perf = "run"
    BY <1>3 DEF RunStopRecord, stopRecordThread, Running
  <2>. QED
    BY <1>1, <1>2, <2>1, <2>2, <2>3 DEF RecInv, RecorderInv, Awaiting, Writing
<1>4. CASE JoinRecorder
  BY <1>1, <1>2, <1>4 DEF JoinRecorder, RecInv, RecorderInv, Awaiting, Writing, record
<1>5. CASE Write
  BY <1>1, <1>2, <1>5 DEF Write, RecInv, RecorderInv, Awaiting, Writing, Signalled
<1>6. ASSUME NEW end \in BOOLEAN, Audio(end) PROVE RecInv'
  BY <1>1, <1>2, <1>6 DEF Audio, RecInv, RecorderInv, Awaiting, Writing, Signalled
<1>7. CASE Detach \/ Idle \/ Wake \/ RunMessage \/ RunStop \/ BatchDone \/ End \/ Drop
  <2>1. perf \notin {"join recorder", "write", "write last"}
    BY <1>7 DEF Detach, Idle, Wake, RunMessage, RunStop, BatchDone, End, Drop, Running
  <2>2. perf' \notin {"write", "write last"} /\ UNCHANGED record
    BY <1>7, <2>1 DEF Detach, Idle, Wake, RunMessage, RunStop, BatchDone, End, Drop
  <2>. QED
    BY <1>1, <1>2, <2>1, <2>2 DEF RecInv, RecorderInv, Awaiting, Writing, record
<1>. QED
  BY <1>3, <1>4, <1>5, <1>6, <1>7 DEF PerfStep

\* The recording thread is none or another while it runs, and none at the end.
LEMMA RecorderRecords ==
    ASSUME RecInv, RecorderStep \/ RecorderWakes(FALSE) PROVE RecInv'
<1>1. UNCHANGED <<perf, recording, call>> /\ recorder # "none"
  BY DEF RecorderStep, RecorderStarts, RecorderReads, RecorderLoops, RecorderCloses, RecorderWakes
<1>. QED
  BY <1>1 DEF RecInv, CallsInv, RecorderInv, Awaiting, Joining, Writing

\* The hosts: Record waits for recordLock, Join stops the recording itself.
LEMMA HostRecords ==
    ASSUME RecInv, NEW g \in Host,
           \/ HostStep(g) \/ Flush(g) \/ Join(g) \/ (\E ok \in BOOLEAN : Record(g, ok))
           \/ (\E method \in Calls : HostCalls(g, method))
    PROVE  RecInv'
<1>1. DOMAIN call[g] = {"pc", "todo", "made"} /\ DOMAIN call = Host
  BY DEF RecInv, CallsInv
<1>2. CASE QueueLook(g)
  <2>1. PICK c : c = (IF status THEN Rest(call[g]) ELSE [call[g] EXCEPT !.pc = "push"])
    OBVIOUS
  <2>2. DOMAIN c = {"pc", "todo", "made"}
    BY <1>1, <2>1, Fields
  <2>3. call' = [call EXCEPT ![g] = c]
    BY <1>1, <1>2, <2>1 DEF QueueLook
  <2>. QED
    BY <1>2, <2>2, <2>3, OutsideJoin DEF QueueLook
<1>3. CASE QueuePush(g)
  <2>1. PICK c : c = Rest(call[g]) /\ DOMAIN c = {"pc", "todo", "made"}
    BY <1>1, Fields
  <2>2. call' = [call EXCEPT ![g] = c]
    BY <1>1, <1>3, <2>1 DEF QueuePush
  <2>. QED
    BY <1>3, <2>1, <2>2, OutsideJoin DEF QueuePush
<1>4. CASE FlushWait(g) \/ FlushNotify(g)
  <2>1. PICK q : HostGoes(g, q)
    BY <1>4 DEF FlushWait, FlushNotify
  <2>2. PICK c : c = [call[g] EXCEPT !.pc = q] /\ DOMAIN c = {"pc", "todo", "made"}
    BY <1>1, Fields
  <2>3. call' = [call EXCEPT ![g] = c]
    BY <2>1, <2>2 DEF HostGoes
  <2>. QED
    BY <1>4, <2>2, <2>3, OutsideJoin DEF FlushWait, FlushNotify
<1>5. CASE JoinedRecorder(g) \/ JoinedPerf(g)
  <2>1. PICK q \in {"join", "joined"} : HostGoes(g, q)
    BY <1>5 DEF JoinedRecorder, JoinedPerf
  <2>0. PICK r : r = call[g] /\ DOMAIN r = {"pc", "todo", "made"}
    BY <1>1
  <2>a. DOMAIN [r EXCEPT !.pc = q] = {"pc", "todo", "made"} /\ [r EXCEPT !.pc = q].pc = q
    BY <2>0, Fields
  <2>2. PICK c : c = [call[g] EXCEPT !.pc = q] /\ DOMAIN c = {"pc", "todo", "made"} /\ c.pc = q
    BY <2>0, <2>a
  <2>3. call' = [call EXCEPT ![g] = c]
    BY <2>1, <2>2 DEF HostGoes
  <2>4. CallsInv' /\ call'[g] = c /\ \A h \in Host \ {g} : call'[h] = call[h]
    BY <2>2, <2>3, OneCall DEF RecInv
  <2>5. Joining'
    BY <2>1, <2>2, <2>4 DEF Joining
  <2>6. UNCHANGED <<perf, record>>
    BY <1>5 DEF JoinedRecorder, JoinedPerf
  <2>7. recorder # "none" => call[g].pc # "join recorder"
    BY <1>5 DEF JoinedRecorder, JoinedPerf
  <2>8. recorder # "none" /\ Awaiting => Awaiting'
    BY <2>4, <2>6, <2>7 DEF Awaiting
  <2>. QED
    BY <2>4, <2>5, <2>6, <2>8 DEF RecInv, RecorderInv, record
<1>6. CASE Flush(g)
  <2>1. PICK c : c = [call[g] EXCEPT !.pc = "flush", !.made = @ + 1]
                 /\ DOMAIN c = {"pc", "todo", "made"}
    BY <1>1, Fields
  <2>2. call' = [call EXCEPT ![g] = c]
    BY <1>1, <1>6, <2>1 DEF Flush
  <2>. QED
    BY <1>6, <2>1, <2>2, OutsideJoin DEF Flush, MayCall
<1>7. CASE Join(g)
  <2>1. PICK q \in {"join recorder", "join"} :
            HostGoes(g, q) /\ (recording => q = "join recorder")
    BY <1>7 DEF Join
  <2>0. PICK r : r = call[g] /\ DOMAIN r = {"pc", "todo", "made"}
    BY <1>1
  <2>a. DOMAIN [r EXCEPT !.pc = q] = {"pc", "todo", "made"} /\ [r EXCEPT !.pc = q].pc = q
    BY <2>0, Fields
  <2>2. PICK c : c = [call[g] EXCEPT !.pc = q] /\ DOMAIN c = {"pc", "todo", "made"} /\ c.pc = q
    BY <2>0, <2>a
  <2>3. call' = [call EXCEPT ![g] = c]
    BY <2>1, <2>2 DEF HostGoes
  <2>4. CallsInv' /\ call'[g] = c /\ \A h \in Host \ {g} : call'[h] = call[h]
    BY <2>2, <2>3, OneCall DEF RecInv
  <2>5. Joining'
    BY <2>1, <2>2, <2>4 DEF Joining
  <2>6. recording => Awaiting'
    BY <2>1, <2>2, <2>4 DEF Awaiting
  <2>7. perf' = perf /\ (~recording => UNCHANGED record) /\ call[g].pc = "idle"
    BY <1>7 DEF Join
  <2>8. Awaiting => Awaiting'
    BY <2>4, <2>7 DEF Awaiting
  <2>. QED
    BY <2>4, <2>5, <2>6, <2>7, <2>8 DEF RecInv, RecorderInv, record
<1>8. ASSUME NEW t, call' = [call EXCEPT ![g] = [pc |-> "queue", todo |-> t, made |-> @.made + 1]],
             call[g].pc = "idle"
      PROVE  /\ CallsInv' /\ (Awaiting /\ perf' = perf => Awaiting') /\ (Joining => Joining')
             /\ UNCHANGED <<perf, record>> => RecInv'
  <2>0. PICK n : n = call[g].made + 1
    OBVIOUS
  <2>a. DOMAIN [pc |-> "queue", todo |-> t, made |-> n] = {"pc", "todo", "made"}
    OBVIOUS
  <2>1. PICK c : c = [pc |-> "queue", todo |-> t, made |-> call[g].made + 1]
                 /\ DOMAIN c = {"pc", "todo", "made"}
    BY <2>0, <2>a
  <2>2. call' = [call EXCEPT ![g] = c]
    BY <1>1, <1>8, <2>1
  <2>3. CallsInv' /\ \A h \in Host \ {g} : call'[h] = call[h]
    BY <2>1, <2>2, OneCall DEF RecInv
  <2>4. (Awaiting /\ perf' = perf => Awaiting') /\ (Joining => Joining')
    BY <1>8, <2>3 DEF Awaiting, Joining
  <2>. QED
    BY <2>3, <2>4 DEF RecInv, RecorderInv, Writing, record
<1>9. ASSUME NEW ok \in BOOLEAN, Record(g, ok) PROVE RecInv'
  <2>1. /\ CallsInv' /\ (Awaiting /\ perf' = perf => Awaiting') /\ (Joining => Joining')
        /\ UNCHANGED <<perf, record>> => RecInv'
    BY <1>8, <1>9 DEF Record, MayCall
  <2>2. UNCHANGED record \/ recording' = TRUE
    BY <1>9 DEF Record, StartRecorder
  <2>3. perf' = perf
    BY <1>9 DEF Record
  <2>. QED
    BY <2>1, <2>2, <2>3 DEF RecInv, RecorderInv
<1>10. ASSUME NEW method \in Calls, HostCalls(g, method) PROVE RecInv'
  BY <1>8, <1>10 DEF HostCalls, MayCall
<1>. QED
  BY <1>2, <1>3, <1>4, <1>5, <1>6, <1>7, <1>9, <1>10 DEF HostStep

Apart == ~recording /\ recording' => recorder = "none" /\ perf \notin {"write", "write last"}

\* Only Record starts a recording, and not before the one before is over.
LEMMA StartsApart == ASSUME RecInv, [Next]_vars PROVE Apart
<1>. SUFFICES ASSUME ~recording, recording' PROVE recorder = "none" /\ ~Writing
  BY DEF Apart, Writing
<1>1. ~PerfStep
  BY DEF PerfStep, Detach, Idle, Wake, RunMessage, RunStopRecord, JoinRecorder, RunStop,
         BatchDone, Audio, Write, End, Drop, stopRecordThread, record
<1>2. ~RecorderStep /\ ~RecorderWakes(FALSE)
  BY DEF RecorderStep, RecorderStarts, RecorderReads, RecorderLoops, RecorderCloses, RecorderWakes
<1>3. ~UNCHANGED vars /\ \A kind : ~OwnMessage(kind)
  BY DEF vars, record, OwnMessage
<1>4. \A h \in Host : /\ ~HostStep(h) /\ ~Flush(h) /\ ~Join(h)
                     /\ \A method \in Calls : ~HostCalls(h, method)
  BY DEF HostStep, QueueLook, QueuePush, FlushWait, FlushNotify, JoinedRecorder, JoinedPerf,
         Flush, Join, HostCalls, record
<1>5. PICK h \in Host, ok \in BOOLEAN : Record(h, ok)
  BY <1>1, <1>2, <1>3, <1>4 DEF Next
<1>6. perf # "join recorder" /\ ~Joining
  BY <1>5 DEF Record, MayCall, Joining
<1>. QED
  BY <1>6 DEF RecInv, RecorderInv, Awaiting, Joining

\* However many hosts start and stop recordings, a new one begins only when the
\* thread of the one before has gone and no block of it is being written.
THEOREM RecordingsStayApart == Spec => RecordingsApart
<1>1. Init => RecInv
  BY DEF Init, RecInv, CallsInv, RecorderInv, Writing
<1>2. RecInv /\ [Next]_vars => RecInv'
  <2>1. ASSUME RecInv, NEW kind, OwnMessage(kind) PROVE RecInv'
    BY <2>1 DEF OwnMessage, Enqueue, RecInv, CallsInv, RecorderInv, Awaiting, Joining, Writing, record
  <2>2. ASSUME RecInv, UNCHANGED vars PROVE RecInv'
    BY <2>2 DEF vars, RecInv, CallsInv, RecorderInv, Awaiting, Joining, Writing, record
  <2>. QED
    BY <2>1, <2>2, PerfRecords, RecorderRecords, HostRecords DEF Next
<1>3. RecInv /\ [Next]_vars => Apart
  BY StartsApart
<1>4. Spec => [][Apart]_vars
  BY <1>1, <1>2, <1>3, PTL DEF Spec
<1>. QED
  BY <1>4 DEF RecordingsApart, Apart
=============================================================================
