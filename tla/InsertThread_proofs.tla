------------------------- MODULE InsertThread_proofs -------------------------
(***************************************************************************)
(* Proofs about InsertThread: what the shutdown of the event thread leaves *)
(* behind (IInv), and why no MIDI note is left sounding (NInv).            *)
(***************************************************************************)
EXTENDS InsertThread, SequenceTheorems, FiniteSetTheorems, WellFoundedInduction,
        NaturalsInduction, TLAPS

\* The records have their fields, and the control states are the ones there are.
Fields ==
    /\ DOMAIN perf = {"pc", "msg"}
    /\ worker.pc \in {"poll", "insert", "complete", "pending", "print", "gone"}
    /\ DOMAIN worker = {"pc", "data", "processed", "stopping"} /\ worker.stopping \in BOOLEAN
    /\ mess \in [items : Nat, accepting : BOOLEAN, freed : BOOLEAN, lock : Host \cup {"free"}, count : Nat]
    /\ log \in [Host -> {"idle", "has", "copy"}]
    /\ lock \in Producer \cup {"free"} /\ DOMAIN post = Producer
    /\ {allocated, stopping, loop} \subseteq BOOLEAN /\ active \in Nat

\* A request is pending only with the owner of alloc_queue_spinlock.
LockInv ==
    /\ \A p \in Producer : post[p] # Refused => lock = p
    /\ lock = "perf" <=> perf.pc \in {"posting score", "posting midi"}
    /\ allocated <=> perf.pc # "stopped"

\* The order of the shutdown: alloc_queue_stopping, event_insert_loop, the
\* event thread, its queues.
StopInv ==
    /\ ~loop \/ perf.pc \in {"stopping", "quitting"} => stopping
    /\ worker.stopping => ~loop /\ worker.pc \in {"pending", "print", "gone"}
    /\ worker.pc = "gone" => worker.stopping
    /\ perf.pc \in {"free", "stopped"} => worker.pc = "gone"

\* The event thread has looked at the queue after event_insert_loop was cleared,
\* and found nothing: it leaves when the messages are out.
Closed == worker.stopping /\ worker.pc \in {"print", "gone"}

DrainInv ==
    /\ active = IF worker.pc \in {"insert", "complete"} THEN 1 ELSE 0
    /\ Closed => queue = <<>> /\ \A p \in Producer : post[p] = Refused

\* A message that is being copied has its slot already; what is printed in the
\* last round and what is left are together no more than the round can print.
Copiers == IF \E h \in Host : log[h] = "copy" THEN 1 ELSE 0
LogInv ==
    /\ \A h \in Host : log[h] # "idle" => mess.lock = h
    /\ mess.freed => mess.lock = "free"
    /\ worker.pc # "print" => mess.count = 0
    /\ mess.items + Copiers <= MAX_MESSAGE_QUEUE
    /\ Closed => ~mess.accepting /\ mess.items + mess.count + Copiers <= MAX_MESSAGE_QUEUE
    /\ worker.pc = "gone" => mess.items + Copiers = 0

IInv == Fields /\ LockInv /\ StopInv /\ DrainInv /\ LogInv

-----------------------------------------------------------------------------
\* The invariant holds before the first step.
LEMMA InitIInv == Init => IInv
<1>. SUFFICES ASSUME Init PROVE IInv
  OBVIOUS
<1>1. Fields /\ LockInv /\ StopInv
  BY NamesAssumption DEF Init, Fields, LockInv, StopInv, Producer
<1>2. DrainInv /\ LogInv
  BY SizesAssumption DEF Init, DrainInv, LogInv, Closed, Copiers
<1>. QED
  BY <1>1, <1>2 DEF IInv

\* The performance thread goes on with the score, MIDI input and the notes.
LEMMA PerfMovesOn ==
    ASSUME IInv, UNCHANGED <<allocQueue, worker, mess, log>>, DOMAIN perf' = {"pc", "msg"},
           perf'.pc \notin {"posting score", "posting midi", "stopping", "quitting", "free", "stopped"},
           perf.pc \notin {"posting score", "posting midi", "stopped"}
    PROVE  IInv'
  BY DEF IInv, Fields, LockInv, StopInv, DrainInv, LogInv, Closed, Copiers, allocQueue

\* A producer has asked.
LEMMA AdmitKeeps ==
    ASSUME IInv, NEW p \in Producer, NEW request, Admit(p, request), UNCHANGED <<worker, mess, log>>,
           DOMAIN perf' = {"pc", "msg"},
           IF p = "perf" THEN perf.pc # "stopped" /\ perf'.pc \in {"posting score", "posting midi"} ELSE perf' = perf
    PROVE  IInv'
<1>1. lock = "free" /\ \A q \in Producer : post[q] = Refused
  BY NamesAssumption DEF IInv, LockInv, Admit, Producer
<1>2. Fields'
  BY DEF IInv, Fields, Admit
<1>3. LockInv'
  BY <1>1, NamesAssumption DEF IInv, Fields, LockInv, Admit, Producer
<1>4. StopInv' /\ DrainInv'
  BY <1>1, NamesAssumption DEF IInv, Fields, LockInv, StopInv, DrainInv, Closed, Admit
<1>5. LogInv'
  BY DEF IInv, LogInv, Closed, Copiers
<1>. QED
  BY <1>2, <1>3, <1>4, <1>5 DEF IInv

\* ... and puts its request in.
LEMMA FillKeeps ==
    ASSUME IInv, NEW p \in Producer, Fill(p), lock = p, UNCHANGED <<worker, mess, log>>,
           DOMAIN perf' = {"pc", "msg"},
           IF p = "perf" THEN perf'.pc \in {"score", "midi", "play"} ELSE perf' = perf
    PROVE  IInv'
<1>1. \A q \in Producer : post'[q] = Refused
  BY DEF IInv, Fields, LockInv, Fill
<1>2. Fields'
  BY DEF IInv, Fields, Fill
<1>3. LockInv'
  BY <1>1, NamesAssumption DEF IInv, Fields, LockInv, Fill, Producer
<1>4. StopInv' /\ DrainInv'
  BY <1>1, NamesAssumption DEF IInv, Fields, LockInv, StopInv, DrainInv, Closed, Fill
<1>5. LogInv'
  BY DEF IInv, LogInv, Closed, Copiers
<1>. QED
  BY <1>2, <1>3, <1>4, <1>5 DEF IInv

\* The performance thread.
LEMMA PerfKeeps == ASSUME IInv, PerfStep PROVE IInv'
<1>0. DOMAIN perf = {"pc", "msg"} /\ "perf" \in Producer
  BY DEF IInv, Fields, Producer
<1>1. CASE ScoreWaits \/ ScoreEnds \/ ScoreLater \/ Play \/ MidiEnds \/ Hold
  <2>1. /\ UNCHANGED <<allocQueue, worker, mess, log>> /\ perf.pc \in {"score", "play", "midi", "sensed"}
        /\ \E pc \in {"midi", "ended", "quit", "score", "play"} : PerfGoes(pc)
    BY <1>1 DEF ScoreWaits, ScoreEnds, ScoreLater, Play, MidiEnds, Hold, PerfAt, engine
  <2>2. DOMAIN perf' = {"pc", "msg"} /\ perf'.pc \in {"midi", "ended", "quit", "score", "play"}
    BY <1>0, <2>1 DEF PerfGoes
  <2>. QED
    BY <2>1, <2>2, PerfMovesOn
<1>2. CASE NoteOff \/ PedalDown \/ PedalUp \/ (\E msg \in Messages : Sense(msg))
  <2>1. /\ UNCHANGED <<allocQueue, worker, mess, log>> /\ perf.pc \in {"midi", "sensed"}
        /\ DOMAIN perf' = {"pc", "msg"} /\ perf'.pc \in {"midi", "sensed"}
    <3>1. Acted => DOMAIN perf' = {"pc", "msg"} /\ perf'.pc = "midi"
      BY DEF Acted
    <3>2. CASE NoteOff \/ PedalDown \/ PedalUp
      BY <3>1, <3>2 DEF NoteOff, PedalDown, PedalUp, PerfAt, MayAct
    <3>3. ASSUME NEW msg, Sense(msg)
          PROVE  /\ UNCHANGED <<allocQueue, worker, mess, log>> /\ perf.pc = "midi"
                 /\ DOMAIN perf' = {"pc", "msg"} /\ perf'.pc = "sensed"
      BY <3>3 DEF Sense, PerfAt
    <3>. QED
      BY <1>2, <3>2, <3>3
  <2>. QED
    BY <2>1, PerfMovesOn
<1>3. CASE (\E n \in 1..MaxScore : Expire(n)) \/ (\E n \in Note : OpTurnoff(n))
  <2>1. UNCHANGED <<allocQueue, worker, mess, log, perf>> /\ perf.pc = "play"
    BY <1>3 DEF Expire, OpTurnoff, PerfAt
  <2>. QED
    BY <1>0, <2>1, PerfMovesOn
<1>4. CASE PostScore
  <2>1. PICK request : Admit("perf", request)
    BY <1>4 DEF PostScore
  <2>2. /\ UNCHANGED <<worker, mess, log>> /\ perf.pc = "score"
        /\ DOMAIN perf' = {"pc", "msg"} /\ perf'.pc = "posting score"
    BY <1>0, <1>4 DEF PostScore, PerfAt, PerfGoes
  <2>. QED
    BY <1>0, <2>1, <2>2, AdmitKeeps
<1>5. CASE NoteOn
  <2>1. PICK request : Admit("perf", request)
    BY <1>5 DEF NoteOn
  <2>2. /\ UNCHANGED <<worker, mess, log>> /\ perf.pc = "sensed"
        /\ DOMAIN perf' = {"pc", "msg"} /\ perf'.pc = "posting midi"
    BY <1>0, <1>5 DEF NoteOn, PerfAt, PerfGoes, MayAct
  <2>. QED
    BY <1>0, <2>1, <2>2, AdmitKeeps
<1>6. CASE PostedScore
  <2>1. /\ UNCHANGED <<worker, mess, log>> /\ lock = "perf" /\ Fill("perf")
        /\ DOMAIN perf' = {"pc", "msg"} /\ perf'.pc = "score"
    BY <1>0, <1>6 DEF PostedScore, PerfAt, PerfGoes, IInv, LockInv
  <2>. QED
    BY <1>0, <2>1, FillKeeps
<1>7. CASE NotePosted
  <2>1. /\ UNCHANGED <<worker, mess, log>> /\ lock = "perf" /\ Fill("perf")
        /\ DOMAIN perf' = {"pc", "msg"} /\ perf'.pc \in {"play", "midi"}
    <3>1. Acted => DOMAIN perf' = {"pc", "msg"} /\ perf'.pc = "midi"
      BY DEF Acted
    <3>2. PerfGoes("play") => DOMAIN perf' = {"pc", "msg"} /\ perf'.pc = "play"
      BY <1>0 DEF PerfGoes
    <3>3. /\ UNCHANGED <<worker, mess, log>> /\ lock = "perf" /\ Fill("perf")
          /\ Acted \/ PerfGoes("play")
      BY <1>7 DEF NotePosted, PerfAt, IInv, LockInv
    <3>. QED
      BY <3>1, <3>2, <3>3
  <2>. QED
    BY <1>0, <2>1, FillKeeps
<1>8. CASE Quit \/ Stop
  <2>1. /\ UNCHANGED <<queue, allocated, active, loop, lock, post, worker, mess, log>>
        /\ perf.pc \in {"score", "ended", "quit"} /\ stopping' = TRUE
        /\ DOMAIN perf' = {"pc", "msg"} /\ perf'.pc \in {"quitting", "stopping"}
    BY <1>0, <1>8 DEF Quit, Stop, PerfAt, PerfGoes
  <2>. QED
    BY <2>1 DEF IInv, Fields, LockInv, StopInv, DrainInv, LogInv, Closed, Copiers
<1>9. CASE StopLoop
  <2>1. /\ UNCHANGED <<queue, allocated, active, stopping, lock, post, worker, mess, log>>
        /\ perf.pc \in {"stopping", "quitting"} /\ loop' = FALSE
        /\ DOMAIN perf' = {"pc", "msg"} /\ perf'.pc \in {"ended", "join"}
    BY <1>0, <1>9 DEF StopLoop, PerfAt, PerfGoes
  <2>. QED
    BY <2>1 DEF IInv, Fields, LockInv, StopInv, DrainInv, LogInv, Closed, Copiers
<1>10. CASE Join
  <2>1. /\ UNCHANGED <<allocQueue, worker, log>>
        /\ perf.pc = "join" /\ worker.pc = "gone" /\ mess.lock = "free"
        /\ DOMAIN perf' = {"pc", "msg"} /\ perf'.pc = "free"
        /\ mess' \in [items : Nat, accepting : BOOLEAN, freed : BOOLEAN, lock : Host \cup {"free"}, count : Nat]
        /\ mess'.items = mess.items /\ mess'.lock = mess.lock /\ mess'.count = mess.count
        /\ mess'.accepting = FALSE
    BY <1>0, <1>10 DEF Join, PerfAt, PerfGoes, IInv, Fields
  <2>2. Fields' /\ LockInv' /\ StopInv' /\ DrainInv'
    BY <2>1 DEF IInv, Fields, LockInv, StopInv, DrainInv, Closed, allocQueue
  <2>3. LogInv'
    BY <2>1 DEF IInv, LogInv, Closed, Copiers, Fields
  <2>. QED
    BY <2>2, <2>3 DEF IInv
<1>11. CASE FreeQueue
  <2>1. /\ UNCHANGED <<stopping, loop, lock, post, worker, mess, log>>
        /\ perf.pc = "free" /\ ~allocated' /\ queue' = <<>> /\ active' = 0 /\ allocated' \in BOOLEAN
        /\ DOMAIN perf' = {"pc", "msg"} /\ perf'.pc = "stopped"
    BY <1>11 DEF FreeQueue, PerfAt
  <2>. QED
    BY <2>1 DEF IInv, Fields, LockInv, StopInv, DrainInv, LogInv, Closed, Copiers
<1>. QED
  BY <1>1, <1>2, <1>3, <1>4, <1>5, <1>6, <1>7, <1>8, <1>9, <1>10, <1>11 DEF PerfStep

\* The event thread works on requests and leaves the messages alone.
LEMMA WorkKeeps ==
    ASSUME IInv, UNCHANGED <<allocated, stopping, loop, lock, post, perf, mess, log>>,
           worker.pc # "print", worker'.pc \in {"poll", "insert", "complete", "pending"},
           DOMAIN worker' = {"pc", "data", "processed", "stopping"}, worker'.stopping \in BOOLEAN,
           worker.pc # "gone", worker'.stopping => ~loop /\ worker'.pc = "pending",
           active' = IF worker'.pc \in {"insert", "complete"} THEN 1 ELSE 0
    PROVE  IInv'
  BY DEF IInv, Fields, LockInv, StopInv, DrainInv, LogInv, Closed, Copiers

Mess == [items : Nat, accepting : BOOLEAN, freed : BOOLEAN, lock : Host \cup {"free"}, count : Nat]

\* A message goes into the queue or leaves it.
LEMMA MessUpdates ==
    ASSUME NEW m \in Mess, NEW h \in Host \cup {"free"}
    PROVE  /\ [m EXCEPT !.lock = h] \in Mess
           /\ LET r == [m EXCEPT !.lock = "free", !.items = @ + 1] IN
              /\ r \in Mess /\ r.lock = "free" /\ r.items = m.items + 1
              /\ r.count = m.count /\ r.freed = m.freed /\ r.accepting = m.accepting
           /\ LET r == [m EXCEPT !.items = @ + 1] IN
              /\ r \in Mess /\ r.lock = m.lock /\ r.items = m.items + 1
              /\ r.count = m.count /\ r.freed = m.freed /\ r.accepting = m.accepting
           /\ m.items > 0 => LET r == [m EXCEPT !.items = @ - 1, !.count = @ + 1] IN
              /\ r \in Mess /\ r.lock = m.lock /\ r.items = m.items - 1
              /\ r.count = m.count + 1 /\ r.freed = m.freed /\ r.accepting = m.accepting
<1>1. /\ DOMAIN m = {"items", "accepting", "freed", "lock", "count"} /\ m.items \in Nat /\ m.count \in Nat
      /\ m.accepting \in BOOLEAN /\ m.freed \in BOOLEAN /\ m.lock \in Host \cup {"free"}
      /\ m = [items |-> m.items, accepting |-> m.accepting, freed |-> m.freed, lock |-> m.lock, count |-> m.count]
  BY DEF Mess
<1>2. PICK a \in Nat : a = m.items + 1
  BY <1>1
<1>3. PICK c \in Nat : c = m.count + 1
  BY <1>1
<1>4. PICK d \in Int : d = m.items - 1 /\ (m.items > 0 => d \in Nat)
  BY <1>1
<1>5. /\ [m EXCEPT !.lock = h] = [items |-> m.items, accepting |-> m.accepting, freed |-> m.freed, lock |-> h, count |-> m.count]
      /\ [m EXCEPT !.items = a] = [items |-> a, accepting |-> m.accepting, freed |-> m.freed, lock |-> m.lock, count |-> m.count]
  BY <1>1 DEF Mess
<1>6. [m EXCEPT !.lock = "free", !.items = a]
        = [items |-> a, accepting |-> m.accepting, freed |-> m.freed, lock |-> "free", count |-> m.count]
  <2>1. PICK k : k = [m EXCEPT !.lock = "free"]
    OBVIOUS
  <2>2. k = [items |-> m.items, accepting |-> m.accepting, freed |-> m.freed, lock |-> "free", count |-> m.count]
    BY <1>1, <2>1
  <2>3. [m EXCEPT !.lock = "free", !.items = a] = [k EXCEPT !.items = a]
    BY <2>1
  <2>. QED
    BY <2>2, <2>3
<1>7. [m EXCEPT !.items = d, !.count = c]
        = [items |-> d, accepting |-> m.accepting, freed |-> m.freed, lock |-> m.lock, count |-> c]
  <2>1. PICK k : k = [m EXCEPT !.items = d]
    OBVIOUS
  <2>2. k = [items |-> d, accepting |-> m.accepting, freed |-> m.freed, lock |-> m.lock, count |-> m.count]
    BY <1>1, <2>1
  <2>3. [m EXCEPT !.items = d, !.count = c] = [k EXCEPT !.count = c]
    BY <2>1
  <2>. QED
    BY <2>2, <2>3
<1>8. /\ [m EXCEPT !.lock = "free", !.items = @ + 1] = [m EXCEPT !.lock = "free", !.items = a]
      /\ [m EXCEPT !.items = @ + 1] = [m EXCEPT !.items = a]
      /\ [m EXCEPT !.items = @ - 1, !.count = @ + 1] = [m EXCEPT !.items = d, !.count = c]
  BY <1>1, <1>2, <1>3, <1>4
<1>. QED
  BY <1>1, <1>2, <1>3, <1>4, <1>5, <1>6, <1>7, <1>8 DEF Mess

\* The event thread.
LEMMA WorkerKeeps == ASSUME IInv, WorkerStep \/ PrintLogs PROVE IInv'
<1>0. /\ DOMAIN worker = {"pc", "data", "processed", "stopping"} /\ worker.stopping \in BOOLEAN
      /\ mess \in Mess /\ active = IF worker.pc \in {"insert", "complete"} THEN 1 ELSE 0
      /\ worker.stopping => worker.pc \in {"pending", "print", "gone"}
      /\ loop \in BOOLEAN
  BY DEF IInv, Fields, DrainInv, StopInv, Mess
<1>1. CASE Dequeue
  <2>1. /\ UNCHANGED <<allocated, stopping, loop, lock, post, perf, mess, log>>
        /\ worker.pc = "poll" /\ worker'.pc = "insert" /\ worker'.stopping = worker.stopping
        /\ DOMAIN worker' = {"pc", "data", "processed", "stopping"} /\ active' = active + 1
    BY <1>0, <1>1 DEF Dequeue
  <2>. QED
    BY <1>0, <2>1, WorkKeeps
<1>2. ASSUME NEW success \in BOOLEAN, Insert(success) PROVE IInv'
  <2>1. /\ UNCHANGED <<allocQueue, perf, mess, log>>
        /\ worker.pc = "insert" /\ worker'.pc = "complete" /\ worker'.stopping = worker.stopping
        /\ DOMAIN worker' = {"pc", "data", "processed", "stopping"}
    BY <1>0, <1>2 DEF Insert, WorkerGoes
  <2>. QED
    BY <1>0, <2>1, WorkKeeps DEF allocQueue
<1>3. CASE Complete
  <2>1. /\ UNCHANGED <<allocated, stopping, loop, lock, post, perf, mess, log>>
        /\ worker.pc = "complete" /\ worker'.pc = "poll" /\ worker'.stopping = worker.stopping
        /\ DOMAIN worker' = {"pc", "data", "processed", "stopping"} /\ active' = active - 1
    BY <1>0, <1>3 DEF Complete
  <2>. QED
    BY <1>0, <2>1, WorkKeeps
<1>4. CASE ReadLoop
  <2>1. /\ UNCHANGED <<allocQueue, perf, mess, log>>
        /\ worker.pc = "poll" /\ worker'.pc = "pending" /\ worker'.stopping = ~loop
        /\ DOMAIN worker' = {"pc", "data", "processed", "stopping"}
    BY <1>0, <1>4 DEF ReadLoop
  <2>. QED
    BY <1>0, <2>1, WorkKeeps DEF allocQueue
<1>5. CASE CheckPending
  <2>. DEFINE stop == worker.stopping /\ ~has_pending
  <2>1. /\ UNCHANGED <<allocQueue, perf, log>> /\ lock = "free"
        /\ worker.pc = "pending" /\ worker'.pc = "print" /\ worker'.stopping = stop
        /\ DOMAIN worker' = {"pc", "data", "processed", "stopping"}
        /\ mess' = [mess EXCEPT !.accepting = @ /\ ~stop]
    BY <1>0, <1>5 DEF CheckPending
  <2>2. stop \in BOOLEAN /\ (stop => worker.stopping /\ queue = <<>>)
    BY <1>0 DEF has_pending
  <2>. HIDE DEF stop
  <2>3. /\ mess' \in Mess /\ mess'.items = mess.items /\ mess'.lock = mess.lock
        /\ mess'.count = mess.count /\ mess'.freed = mess.freed /\ mess'.accepting = (mess.accepting /\ ~stop)
    BY <1>0, <2>1, <2>2 DEF Mess
  <2>4. \A p \in Producer : post[p] = Refused
    BY <2>1, NamesAssumption DEF IInv, LockInv, Producer
  <2>5. Fields'
    BY <2>1, <2>2, <2>3 DEF IInv, Fields, Mess, allocQueue
  <2>6. LockInv' /\ StopInv' /\ DrainInv'
    BY <2>1, <2>2, <2>4 DEF IInv, Fields, LockInv, StopInv, DrainInv, Closed, allocQueue
  <2>7. LogInv'
    BY <1>0, <2>1, <2>2, <2>3 DEF IInv, LogInv, Closed, Copiers, Mess
  <2>. QED
    BY <2>5, <2>6, <2>7 DEF IInv
<1>6. ASSUME UNCHANGED <<allocQueue, perf, worker, log>>, worker.pc = "print", mess' \in Mess,
             mess'.lock = mess.lock, mess'.accepting = mess.accepting, mess'.freed = mess.freed,
             mess.lock = "free",
             \/ mess'.items = mess.items - 1 /\ mess'.count = mess.count + 1 /\ mess.items > 0
             \/ mess'.items = mess.items + 1 /\ mess'.count = mess.count /\ mess.items < MAX_MESSAGE_QUEUE /\ mess.accepting
      PROVE  IInv'
  <2>1. Fields'
    BY <1>6 DEF IInv, Fields, Mess, allocQueue
  <2>2. LockInv' /\ StopInv' /\ DrainInv'
    BY <1>6 DEF IInv, Fields, LockInv, StopInv, DrainInv, Closed, allocQueue
  <2>3. Copiers = 0 /\ Copiers' = 0
    BY <1>6, NamesAssumption DEF IInv, LogInv, Copiers
  <2>4. LogInv'
    BY <1>0, <1>6, <2>3, SizesAssumption DEF IInv, LogInv, Closed, Mess
  <2>. QED
    BY <2>1, <2>2, <2>4 DEF IInv
<1>7. CASE PrintMessage \/ PrintLogs
  <2>1. CASE PrintMessage
    BY <1>0, <1>6, <2>1, MessUpdates DEF PrintMessage
  <2>2. CASE PrintLogs
    BY <1>0, <1>6, <2>2, MessUpdates DEF PrintLogs
  <2>. QED
    BY <1>7, <2>1, <2>2
<1>8. CASE PrintEnds
  <2>1. /\ UNCHANGED <<allocQueue, perf, log>>
        /\ worker.pc = "print" /\ worker'.pc = (IF worker.stopping THEN "gone" ELSE "poll")
        /\ worker'.stopping = worker.stopping
        /\ DOMAIN worker' = {"pc", "data", "processed", "stopping"}
    BY <1>0, <1>8 DEF PrintEnds, WorkerGoes
  <2>2. /\ mess' \in Mess /\ mess'.items = mess.items /\ mess'.lock = mess.lock
        /\ mess'.count = 0 /\ mess'.freed = mess.freed /\ mess'.accepting = mess.accepting
    BY <1>0, <1>8 DEF PrintEnds, Mess
  <2>3. Fields'
    BY <2>1, <2>2 DEF IInv, Fields, Mess, allocQueue
  <2>4. LockInv' /\ StopInv' /\ DrainInv'
    BY <2>1 DEF IInv, Fields, LockInv, StopInv, DrainInv, Closed, allocQueue
  <2>5. Copiers \in {0, 1} /\ Copiers' = Copiers /\ (mess.lock = "free" => Copiers = 0)
    BY <2>1, NamesAssumption DEF IInv, LogInv, Copiers
  <2>6. mess.count = MAX_MESSAGE_QUEUE \/ (mess.lock = "free" /\ mess.items = 0)
    BY <1>8 DEF PrintEnds
  <2>7. LogInv'
    BY <1>0, <2>1, <2>2, <2>5, <2>6, SizesAssumption DEF IInv, LogInv, Closed, Mess
  <2>. QED
    BY <2>3, <2>4, <2>7 DEF IInv
<1>. QED
  BY <1>1, <1>2, <1>3, <1>4, <1>5, <1>7, <1>8 DEF WorkerStep

\* Those who log messages.
LEMMA LogKeeps ==
    ASSUME IInv, NEW h \in Host, LogLock(h) \/ LogLook(h) \/ LogCopy(h)
    PROVE  IInv'
<1>0. /\ mess \in Mess /\ log \in [Host -> {"idle", "has", "copy"}]
      /\ \A g \in Host : log[g] # "idle" => mess.lock = g
      /\ Copiers \in {0, 1} /\ UNCHANGED <<allocQueue, perf, worker>>
      /\ h # "free"
  BY NamesAssumption DEF IInv, Fields, Mess, LogInv, Copiers, LogLock, LogLook, LogCopy
<1>1. mess' \in Mess /\ log' \in [Host -> {"idle", "has", "copy"}]
  <2>1. /\ [mess EXCEPT !.lock = h] \in Mess /\ [mess EXCEPT !.lock = "free"] \in Mess
        /\ [mess EXCEPT !.lock = "free", !.items = @ + 1] \in Mess
    BY <1>0, MessUpdates
  <2>2. \A q \in {"idle", "has", "copy"} : [log EXCEPT ![h] = q] \in [Host -> {"idle", "has", "copy"}]
    BY <1>0
  <2>3. CASE LogLock(h)
    BY <2>1, <2>2, <2>3 DEF LogLock
  <2>4. CASE LogLook(h)
    BY <1>0, <2>1, <2>2, <2>4 DEF LogLook
  <2>5. CASE LogCopy(h)
    BY <2>1, <2>2, <2>5 DEF LogCopy
  <2>. QED
    BY <2>3, <2>4, <2>5
<1>2. Fields' /\ LockInv' /\ StopInv' /\ DrainInv'
  BY <1>0, <1>1 DEF IInv, Fields, LockInv, StopInv, DrainInv, Closed, allocQueue, Mess
<1>3. CASE LogLock(h)
  <2>1. /\ mess.lock = "free" /\ mess'.lock = h /\ ~mess.freed /\ mess'.freed = mess.freed
        /\ mess'.items = mess.items /\ mess'.count = mess.count /\ mess'.accepting = mess.accepting
        /\ log' = [log EXCEPT ![h] = "has"]
    BY <1>0, <1>3 DEF LogLock, Mess
  <2>2. Copiers = 0 /\ Copiers' = 0
    BY <1>0, <2>1, NamesAssumption DEF Copiers
  <2>. QED
    BY <1>0, <1>2, <2>1, <2>2, NamesAssumption DEF IInv, LogInv, Closed
<1>4. CASE LogLook(h)
  <2>1. /\ mess.lock = h /\ log[h] = "has" /\ mess'.freed = mess.freed
        /\ mess'.items = mess.items /\ mess'.count = mess.count /\ mess'.accepting = mess.accepting
        /\ \/ /\ mess.accepting /\ mess.items < MAX_MESSAGE_QUEUE
              /\ log' = [log EXCEPT ![h] = "copy"] /\ mess'.lock = h
           \/ log' = [log EXCEPT ![h] = "idle"] /\ mess'.lock = "free"
    BY <1>0, <1>4 DEF LogLook, Mess
  <2>4. MAX_MESSAGE_QUEUE \in Nat /\ mess.items \in Nat /\ mess.count \in Nat
    BY <1>0, SizesAssumption DEF Mess
  <2>2. Copiers = 0 /\ (Copiers' = 1 => mess.accepting /\ mess.items < MAX_MESSAGE_QUEUE) /\ Copiers' \in {0, 1}
    BY <1>0, <2>1 DEF Copiers
  <2>3. \A g \in Host : log'[g] # "idle" => mess'.lock = g
    BY <1>0, <2>1
  <2>5. LogInv'
    <3>1. mess'.freed => mess'.lock = "free"
      BY <1>0, <2>1 DEF IInv, LogInv
    <3>2. worker'.pc # "print" => mess'.count = 0
      BY <1>0, <2>1 DEF IInv, LogInv
    <3>3. mess'.items + Copiers' <= MAX_MESSAGE_QUEUE
      BY <2>1, <2>2, <2>4 DEF IInv, LogInv
    <3>4. Closed' => ~mess'.accepting /\ mess'.items + mess'.count + Copiers' <= MAX_MESSAGE_QUEUE
      BY <1>0, <2>1, <2>2, <2>4 DEF IInv, LogInv, Closed
    <3>5. worker.pc = "gone" => Closed /\ ~mess.accepting
      BY DEF IInv, StopInv, LogInv, Closed
    <3>6. worker'.pc = "gone" => mess'.items + Copiers' = 0
      BY <1>0, <2>1, <2>2, <2>4, <3>5 DEF IInv, LogInv
    <3>. QED
      BY <2>3, <3>1, <3>2, <3>3, <3>4, <3>6 DEF LogInv
  <2>. QED
    BY <1>2, <2>5 DEF IInv
<1>5. CASE LogCopy(h)
  <2>1. /\ mess.lock = h /\ log[h] = "copy" /\ mess'.freed = mess.freed /\ mess'.lock = "free"
        /\ mess'.items = mess.items + 1 /\ mess'.count = mess.count /\ mess'.accepting = mess.accepting
        /\ log' = [log EXCEPT ![h] = "idle"]
    BY <1>0, <1>5 DEF LogCopy, Mess
  <2>2. Copiers = 1 /\ Copiers' = 0
    BY <1>0, <2>1 DEF Copiers
  <2>3. \A g \in Host : log'[g] # "idle" => mess'.lock = g
    BY <1>0, <2>1
  <2>. QED
    BY <1>0, <1>2, <2>1, <2>2, <2>3, SizesAssumption DEF IInv, LogInv, Closed, Mess
<1>. QED
  BY <1>3, <1>4, <1>5

\* Every step keeps the invariant.
LEMMA NextIInv == IInv /\ [Next]_vars => IInv'
<1>. SUFFICES ASSUME IInv, [Next]_vars PROVE IInv'
  OBVIOUS
<1>1. ASSUME NEW h \in Host, HostAdmit(h) PROVE IInv'
  <2>1. h \in Producer /\ h # "perf" /\ DOMAIN perf = {"pc", "msg"}
    BY NamesAssumption DEF Producer, IInv, Fields
  <2>2. Admit(h, Merge) /\ UNCHANGED <<perf, worker, mess, log>>
    BY <1>1 DEF HostAdmit
  <2>. QED
    BY <2>1, <2>2, AdmitKeeps
<1>2. ASSUME NEW h \in Host, HostFill(h) PROVE IInv'
  <2>1. h \in Producer /\ h # "perf" /\ DOMAIN perf = {"pc", "msg"}
    BY NamesAssumption DEF Producer, IInv, Fields
  <2>2. lock = h /\ Fill(h) /\ UNCHANGED <<perf, worker, mess, log>>
    BY <1>2 DEF HostFill
  <2>. QED
    BY <2>1, <2>2, FillKeeps
<1>3. CASE UNCHANGED vars
  BY <1>3 DEF vars, allocQueue, IInv, Fields, LockInv, StopInv, DrainInv, LogInv, Closed, Copiers
<1>. QED
  BY <1>1, <1>2, <1>3, PerfKeeps, WorkerKeeps, LogKeeps DEF Next, HostStep

\* The invariant of the queues and the shutdown holds.
THEOREM Invariance == Spec => []IInv
<1>1. Init => IInv
  BY InitIInv
<1>2. IInv /\ [Next]_vars => IInv'
  BY NextIInv
<1>. QED
  BY <1>1, <1>2, PTL DEF Spec

\* DrainedAtExit: once the event thread has gone no accepted request and no
\* message is left.  What Closed says of the queue is kept because
\* alloc_queue_enqueue refuses once alloc_queue_stopping is set.
THEOREM Drained == Spec => []DrainedAtExit
<1>1. IInv => DrainedAtExit
  BY DEF IInv, Fields, StopInv, DrainInv, LogInv, Closed, Copiers, DrainedAtExit
<1>. QED
  BY <1>1, Invariance, PTL

\* NoUseAfterFree: no producer holds an admitted request when the allocation
\* queue is freed, and nobody is inside message_string_enqueue when the message
\* queue is.
THEOREM NothingFreedInUse == Spec => []NoUseAfterFree
<1>1. IInv => NoUseAfterFree
  <2>. SUFFICES ASSUME IInv PROVE NoUseAfterFree
    OBVIOUS
  <2>1. ~allocated => \A p \in Producer : post[p] = Refused
    BY DEF IInv, LockInv, StopInv, DrainInv, Closed
  <2>2. mess.freed => \A h \in Host : log[h] = "idle"
    BY NamesAssumption DEF IInv, LogInv
  <2>. QED
    BY <2>1, <2>2 DEF NoUseAfterFree
<1>. QED
  BY <1>1, Invariance, PTL

-----------------------------------------------------------------------------
(* What leaves a list.                                                     *)

Elements(q) == {q[i] : i \in 1..Len(q)}

\* F is the recursion of Without(s, gone), as far as n.
Walk(s, gone, n, F) ==
    F = [i \in 0..n |-> IF i = 0 THEN <<>>
                        ELSE IF s[i] \in gone THEN F[i - 1] ELSE Append(F[i - 1], s[i])]

\* A set of naturals has a least element: what fails somewhere fails first
\* somewhere.
LEMMA Least ==
    ASSUME NEW T \in SUBSET Nat, T # {}
    PROVE  \E n \in T : \A m \in T : n <= m
<1>. DEFINE R == {ss \in Nat \X Nat : ss[1] < ss[2]}
<1>1. IsWellFoundedOn(R, Nat)
  BY NatLessThanWellFounded, Zenon DEF OpToRel
<1>2. PICK n \in T : \A m \in T : <<m, n>> \notin R
  BY <1>1, WFMin, Zenon
<1>3. \A m \in T : n <= m
  <2>. TAKE m \in T
  <2>1. m \in Nat /\ n \in Nat
    OBVIOUS
  <2>2. m < n => <<m, n>> \in R
    BY <2>1, Zenon
  <2>. QED
    BY <1>2, <2>1, <2>2
<1>. QED
  BY <1>2, <1>3, Zenon

\* The recursion has a value at every length.
LEMMA WalkExists ==
    ASSUME NEW s, NEW gone, NEW n \in Nat
    PROVE  \E F : Walk(s, gone, n, F)
<1>. DEFINE T == {m \in Nat : ~\E F : Walk(s, gone, m, F)}
<1>. SUFFICES ASSUME T # {} PROVE FALSE
  OBVIOUS
<1>1. PICK m \in T : \A l \in T : m <= l
  BY Least
<1>2. m # 0
  <2>1. Walk(s, gone, 0, [i \in 0..0 |-> <<>>])
    BY DEF Walk
  <2>. QED
    BY <2>1
<1>3. m - 1 \in Nat /\ m - 1 \notin T
  BY <1>1, <1>2
<1>4. PICK F : Walk(s, gone, m - 1, F)
  BY <1>3
<1>. DEFINE G == [i \in 0..m |-> IF i < m THEN F[i]
                        ELSE IF s[m] \in gone THEN F[m - 1] ELSE Append(F[m - 1], s[m])]
<1>5. \A i \in 0..(m - 1) : F[i] = IF i = 0 THEN <<>>
                        ELSE IF s[i] \in gone THEN F[i - 1] ELSE Append(F[i - 1], s[i])
  BY <1>3, <1>4 DEF Walk
<1>6. \A i \in 0..m : G[i] = IF i = 0 THEN <<>>
                        ELSE IF s[i] \in gone THEN G[i - 1] ELSE Append(G[i - 1], s[i])
  <2>. TAKE i \in 0..m
  <2>1. CASE i = m
    BY <1>2, <2>1
  <2>2. CASE i < m
    BY <1>5, <2>2
  <2>. QED
    BY <2>1, <2>2
<1>7. Walk(s, gone, m, G)
  <2>1. G = [i \in 0..m |-> G[i]]
    OBVIOUS
  <2>. HIDE DEF G
  <2>. QED
    BY <1>6, <2>1 DEF Walk
<1>. QED
  BY <1>7

\* Without is the last value of its recursion.
LEMMA WithoutIsWalk ==
    ASSUME NEW s, Len(s) \in Nat, NEW gone
    PROVE  \E F : Walk(s, gone, Len(s), F) /\ Without(s, gone) = F[Len(s)]
<1>1. \E F : Walk(s, gone, Len(s), F)
  BY WalkExists
<1>2. Without(s, gone) = (CHOOSE F : Walk(s, gone, Len(s), F))[Len(s)]
  BY DEF Without, Walk
<1>. QED
  BY <1>1, <1>2

\* Without(s, gone) holds the elements of s that are not in gone.
LEMMA WithoutElements ==
    ASSUME NEW S, NEW s \in Seq(S), NEW gone
    PROVE  /\ Without(s, gone) \in Seq(S)
           /\ Elements(Without(s, gone)) = Elements(s) \ gone
<1>1. Len(s) \in Nat /\ \A i \in 1..Len(s) : s[i] \in S
  BY LenProperties, ElementOfSeq
<1>2. PICK F : Walk(s, gone, Len(s), F) /\ Without(s, gone) = F[Len(s)]
  BY <1>1, WithoutIsWalk
<1>3. \A i \in 0..Len(s) : F[i] = IF i = 0 THEN <<>>
                        ELSE IF s[i] \in gone THEN F[i - 1] ELSE Append(F[i - 1], s[i])
  BY <1>1, <1>2 DEF Walk
<1>. DEFINE Right(i) == F[i] \in Seq(S) /\ Elements(F[i]) = {s[j] : j \in 1..i} \ gone
            T == {i \in 0..Len(s) : ~Right(i)}
<1>. HIDE DEF Right
<1>4. T = {}
  <2>. SUFFICES ASSUME T # {} PROVE FALSE
    OBVIOUS
  <2>0. T \in SUBSET Nat
    BY <1>1
  <2>1. PICK i \in T : \A j \in T : i <= j
    BY <2>0, Least, Zenon
  <2>2. i # 0
    <3>1. F[0] = <<>>
      BY <1>1, <1>3
    <3>2. Right(0)
      BY <3>1, EmptySeq DEF Elements, Right
    <3>. QED
      BY <3>2
  <2>3. i - 1 \in 0..Len(s) /\ Right(i - 1) /\ i \in 1..Len(s)
    BY <1>1, <2>1, <2>2
  <2>4. {s[j] : j \in 1..i} = {s[j] : j \in 1..(i - 1)} \cup {s[i]}
    <3>1. 1..i = (1..(i - 1)) \cup {i}
      BY <2>3
    <3>. QED
      BY <3>1
  <2>5. CASE s[i] \in gone
    <3>1. F[i] = F[i - 1]
      BY <1>3, <2>2, <2>5
    <3>. QED
      BY <2>3, <2>4, <2>5, <3>1 DEF Right
  <2>6. CASE s[i] \notin gone
    <3>1. F[i] = Append(F[i - 1], s[i])
      BY <1>3, <2>2, <2>6
    <3>2. PICK q : q = F[i - 1] /\ q \in Seq(S) /\ Elements(q) = {s[j] : j \in 1..(i - 1)} \ gone
      BY <2>3 DEF Right
    <3>3. s[i] \in S
      BY <1>1, <2>3
    <3>4. /\ Append(q, s[i]) \in Seq(S) /\ Len(Append(q, s[i])) = Len(q) + 1 /\ Len(q) \in Nat
          /\ \A j \in 1..Len(q) : Append(q, s[i])[j] = q[j]
          /\ Append(q, s[i])[Len(q) + 1] = s[i]
      BY <3>2, <3>3, AppendProperties, LenProperties
    <3>5. Elements(Append(q, s[i])) = Elements(q) \cup {s[i]}
      BY <3>4 DEF Elements
    <3>. QED
      BY <2>3, <2>4, <2>6, <3>1, <3>2, <3>4, <3>5 DEF Right
  <2>. QED
    BY <2>5, <2>6
<1>5. Right(Len(s))
  BY <1>1, <1>4
<1>. QED
  BY <1>2, <1>5 DEF Elements, Right

-----------------------------------------------------------------------------
(* MIDI notes.                                                             *)

PerfPc == {"score", "posting score", "midi", "sensed", "posting midi", "play", "ended", "quit",
           "quitting", "stopping", "join", "free", "stopped"}
Request == [type : {"midi"}, note : Note] \cup [type : {"score", "merge", "refused"}, note : Nat]
MidiMsg == {NoMessage} \cup {On(k) : k \in Key} \cup {Off(k) : k \in Key} \cup {Pedal(b) : b \in BOOLEAN}
Channel == [kinsptr : [Key -> Seq(Note)], m_sust : SUBSET Note, ksuscnt : Int, sustaining : BOOLEAN]

\* The notes that a key's list holds are its own.
NoteTypes ==
    /\ queue \in Seq(Request) /\ post \in [Producer -> Request] /\ midi \in Int
    /\ worker.data \in Request /\ perf.msg \in MidiMsg /\ perf.pc \in PerfPc
    /\ chn \in Channel
    /\ \A k \in Key : chn.kinsptr[k] \in Seq({k} \X (1..MaxOns))
    /\ DOMAIN input = {"on", "off", "score", "merges", "logs"} /\ input.score \in Nat
    /\ input.on \in [Key -> 0..MaxOns] /\ input.off \in [Key -> 0..MaxOns]

\* Only the performance thread posts notes, and the note it posts is that of the
\* note-on it holds.
PostInv ==
    /\ \A h \in Host : post[h].type # "midi"
    /\ post["perf"].type = "midi" =>
          /\ perf.pc = "posting midi"
          /\ \E k \in Key : perf.msg = On(k) /\ post["perf"] = Midi(k, input.on[k])
    /\ perf.pc = "posting midi" => \E k \in Key : perf.msg = On(k)
    /\ \A k \in Key : perf.msg = On(k) => input.on[k] > 0
    /\ \A k \in Key : input.off[k] <= input.on[k]

\* alloc_queue_midi counts the notes in the queue and the one in the init pass.
Handled == IF worker.pc \in {"insert", "complete"} /\ worker.data.type = "midi" THEN 1 ELSE 0
Notes(r) == IF r.type = "midi" THEN 1 ELSE 0
MidiAt(q) == {i \in 1..Len(q) : q[i].type = "midi"}
CountInv == midi = Cardinality(MidiAt(queue)) + Handled

\* ksuscnt counts the notes that wait for the pedal.
SustainInv ==
    /\ IsFiniteSet(chn.m_sust) /\ chn.ksuscnt = Cardinality(chn.m_sust)
    /\ ~chn.sustaining => chn.m_sust = {}

\* The notes of a key that have not met their note-off, wherever they are; the
\* note-offs that are still to come, or are held back; and why none is left.
Live(k) ==
    {n \in 1..MaxOns :
        \/ <<k, n>> \in Elements(chn.kinsptr[k]) \ chn.m_sust
        \/ Midi(k, n) \in Elements(queue)
        \/ worker.pc = "insert" /\ worker.data = Midi(k, n)
        \/ perf.msg = On(k) /\ n = input.on[k]}
Owed(k) == input.on[k] - input.off[k] + (IF perf.msg = Off(k) THEN 1 ELSE 0)
BoundInv(k) == Cardinality(Live(k)) <= Owed(k)

NInv ==
    /\ NoteTypes /\ PostInv /\ CountInv /\ SustainInv
    /\ allocated => \A k \in Key : BoundInv(k)

-----------------------------------------------------------------------------
\* Requests and messages are told apart by their type.
LEMMA MidiFacts ==
    /\ \A k \in Key, n \in 1..MaxOns : Midi(k, n) \in Request /\ Midi(k, n).type = "midi" /\ Midi(k, n) # Refused
    /\ \A k, l, m, n : Midi(k, n) = Midi(l, m) => k = l /\ n = m
    /\ \A r \in Request : r.type = "midi" => \E k \in Key, n \in 1..MaxOns : r = Midi(k, n)
<1>1. ASSUME NEW k \in Key, NEW n \in 1..MaxOns
      PROVE  Midi(k, n) \in Request /\ Midi(k, n).type = "midi" /\ Midi(k, n) # Refused
  <2>1. <<k, n>> \in Note
    BY DEF Note
  <2>2. Midi(k, n).type = "midi" /\ Refused.type = "refused" /\ Midi(k, n) \in [type : {"midi"}, note : Note]
    BY <2>1 DEF Midi, Refused
  <2>. QED
    BY <2>2 DEF Request
<1>2. ASSUME NEW k, NEW l, NEW m, NEW n, Midi(k, n) = Midi(l, m) PROVE k = l /\ n = m
  <2>1. Midi(k, n).note = <<k, n>> /\ Midi(l, m).note = <<l, m>>
    BY DEF Midi
  <2>. QED
    BY <1>2, <2>1
<1>3. ASSUME NEW r \in Request, r.type = "midi" PROVE \E k \in Key, n \in 1..MaxOns : r = Midi(k, n)
  <2>1. r \in [type : {"midi"}, note : Note]
    BY <1>3 DEF Request
  <2>2. PICK k \in Key, n \in 1..MaxOns : r.note = <<k, n>>
    BY <2>1 DEF Note
  <2>3. r = Midi(k, n)
    BY <1>3, <2>1, <2>2 DEF Midi
  <2>. QED
    BY <2>3
<1>. QED
  BY <1>1, <1>2, <1>3

\* Other requests.
LEMMA OtherFacts ==
    /\ Refused \in Request /\ Refused.type # "midi" /\ Merge \in Request /\ Merge.type # "midi"
    /\ \A n \in Nat : Score(n) \in Request /\ Score(n).type # "midi"
  BY DEF Refused, Merge, Score, Request

\* MIDI messages.
LEMMA MsgFacts ==
    /\ \A k \in Key : /\ On(k) \in MidiMsg /\ On(k).type = "on" /\ On(k).key = k
                      /\ Off(k) \in MidiMsg /\ Off(k).type = "off" /\ Off(k).key = k
    /\ \A k, l \in Key : On(k) # Off(l) /\ (On(k) = On(l) => k = l) /\ (Off(k) = Off(l) => k = l)
    /\ NoMessage \in MidiMsg /\ NoMessage.type = "none"
    /\ \A k \in Key : On(k) # NoMessage /\ Off(k) # NoMessage
    /\ \A b \in BOOLEAN : /\ Pedal(b) \in MidiMsg /\ Pedal(b).type \in {"pedal down", "pedal up"}
                          /\ Pedal(b) # NoMessage /\ \A k \in Key : Pedal(b) # On(k) /\ Pedal(b) # Off(k)
<1>1. NoMessage.type = "none" /\ NoMessage \in MidiMsg
  BY DEF NoMessage, MidiMsg
<1>2. ASSUME NEW k \in Key
      PROVE  /\ On(k) \in MidiMsg /\ On(k).type = "on" /\ On(k).key = k
             /\ Off(k) \in MidiMsg /\ Off(k).type = "off" /\ Off(k).key = k
  <2>1. On(k).type = "on" /\ On(k).key = k /\ Off(k).type = "off" /\ Off(k).key = k
    BY DEF On, Off
  <2>2. On(k) \in MidiMsg /\ Off(k) \in MidiMsg
    BY DEF MidiMsg
  <2>. QED
    BY <2>1, <2>2
<1>3. ASSUME NEW b \in BOOLEAN PROVE Pedal(b) \in MidiMsg /\ Pedal(b).type \in {"pedal down", "pedal up"}
  <2>1. Pedal(b).type \in {"pedal down", "pedal up"}
    BY DEF Pedal
  <2>2. Pedal(b) \in MidiMsg
    BY DEF MidiMsg
  <2>. QED
    BY <2>1, <2>2
<1>4. \A k, l \in Key : On(k) # Off(l) /\ (On(k) = On(l) => k = l) /\ (Off(k) = Off(l) => k = l)
  <2>. TAKE k, l \in Key
  <2>1. On(k).type = "on" /\ Off(l).type = "off" /\ On(k).key = k /\ On(l).key = l /\ Off(k).key = k /\ Off(l).key = l
    BY <1>2
  <2>. QED
    BY <2>1
<1>5. \A k \in Key : On(k) # NoMessage /\ Off(k) # NoMessage
  <2>. TAKE k \in Key
  <2>1. On(k).type = "on" /\ Off(k).type = "off"
    BY <1>2
  <2>. QED
    BY <1>1, <2>1
<1>6. \A b \in BOOLEAN : Pedal(b) # NoMessage /\ \A k \in Key : Pedal(b) # On(k) /\ Pedal(b) # Off(k)
  <2>. TAKE b \in BOOLEAN
  <2>1. Pedal(b).type \in {"pedal down", "pedal up"}
    BY <1>3
  <2>2. ASSUME NEW k \in Key PROVE Pedal(b) # On(k) /\ Pedal(b) # Off(k)
    <3>1. On(k).type = "on" /\ Off(k).type = "off"
      BY <1>2
    <3>. QED
      BY <2>1, <3>1
  <2>. QED
    BY <1>1, <2>1, <2>2
<1>. QED
  BY <1>1, <1>2, <1>3, <1>4, <1>5, <1>6

\* The kinds of MIDI messages.
LEMMA MsgKinds ==
    ASSUME NEW m \in MidiMsg
    PROVE  /\ m.type = "on" => \E k \in Key : m = On(k)
           /\ m.type = "off" => \E k \in Key : m = Off(k)
  BY MsgFacts DEF MidiMsg

\* A request counts for one when it is a note.
LEMMA NotesOf ==
    ASSUME NEW r
    PROVE  Notes(r) \in {0, 1} /\ (r.type = "midi" => Notes(r) = 1) /\ (r.type # "midi" => Notes(r) = 0)
  BY DEF Notes

\* A request is put into the queue.
LEMMA AppendRequest ==
    ASSUME NEW q \in Seq(Request), NEW r \in Request
    PROVE  /\ Append(q, r) \in Seq(Request) /\ Elements(Append(q, r)) = Elements(q) \cup {r}
           /\ Cardinality(MidiAt(Append(q, r))) = Cardinality(MidiAt(q)) + Notes(r)
<1>1. /\ Append(q, r) \in Seq(Request) /\ Len(Append(q, r)) = Len(q) + 1 /\ Len(q) \in Nat
      /\ \A j \in 1..Len(q) : Append(q, r)[j] = q[j]
      /\ Append(q, r)[Len(q) + 1] = r
  BY AppendProperties, LenProperties
<1>2. Elements(Append(q, r)) = Elements(q) \cup {r}
  BY <1>1 DEF Elements
<1>3. MidiAt(Append(q, r)) = MidiAt(q) \cup (IF r.type = "midi" THEN {Len(q) + 1} ELSE {})
  BY <1>1 DEF MidiAt
<1>4. IsFiniteSet(MidiAt(q)) /\ Len(q) + 1 \notin MidiAt(q)
  <2>1. IsFiniteSet(1..Len(q)) /\ MidiAt(q) \subseteq 1..Len(q)
    BY <1>1, FS_Interval DEF MidiAt
  <2>. QED
    BY <1>1, <2>1, FS_Subset
<1>5. Cardinality(MidiAt(q)) \in Nat
      /\ Cardinality(MidiAt(q) \cup {Len(q) + 1}) = Cardinality(MidiAt(q)) + 1
  BY <1>4, FS_AddElement, FS_CardinalityType
<1>6. CASE r.type = "midi"
  <2>1. MidiAt(Append(q, r)) = MidiAt(q) \cup {Len(q) + 1}
    BY <1>3, <1>6
  <2>2. Notes(r) = 1
    BY <1>6, NotesOf
  <2>. QED
    BY <1>1, <1>2, <1>5, <2>1, <2>2
<1>7. CASE r.type # "midi"
  <2>1. MidiAt(Append(q, r)) = MidiAt(q)
    BY <1>3, <1>7
  <2>2. Notes(r) = 0
    BY <1>7, NotesOf
  <2>. QED
    BY <1>1, <1>2, <1>5, <2>1, <2>2
<1>. QED
  BY <1>6, <1>7

\* ... and taken from it.
LEMMA TakeRequest ==
    ASSUME NEW q \in Seq(Request), q # <<>>
    PROVE  /\ Tail(q) \in Seq(Request) /\ Head(q) \in Request /\ Elements(q) = Elements(Tail(q)) \cup {Head(q)}
           /\ Cardinality(MidiAt(q)) = Cardinality(MidiAt(Tail(q))) + Notes(Head(q))
<1>1. /\ Tail(q) \in Seq(Request) /\ Len(Tail(q)) = Len(q) - 1 /\ Len(q) \in Nat /\ Len(q) > 0
      /\ \A i \in 1..Len(Tail(q)) : Tail(q)[i] = q[i + 1]
      /\ Head(q) = q[1] /\ Head(q) \in Request
  BY HeadTailProperties, LenProperties, EmptySeq
<1>2. PICK t \in Seq(Request) : t = Tail(q)
  BY <1>1
<1>3. \A i \in 1..Len(q) : i = 1 \/ (i - 1 \in 1..Len(t) /\ t[i - 1] = q[i])
  BY <1>1, <1>2
<1>4. \A i \in 1..Len(t) : i + 1 \in 1..Len(q) /\ t[i] = q[i + 1]
  BY <1>1, <1>2
<1>5. Elements(q) = Elements(t) \cup {Head(q)}
  <2>1. ASSUME NEW i \in 1..Len(q) PROVE q[i] \in Elements(t) \cup {Head(q)}
    BY <1>1, <1>3 DEF Elements
  <2>2. ASSUME NEW i \in 1..Len(t) PROVE t[i] \in Elements(q)
    BY <1>4 DEF Elements
  <2>3. Head(q) \in Elements(q)
    <3>1. 1 \in 1..Len(q)
      BY <1>1
    <3>. QED
      BY <1>1, <3>1 DEF Elements
  <2>. QED
    BY <2>1, <2>2, <2>3 DEF Elements
<1>6. IsFiniteSet(MidiAt(t)) /\ IsFiniteSet(MidiAt(q))
  <2>1. IsFiniteSet(1..Len(q)) /\ IsFiniteSet(1..Len(t)) /\ MidiAt(q) \subseteq 1..Len(q) /\ MidiAt(t) \subseteq 1..Len(t)
    BY <1>1, <1>2, FS_Interval DEF MidiAt
  <2>. QED
    BY <2>1, FS_Subset
<1>7. Cardinality(MidiAt(t)) = Cardinality(MidiAt(q) \ {1})
  <2>. DEFINE f == [i \in MidiAt(t) |-> i + 1]
  <2>1. f \in Bijection(MidiAt(t), MidiAt(q) \ {1})
    <3>1. \A i \in MidiAt(t) : i \in Nat /\ i + 1 \in MidiAt(q) \ {1}
      BY <1>1, <1>2, <1>4 DEF MidiAt
    <3>2. \A j \in MidiAt(q) \ {1} : j \in Nat /\ j - 1 \in MidiAt(t)
      BY <1>1, <1>2, <1>3 DEF MidiAt
    <3>3. f \in [MidiAt(t) -> MidiAt(q) \ {1}] /\ \A a, b \in MidiAt(t) : f[a] = f[b] => a = b
      BY <3>1
    <3>4. \A j \in MidiAt(q) \ {1} : \E i \in MidiAt(t) : f[i] = j
      <4>. TAKE j \in MidiAt(q) \ {1}
      <4>1. j - 1 \in MidiAt(t) /\ f[j - 1] = j
        BY <3>1, <3>2
      <4>. QED
        BY <4>1
    <3>. HIDE DEF f
    <3>5. f \in Injection(MidiAt(t), MidiAt(q) \ {1})
      BY <3>3 DEF Injection, IsInjective
    <3>6. f \in Surjection(MidiAt(t), MidiAt(q) \ {1})
      BY <3>3, <3>4 DEF Surjection
    <3>. QED
      BY <3>5, <3>6 DEF Bijection
  <2>. HIDE DEF f
  <2>2. ExistsBijection(MidiAt(t), MidiAt(q) \ {1})
    BY <2>1 DEF ExistsBijection
  <2>. QED
    BY <1>6, <2>2, FS_Bijection, Zenon
<1>8. CASE Head(q).type = "midi"
  <2>1. 1 \in MidiAt(q)
    BY <1>1, <1>8 DEF MidiAt
  <2>2. Cardinality(MidiAt(q) \ {1}) = Cardinality(MidiAt(q)) - 1 /\ Cardinality(MidiAt(q)) \in Nat
    BY <1>6, <2>1, FS_RemoveElement, FS_CardinalityType
  <2>3. Cardinality(MidiAt(q)) = Cardinality(MidiAt(t)) + 1
    BY <1>7, <2>2
  <2>4. Notes(Head(q)) = 1
    BY <1>8, NotesOf
  <2>. QED
    BY <1>1, <1>2, <1>5, <2>3, <2>4
<1>9. CASE Head(q).type # "midi"
  <2>1. MidiAt(q) \ {1} = MidiAt(q)
    BY <1>1, <1>9 DEF MidiAt
  <2>2. Cardinality(MidiAt(q)) \in Nat
    BY <1>6, FS_CardinalityType
  <2>3. Cardinality(MidiAt(q)) = Cardinality(MidiAt(t)) + 0
    <3>1. Cardinality(MidiAt(q)) = Cardinality(MidiAt(t))
      BY <1>7, <2>1, Zenon
    <3>. QED
      BY <2>2, <3>1
  <2>4. Notes(Head(q)) = 0
    BY <1>9, NotesOf
  <2>. QED
    BY <1>1, <1>2, <1>5, <2>3, <2>4
<1>. QED
  BY <1>8, <1>9

\* When the count says zero there is no note in the queue.
LEMMA NoMidiQueued ==
    ASSUME NEW q \in Seq(Request)
    PROVE  /\ Cardinality(MidiAt(q)) \in Nat
           /\ Cardinality(MidiAt(q)) = 0 => \A r \in Elements(q) : r.type # "midi"
<1>1. Len(q) \in Nat
  BY LenProperties
<1>2. IsFiniteSet(1..Len(q)) /\ MidiAt(q) \subseteq 1..Len(q)
  BY <1>1, FS_Interval DEF MidiAt
<1>3. IsFiniteSet(MidiAt(q))
  BY <1>2, FS_Subset
<1>4. Cardinality(MidiAt(q)) = 0 => MidiAt(q) = {}
  BY <1>3, FS_EmptySet
<1>. QED
  BY <1>3, <1>4, FS_CardinalityType DEF Elements, MidiAt

\* The live notes of a key are finitely many.
LEMMA LiveFinite ==
    ASSUME NEW k
    PROVE  IsFiniteSet(Live(k)) /\ Cardinality(Live(k)) \in Nat /\ (Cardinality(Live(k)) = 0 <=> Live(k) = {})
<1>1. IsFiniteSet(1..MaxOns) /\ Live(k) \subseteq 1..MaxOns
  BY SizesAssumption, FS_Interval DEF Live
<1>2. IsFiniteSet(Live(k))
  BY <1>1, FS_Subset
<1>. QED
  BY <1>2, FS_CardinalityType, FS_EmptySet

\* ... in the next state too.
LEMMA LiveFiniteNext ==
    ASSUME NEW k
    PROVE  IsFiniteSet(Live(k)') /\ Cardinality(Live(k)') \in Nat /\ (Cardinality(Live(k)') = 0 <=> Live(k)' = {})
<1>1. IsFiniteSet(1..MaxOns) /\ Live(k)' \subseteq 1..MaxOns
  BY SizesAssumption, FS_Interval DEF Live
<1>2. IsFiniteSet(Live(k)')
  BY <1>1, FS_Subset
<1>. QED
  BY <1>2, FS_CardinalityType, FS_EmptySet

\* No more of them are live: the bound stays.
LEMMA LiveKeeps ==
    ASSUME NEW k, BoundInv(k), Live(k)' \subseteq Live(k), Owed(k) \in Int, Owed(k)' = Owed(k)
    PROVE  BoundInv(k)'
<1>1. PICK L, M : L = Live(k) /\ M = Live(k)'
  OBVIOUS
<1>2. IsFiniteSet(L) /\ M \subseteq L
  BY <1>1, LiveFinite
<1>3. Cardinality(M) <= Cardinality(L) /\ Cardinality(M) \in Nat /\ Cardinality(L) \in Nat
  BY <1>2, FS_Subset, FS_CardinalityType
<1>4. Cardinality(L) <= Owed(k)
  BY <1>1 DEF BoundInv
<1>5. Cardinality(M) <= Owed(k)'
  BY <1>3, <1>4
<1>. QED
  BY <1>1, <1>5 DEF BoundInv

\* One of them ends, as is owed.
LEMMA LiveEnds ==
    ASSUME NEW k, BoundInv(k), NEW n \in Live(k), Live(k)' \subseteq Live(k) \ {n},
           Owed(k) \in Int, Owed(k)' = Owed(k) - 1
    PROVE  BoundInv(k)'
<1>1. PICK L, M : L = Live(k) /\ M = Live(k)'
  OBVIOUS
<1>2. IsFiniteSet(L) /\ M \subseteq L \ {n} /\ n \in L
  BY <1>1, LiveFinite
<1>3. IsFiniteSet(L \ {n}) /\ Cardinality(L \ {n}) = Cardinality(L) - 1 /\ Cardinality(L) \in Nat
  BY <1>2, FS_RemoveElement, FS_CardinalityType
<1>4. Cardinality(M) <= Cardinality(L \ {n}) /\ Cardinality(M) \in Nat
  BY <1>2, <1>3, FS_Subset, FS_CardinalityType
<1>5. Cardinality(L) <= Owed(k)
  BY <1>1 DEF BoundInv
<1>6. Cardinality(M) <= Owed(k)'
  BY <1>3, <1>4, <1>5
<1>. QED
  BY <1>1, <1>6 DEF BoundInv

\* One more is live, and owed.
LEMMA LiveBegins ==
    ASSUME NEW k, BoundInv(k), NEW n, Live(k)' \subseteq Live(k) \cup {n},
           Owed(k) \in Int, Owed(k)' = Owed(k) + 1
    PROVE  BoundInv(k)'
<1>1. PICK L, M : L = Live(k) /\ M = Live(k)'
  OBVIOUS
<1>2. IsFiniteSet(L) /\ M \subseteq L \cup {n}
  BY <1>1, LiveFinite
<1>3. IsFiniteSet(L \cup {n}) /\ Cardinality(L \cup {n}) <= Cardinality(L) + 1 /\ Cardinality(L) \in Nat
  BY <1>2, FS_AddElement, FS_CardinalityType
<1>4. Cardinality(M) <= Cardinality(L \cup {n}) /\ Cardinality(M) \in Nat /\ Cardinality(L \cup {n}) \in Nat
  BY <1>2, <1>3, FS_Subset, FS_CardinalityType
<1>5. Cardinality(L) <= Owed(k)
  BY <1>1 DEF BoundInv
<1>6. Cardinality(M) <= Owed(k)'
  BY <1>3, <1>4, <1>5
<1>. QED
  BY <1>1, <1>6 DEF BoundInv

\* What is owed is a number.
LEMMA OwedType == ASSUME NoteTypes, NEW k \in Key PROVE Owed(k) \in Int
  BY SizesAssumption DEF NoteTypes, Owed

-----------------------------------------------------------------------------
\* The invariant holds before the first step.
LEMMA InitNInv == Init => NInv
<1>. SUFFICES ASSUME Init PROVE NInv
  OBVIOUS
<1>1. /\ queue = <<>> /\ post = [p \in Producer |-> Refused] /\ midi = 0
      /\ worker.pc = "poll" /\ worker.data = Refused /\ perf.msg = NoMessage /\ perf.pc = "score"
      /\ chn = [kinsptr |-> [k \in Key |-> <<>>], m_sust |-> {}, ksuscnt |-> 0, sustaining |-> FALSE]
      /\ input.on = [k \in Key |-> 0] /\ input.off = [k \in Key |-> 0] /\ input.score = 0
      /\ DOMAIN input = {"on", "off", "score", "merges", "logs"}
  BY DEF Init
<1>2. queue \in Seq(Request) /\ post \in [Producer -> Request]
  BY <1>1, OtherFacts, EmptySeq
<1>3. chn \in Channel /\ \A k \in Key : chn.kinsptr[k] \in Seq({k} \X (1..MaxOns))
  <2>1. chn.kinsptr = [k \in Key |-> <<>>] /\ chn.m_sust = {} /\ chn.ksuscnt = 0 /\ chn.sustaining = FALSE
    BY <1>1
  <2>2. \A k \in Key : <<>> \in Seq({k} \X (1..MaxOns))
    BY EmptySeq
  <2>3. [k \in Key |-> <<>>] \in [Key -> Seq(Note)]
    BY EmptySeq
  <2>. QED
    BY <1>1, <2>1, <2>2, <2>3 DEF Channel
<1>4. NoteTypes
  <2>1. NoMessage \in MidiMsg /\ Refused \in Request
    BY OtherFacts, MsgFacts, Zenon
  <2>2. MaxOns \in Nat
    BY SizesAssumption
  <2>3. [k \in Key |-> 0] \in [Key -> 0..MaxOns]
    BY <2>2
  <2>4. "score" \in PerfPc
    BY DEF PerfPc
  <2>. QED
    BY <1>1, <1>2, <1>3, <2>1, <2>3, <2>4 DEF NoteTypes
<1>5. PostInv
  <2>1. Refused.type # "midi" /\ \A k \in Key : NoMessage # On(k)
    BY OtherFacts, MsgFacts
  <2>2. \A p \in Host \cup {"perf"} : post[p] = Refused
    BY <1>1 DEF Producer
  <2>3. \A k \in Key : input.off[k] <= input.on[k]
    BY <1>1
  <2>. QED
    BY <1>1, <2>1, <2>2, <2>3 DEF PostInv
<1>6. Elements(queue) = {} /\ MidiAt(queue) = {}
  BY <1>1 DEF Elements, MidiAt
<1>7. CountInv
  <2>1. Cardinality(MidiAt(queue)) = 0
    BY <1>6, FS_EmptySet
  <2>2. Handled = 0
    BY <1>1 DEF Handled
  <2>. QED
    BY <1>1, <2>1, <2>2 DEF CountInv
<1>8. SustainInv
  BY <1>1, FS_EmptySet DEF SustainInv
<1>9. ASSUME NEW k \in Key PROVE BoundInv(k)
  <2>1. Elements(chn.kinsptr[k]) = {}
    BY <1>1 DEF Elements
  <2>2. Live(k) = {}
    BY <1>1, <1>6, <2>1, MsgFacts DEF Live
  <2>3. Owed(k) = 0
    <3>1. perf.msg # Off(k)
      BY <1>1, MsgFacts, Zenon
    <3>2. input.on[k] = 0 /\ input.off[k] = 0
      BY <1>1
    <3>. QED
      BY <3>1, <3>2 DEF Owed
  <2>. QED
    BY <2>2, <2>3, LiveFinite DEF BoundInv
<1>. QED
  BY <1>4, <1>5, <1>7, <1>8, <1>9 DEF NInv

\* Steps that have nothing to do with MIDI notes.
LEMMA OthersKeep ==
    ASSUME NInv, UNCHANGED <<queue, midi, post, chn, allocated>>,
           perf'.msg = perf.msg, perf'.pc \in PerfPc,
           perf'.pc = perf.pc \/ (perf.pc # "posting midi" /\ perf'.pc # "posting midi"),
           worker'.data = worker.data, worker'.pc = "insert" => worker.pc = "insert", Handled' = Handled,
           DOMAIN input' = {"on", "off", "score", "merges", "logs"}, input'.score \in Nat,
           input'.on = input.on, input'.off = input.off
    PROVE  NInv'
<1>1. NoteTypes'
  BY DEF NInv, NoteTypes
<1>2. PostInv'
  BY DEF NInv, PostInv
<1>3. CountInv' /\ SustainInv'
  BY DEF NInv, CountInv, SustainInv
<1>4. ASSUME NEW k \in Key, BoundInv(k) PROVE BoundInv(k)'
  <2>1. Live(k)' \subseteq Live(k)
    BY DEF Live
  <2>2. Owed(k)' = Owed(k) /\ Owed(k) \in Int
    BY OwedType DEF Owed, NInv
  <2>. QED
    BY <1>4, <2>1, <2>2, LiveKeeps
<1>. QED
  BY <1>1, <1>2, <1>3, <1>4 DEF NInv

\* A producer asks for a slot of the queue.
AdmitStep(p, request) ==
    /\ Admit(p, request) /\ UNCHANGED <<chn, worker>> /\ perf'.msg = perf.msg /\ perf'.pc \in PerfPc
    /\ perf.pc # "posting midi" \/ p # "perf"
    /\ perf'.pc = IF p = "perf" THEN IF request.type = "midi" THEN "posting midi" ELSE "posting score" ELSE perf.pc
    /\ request.type = "midi" =>
          p = "perf" /\ \E k \in Key : perf.msg = On(k) /\ request = Midi(k, input.on[k])
    /\ DOMAIN input' = {"on", "off", "score", "merges", "logs"} /\ input'.score \in Nat
    /\ input'.on = input.on /\ input'.off = input.off

\* A request that is asked for changes no note.
LEMMA AdmitNotes == ASSUME IInv, NInv, NEW p \in Producer, NEW request \in Request, AdmitStep(p, request) PROVE NInv'
<1>0. /\ UNCHANGED <<chn, worker>> /\ perf'.msg = perf.msg /\ perf'.pc \in PerfPc
      /\ DOMAIN input' = {"on", "off", "score", "merges", "logs"} /\ input'.score \in Nat
      /\ input'.on = input.on /\ input'.off = input.off
  BY DEF AdmitStep
<1>1. /\ UNCHANGED <<queue, midi, allocated>>
      /\ post \in [Producer -> Request] /\ \A q \in Producer : post[q] = Refused
      /\ post' \in [Producer -> Request]
      /\ \A q \in Producer \ {p} : post'[q] = post[q]
      /\ post'[p] \in {Refused, request}
  BY OtherFacts, NamesAssumption DEF AdmitStep, Admit, IInv, LockInv, NInv, NoteTypes, Producer
<1>2. NoteTypes'
  BY <1>0, <1>1 DEF NInv, NoteTypes
<1>3. PostInv'
  <2>1. \A h \in Host : h \in Producer /\ h # "perf"
    BY NamesAssumption DEF Producer
  <2>2. "perf" \in Producer
    BY DEF Producer
  <2>3. perf.pc # "posting midi" \/ perf.pc = "posting midi"
    OBVIOUS
  <2>4. \A h \in Host : post'[h].type # "midi"
    BY <1>1, <2>1, OtherFacts DEF AdmitStep
  <2>5. post'["perf"].type = "midi" =>
          /\ perf'.pc = "posting midi"
          /\ \E k \in Key : perf'.msg = On(k) /\ post'["perf"] = Midi(k, input'.on[k])
    <3>1. CASE post'["perf"] = Refused
      BY <3>1, OtherFacts
    <3>2. CASE post'["perf"] # Refused
      <4>1. p = "perf" /\ post'["perf"] = request
        BY <1>1, <2>2, <3>2
      <4>. QED
        BY <4>1 DEF AdmitStep
    <3>. QED
      BY <3>1, <3>2
  <2>6. perf'.pc = "posting midi" => \E k \in Key : perf'.msg = On(k)
    BY DEF NInv, PostInv, AdmitStep
  <2>. QED
    BY <1>0, <2>4, <2>5, <2>6 DEF NInv, PostInv
<1>4. CountInv' /\ SustainInv'
  BY <1>0, <1>1 DEF NInv, CountInv, SustainInv, Handled
<1>5. ASSUME NEW k \in Key, BoundInv(k) PROVE BoundInv(k)'
  <2>1. Live(k)' \subseteq Live(k)
    BY <1>0, <1>1 DEF Live
  <2>2. Owed(k)' = Owed(k) /\ Owed(k) \in Int
    BY <1>0, OwedType DEF Owed, NInv
  <2>. QED
    BY <1>5, <2>1, <2>2, LiveKeeps
<1>. QED
  BY <1>1, <1>2, <1>3, <1>4, <1>5 DEF NInv

\* A producer puts its request into the queue.
FillStep(p) ==
    /\ lock = p /\ Fill(p) /\ UNCHANGED <<chn, worker, input>> /\ perf'.pc \in PerfPc
    /\ p = "perf" => perf'.pc # "posting midi"
    /\ p # "perf" => perf'.pc = perf.pc
    /\ perf'.msg = perf.msg \/ (perf'.msg = NoMessage /\ p = "perf" /\ perf.pc = "posting midi")

\* A request is put into the queue: a note that is accepted is no longer held back.
LEMMA FillNotes == ASSUME IInv, NInv, NEW p \in Producer, FillStep(p) PROVE NInv'
<1>1. /\ UNCHANGED allocated /\ \A q \in Producer : post'[q] = Refused
      /\ post[p] \in Request /\ post' \in [Producer -> Request]
      /\ queue' = (IF post[p] = Refused THEN queue ELSE Append(queue, post[p]))
      /\ midi' = midi + Notes(post[p])
      /\ queue \in Seq(Request) /\ midi \in Int
      /\ UNCHANGED <<chn, worker, input>> /\ perf'.pc \in PerfPc
  BY OtherFacts DEF FillStep, Fill, IInv, LockInv, NInv, NoteTypes, Notes
<1>2. /\ queue' \in Seq(Request)
      /\ Elements(queue') \subseteq Elements(queue) \cup {post[p]}
      /\ Cardinality(MidiAt(queue')) = Cardinality(MidiAt(queue)) + Notes(post[p])
      /\ Cardinality(MidiAt(queue)) \in Nat
  <2>0. PICK r \in Request : r = post[p]
    BY <1>1
  <2>1. CASE r = Refused
    <3>1. queue' = queue /\ r.type # "midi"
      BY <1>1, <2>0, <2>1, OtherFacts
    <3>2. Cardinality(MidiAt(queue)) \in Nat
      BY <1>1, NoMidiQueued
    <3>3. Cardinality(MidiAt(queue')) = Cardinality(MidiAt(queue)) + 0
      <4>1. Cardinality(MidiAt(queue')) = Cardinality(MidiAt(queue))
        BY <3>1, Zenon
      <4>. QED
        BY <3>2, <4>1
    <3>4. Notes(post[p]) = 0
      BY <2>0, <3>1, NotesOf
    <3>. QED
      BY <1>1, <3>1, <3>2, <3>3, <3>4
  <2>2. CASE r # Refused
    <3>1. PICK q \in Seq(Request) : q = queue
      BY <1>1
    <3>2. queue' = Append(q, r)
      BY <1>1, <2>0, <2>2, <3>1
    <3>3. Cardinality(MidiAt(q)) \in Nat
      BY NoMidiQueued
    <3>4. /\ Append(q, r) \in Seq(Request) /\ Elements(Append(q, r)) = Elements(q) \cup {r}
          /\ Cardinality(MidiAt(Append(q, r))) = Cardinality(MidiAt(q)) + Notes(r)
      BY AppendRequest
    <3>. QED
      BY <2>0, <3>1, <3>2, <3>3, <3>4
  <2>. QED
    BY <2>1, <2>2
<1>3. NoteTypes'
  <2>1. midi' \in Int
    <3>1. PICK a \in {0, 1} : a = Notes(post[p])
      BY NotesOf
    <3>2. midi \in Int /\ midi' = midi + a
      BY <1>1, <3>1
    <3>. QED
      BY <3>2
  <2>2. NoMessage \in MidiMsg /\ perf.msg \in MidiMsg
    BY MsgFacts DEF NInv, NoteTypes
  <2>3. perf'.msg = NoMessage \/ perf'.msg = perf.msg
    BY DEF FillStep
  <2>. QED
    BY <1>1, <1>2, <2>1, <2>2, <2>3 DEF NInv, NoteTypes
<1>4. PostInv'
  <2>1. \A h \in Host : h \in Producer
    BY DEF Producer
  <2>2. "perf" \in Producer
    BY DEF Producer
  <2>3. perf'.msg = NoMessage \/ perf'.msg = perf.msg
    BY DEF FillStep
  <2>4. perf'.pc = "posting midi" => perf.pc = "posting midi" /\ perf'.msg = perf.msg
    BY DEF FillStep
  <2>5. \A q \in Producer : post'[q].type # "midi"
    BY <1>1, OtherFacts
  <2>6. \A k \in Key : perf'.msg = On(k) => perf.msg = On(k)
    BY <2>3, MsgFacts
  <2>. QED
    BY <1>1, <2>1, <2>2, <2>4, <2>5, <2>6 DEF NInv, PostInv
<1>5. CountInv' /\ SustainInv'
  <2>1. Handled' = Handled /\ Handled \in {0, 1}
    BY <1>1 DEF Handled
  <2>2. midi = Cardinality(MidiAt(queue)) + Handled
    BY DEF NInv, CountInv
  <2>3. midi' = Cardinality(MidiAt(queue')) + Handled'
    <3>1. PICK a \in {0, 1} : a = Notes(post[p])
      BY NotesOf
    <3>2. midi' = midi + a /\ Cardinality(MidiAt(queue')) = Cardinality(MidiAt(queue)) + a
      BY <1>1, <1>2, <3>1
    <3>3. PICK c \in Nat, h \in {0, 1} : c = Cardinality(MidiAt(queue)) /\ h = Handled
      BY <1>2, <2>1
    <3>4. midi' = (c + h) + a /\ Cardinality(MidiAt(queue')) = c + a /\ Handled' = h
      BY <2>1, <2>2, <3>2, <3>3
    <3>. QED
      BY <3>4
  <2>. QED
    BY <1>1, <2>3 DEF NInv, CountInv, SustainInv
<1>6. ASSUME NEW k \in Key, BoundInv(k) PROVE BoundInv(k)'
  <2>1. post[p].type = "midi" => \E l \in Key : perf.msg = On(l) /\ post[p] = Midi(l, input.on[l])
    BY DEF NInv, PostInv, Producer
  <2>2. ASSUME NEW n \in 1..MaxOns, Midi(k, n) = post[p] PROVE n \in Live(k)
    <3>1. post[p].type = "midi"
      BY <2>2, MidiFacts
    <3>2. PICK l \in Key : perf.msg = On(l) /\ post[p] = Midi(l, input.on[l])
      BY <2>1, <3>1
    <3>3. l = k /\ n = input.on[l]
      <4>1. PICK o : o = input.on[l]
        OBVIOUS
      <4>2. Midi(k, n) = Midi(l, o)
        BY <2>2, <3>2, <4>1
      <4>3. k = l /\ n = o
        <5>1. \A a, b, c, d : Midi(a, d) = Midi(b, c) => a = b /\ d = c
          BY MidiFacts, Zenon
        <5>. QED
          BY <4>2, <5>1, Zenon
      <4>. QED
        BY <4>1, <4>3
    <3>. QED
      BY <3>2, <3>3 DEF Live
  <2>3. ASSUME NEW n \in Live(k)' PROVE n \in Live(k)
    <3>1. n \in 1..MaxOns
      BY <2>3 DEF Live
    <3>2. CASE Midi(k, n) \in Elements(queue')
      BY <1>2, <2>2, <3>1, <3>2 DEF Live
    <3>3. CASE Midi(k, n) \notin Elements(queue')
      BY <1>1, <2>3, <3>1, <3>3, MsgFacts DEF Live, FillStep
    <3>. QED
      BY <3>2, <3>3
  <2>4. Owed(k)' = Owed(k) /\ Owed(k) \in Int
    <3>1. perf'.msg = Off(k) <=> perf.msg = Off(k)
      <4>1. CASE perf.pc = "posting midi" /\ perf'.msg = NoMessage
        <5>1. PICK l \in Key : perf.msg = On(l)
          BY <4>1 DEF NInv, PostInv
        <5>2. On(l) # Off(k) /\ Off(k) # NoMessage
          BY MsgFacts
        <5>. QED
          BY <4>1, <5>1, <5>2
      <4>2. CASE perf'.msg = perf.msg
        BY <4>2
      <4>. QED
        BY <4>1, <4>2 DEF FillStep
    <3>. QED
      BY <1>1, <3>1, OwedType DEF Owed, NInv
  <2>. QED
    BY <1>6, <2>3, <2>4, LiveKeeps
<1>. QED
  BY <1>1, <1>3, <1>4, <1>5, <1>6 DEF NInv

\* The performance thread reads a message.
LEMMA SenseNotes ==
    ASSUME IInv, NInv, NEW msg \in Messages, Sense(msg)
    PROVE  NInv'
<1>1. /\ perf.pc = "midi" /\ perf'.pc = "sensed" /\ perf'.msg = msg /\ UNCHANGED <<allocQueue, worker, chn>>
      /\ perf.msg \in {NoMessage, msg}
  BY DEF Sense, PerfAt, engine
<1>2. /\ UNCHANGED <<queue, midi, post, allocated>> /\ post["perf"].type # "midi"
      /\ DOMAIN input = {"on", "off", "score", "merges", "logs"} /\ input.score \in Nat
      /\ input.on \in [Key -> 0..MaxOns] /\ input.off \in [Key -> 0..MaxOns] /\ MaxOns \in Nat
      /\ \A k \in Key : input.off[k] <= input.on[k]
  BY <1>1, SizesAssumption DEF allocQueue, NInv, PostInv, NoteTypes
<1>3. CASE perf.msg = msg
  BY <1>1, <1>2, <1>3, OthersKeep DEF Sense, PerfPc, Handled
<1>4. CASE perf.msg = NoMessage /\ msg # NoMessage
  <2>1. \/ \E k \in Key : msg = On(k) /\ input.on[k] < MaxOns
        \/ \E k \in Key : msg = Off(k) /\ input.off[k] < input.on[k]
        \/ \E b \in BOOLEAN : msg = Pedal(b)
    BY <1>4 DEF Messages
  <2>2. /\ input'.on = (IF msg.type = "on" THEN [input.on EXCEPT ![msg.key] = @ + 1] ELSE input.on)
        /\ input'.off = (IF msg.type = "off" THEN [input.off EXCEPT ![msg.key] = @ + 1] ELSE input.off)
        /\ input'.score = input.score /\ DOMAIN input' = {"on", "off", "score", "merges", "logs"}
    <3>1. perf.msg # msg
      BY <1>4
    <3>2. input' = [input EXCEPT !.on = Counted(@, "on", msg), !.off = Counted(@, "off", msg)]
      BY <3>1 DEF Sense
    <3>3. input'.on = Counted(input.on, "on", msg) /\ input'.off = Counted(input.off, "off", msg)
          /\ input'.score = input.score /\ DOMAIN input' = {"on", "off", "score", "merges", "logs"}
      BY <1>2, <3>2
    <3>. QED
      BY <3>3 DEF Counted
  <2>3. /\ input'.on \in [Key -> 0..MaxOns] /\ input'.off \in [Key -> 0..MaxOns] /\ msg \in MidiMsg
        /\ \A k \in Key : input'.off[k] <= input'.on[k]
        /\ \A k \in Key : msg = On(k) => input'.on[k] > 0
    <3>1. ASSUME NEW k \in Key, msg = On(k), input.on[k] < MaxOns
          PROVE  /\ input'.on = [input.on EXCEPT ![k] = input.on[k] + 1] /\ input'.off = input.off
                 /\ input'.on \in [Key -> 0..MaxOns] /\ msg \in MidiMsg
                 /\ \A l \in Key : input'.off[l] <= input'.on[l]
                 /\ \A l \in Key : msg = On(l) => input'.on[l] > 0
      <4>1. msg.type = "on" /\ msg.key = k /\ msg \in MidiMsg
        BY <3>1, MsgFacts
      <4>2. input'.on = [input.on EXCEPT ![k] = input.on[k] + 1] /\ input'.off = input.off
        BY <2>2, <4>1
      <4>3. input.on[k] + 1 \in 0..MaxOns /\ input.on[k] + 1 > 0
        BY <1>2, <3>1
      <4>4. \A l \in Key : msg = On(l) => l = k
        BY <3>1, MsgFacts
      <4>. QED
        BY <1>2, <4>1, <4>2, <4>3, <4>4
    <3>2. ASSUME NEW k \in Key, msg = Off(k), input.off[k] < input.on[k]
          PROVE  /\ input'.off = [input.off EXCEPT ![k] = input.off[k] + 1] /\ input'.on = input.on
                 /\ input'.off \in [Key -> 0..MaxOns] /\ msg \in MidiMsg
                 /\ \A l \in Key : input'.off[l] <= input'.on[l]
                 /\ \A l \in Key : msg # On(l)
      <4>1. msg.type = "off" /\ msg.key = k /\ msg \in MidiMsg /\ \A l \in Key : msg # On(l)
        BY <3>2, MsgFacts
      <4>2. input'.off = [input.off EXCEPT ![k] = input.off[k] + 1] /\ input'.on = input.on
        BY <2>2, <4>1
      <4>3. input.off[k] + 1 \in 0..MaxOns
        BY <1>2, <3>2
      <4>. QED
        BY <1>2, <3>2, <4>1, <4>2, <4>3
    <3>3. ASSUME NEW b \in BOOLEAN, msg = Pedal(b)
          PROVE  /\ input'.off = input.off /\ input'.on = input.on
                 /\ msg \in MidiMsg /\ \A l \in Key : msg # On(l)
      BY <2>2, <3>3, MsgFacts
    <3>. QED
      BY <1>2, <2>1, <3>1, <3>2, <3>3
  <2>4. NoteTypes'
    BY <1>1, <1>2, <2>2, <2>3 DEF NInv, NoteTypes, PerfPc
  <2>5. PostInv'
    BY <1>1, <1>2, <2>3 DEF NInv, PostInv
  <2>6. CountInv' /\ SustainInv'
    BY <1>1, <1>2 DEF NInv, CountInv, SustainInv, Handled
  <2>7. ASSUME NEW k \in Key, BoundInv(k) PROVE BoundInv(k)'
    <3>0. Owed(k) = input.on[k] - input.off[k] /\ Owed(k) \in Int
      <4>1. perf.msg # Off(k)
        BY <1>4, MsgFacts
      <4>2. input.on[k] \in Int /\ input.off[k] \in Int
        BY <1>2
      <4>. QED
        BY <4>1, <4>2 DEF Owed
    <3>1. CASE msg = On(k)
      <4>1. input'.on[k] = input.on[k] + 1 /\ input'.off = input.off /\ msg # Off(k)
        <5>1. msg.type = "on" /\ msg.key = k /\ msg # Off(k)
          BY <3>1, MsgFacts
        <5>2. input'.on = [input.on EXCEPT ![k] = input.on[k] + 1] /\ input'.off = input.off
          BY <2>2, <5>1
        <5>. QED
          BY <1>2, <5>1, <5>2
      <4>2. Owed(k)' = Owed(k) + 1
        BY <1>1, <1>2, <3>0, <4>1 DEF Owed
      <4>3. Live(k)' \subseteq Live(k) \cup {input'.on[k]}
        BY <1>1, <1>2 DEF Live
      <4>. QED
        BY <2>7, <3>0, <4>2, <4>3, LiveBegins
    <3>2. CASE msg # On(k)
      <4>1. Live(k)' \subseteq Live(k)
        BY <1>1, <1>2, <3>2 DEF Live
      <4>2. input'.on[k] = input.on[k] /\ input'.off[k] = input.off[k] + (IF msg = Off(k) THEN 1 ELSE 0)
        <5>0. input.off[k] \in Int /\ input.off[k] + 0 = input.off[k]
          BY <1>2
        <5>1. ASSUME NEW l \in Key, msg = On(l) PROVE input'.on[k] = input.on[k] /\ input'.off = input.off /\ msg # Off(k)
          <6>1. msg.type = "on" /\ msg.key = l /\ msg # Off(k) /\ l # k
            BY <3>2, <5>1, MsgFacts
          <6>2. input'.on = [input.on EXCEPT ![l] = input.on[l] + 1] /\ input'.off = input.off
            BY <2>2, <6>1
          <6>. QED
            BY <1>2, <6>1, <6>2
        <5>2. ASSUME NEW l \in Key, msg = Off(l)
              PROVE  /\ input'.on = input.on
                     /\ input'.off[k] = input.off[k] + (IF msg = Off(k) THEN 1 ELSE 0)
          <6>1. msg.type = "off" /\ msg.key = l /\ (msg = Off(k) <=> l = k)
            BY <5>2, MsgFacts
          <6>2. input'.off = [input.off EXCEPT ![l] = input.off[l] + 1] /\ input'.on = input.on
            BY <2>2, <6>1
          <6>3. CASE l = k
            BY <1>2, <6>1, <6>2, <6>3
          <6>4. CASE l # k
            BY <1>2, <5>0, <6>1, <6>2, <6>4
          <6>. QED
            BY <6>3, <6>4
        <5>3. ASSUME NEW b \in BOOLEAN, msg = Pedal(b)
              PROVE  input'.on = input.on /\ input'.off = input.off /\ msg # Off(k)
          BY <2>2, <5>3, MsgFacts
        <5>. QED
          BY <2>1, <5>0, <5>1, <5>2, <5>3
      <4>4. Owed(k)' = Owed(k)
        BY <1>1, <1>2, <3>0, <4>2 DEF Owed
      <4>. QED
        BY <2>7, <3>0, <4>1, <4>4, LiveKeeps
    <3>. QED
      BY <3>1, <3>2
  <2>. QED
    BY <1>2, <2>4, <2>5, <2>6, <2>7 DEF NInv
<1>. QED
  BY <1>1, <1>3, <1>4

-----------------------------------------------------------------------------
\* The channel changes: the bound decides.
LEMMA ChannelKeeps ==
    ASSUME NInv, UNCHANGED <<allocQueue, worker, input>>,
           perf.pc # "posting midi", perf'.pc \in PerfPc \ {"posting midi"}, perf'.msg \in {perf.msg, NoMessage},
           chn' \in Channel, \A k \in Key : chn'.kinsptr[k] \in Seq({k} \X (1..MaxOns)), SustainInv',
           allocated => \A k \in Key : BoundInv(k)'
    PROVE  NInv'
<1>1. NoteTypes'
  <2>1. perf'.msg \in MidiMsg
    BY MsgFacts DEF NInv, NoteTypes
  <2>2. UNCHANGED <<queue, post, midi>>
    BY DEF allocQueue
  <2>. QED
    BY <2>1, <2>2 DEF NInv, NoteTypes
<1>2. PostInv'
  BY MsgFacts DEF NInv, PostInv, allocQueue
<1>3. CountInv'
  BY DEF NInv, CountInv, Handled, allocQueue
<1>. QED
  BY <1>1, <1>2, <1>3 DEF NInv, allocQueue

\* The live notes of a key when the channel changes.
LEMMA ChannelLive ==
    ASSUME UNCHANGED <<allocQueue, worker, input>>, perf'.msg \in {perf.msg, NoMessage}, NEW k \in Key,
           Elements(chn'.kinsptr[k]) \ chn'.m_sust \subseteq Elements(chn.kinsptr[k]) \ chn.m_sust
    PROVE  Live(k)' \subseteq Live(k)
  BY MsgFacts DEF Live, allocQueue

\* A channel whose lists and count are right, and what xturnoff makes of one.
WellKept(c) ==
    /\ c \in Channel /\ IsFiniteSet(c.m_sust) /\ c.ksuscnt = Cardinality(c.m_sust)
    /\ \A l \in Key : c.kinsptr[l] \in Seq({l} \X (1..MaxOns))
TurnedOff(c, d, k, n) ==
    /\ d.sustaining = c.sustaining /\ d.m_sust = c.m_sust \ {n}
    /\ \A l \in Key \ {k} : d.kinsptr[l] = c.kinsptr[l]
    /\ Elements(d.kinsptr[k]) = Elements(c.kinsptr[k]) \ {n}

\* xturnoff takes the note off its list and off the count, and nothing else.
LEMMA XTurnoffChannel ==
    ASSUME NEW c, WellKept(c), NEW k \in Key, NEW n \in Note, NEW d, d = XTurnoff(c, k, n)
    PROVE  WellKept(d) /\ TurnedOff(c, d, k, n)
<1>0. /\ c \in Channel /\ IsFiniteSet(c.m_sust) /\ c.ksuscnt = Cardinality(c.m_sust)
      /\ \A l \in Key : c.kinsptr[l] \in Seq({l} \X (1..MaxOns))
  BY DEF WellKept
<1>1. /\ c.kinsptr \in [Key -> Seq(Note)] /\ c.m_sust \in SUBSET Note /\ c.ksuscnt \in Int /\ c.sustaining \in BOOLEAN
      /\ DOMAIN c = {"kinsptr", "m_sust", "ksuscnt", "sustaining"}
  BY <1>0 DEF Channel
<1>2. PICK w : w = Without(c.kinsptr[k], {n})
  OBVIOUS
<1>3. w \in Seq(Note) /\ w \in Seq({k} \X (1..MaxOns)) /\ Elements(w) = Elements(c.kinsptr[k]) \ {n}
  BY <1>0, <1>1, <1>2, WithoutElements
<1>4. PICK s \in Int : s = IF n \in c.m_sust /\ c.ksuscnt > 0 THEN c.ksuscnt - 1 ELSE c.ksuscnt
  BY <1>1
<1>5. PICK f \in [Key -> Seq(Note)] : f = [c.kinsptr EXCEPT ![k] = w]
  BY <1>1, <1>3
<1>6. PICK m \in SUBSET Note : m = c.m_sust \ {n}
  BY <1>1
<1>7. d = [c EXCEPT !.kinsptr = f, !.m_sust = m, !.ksuscnt = s]
  BY <1>1, <1>2, <1>4, <1>5, <1>6 DEF XTurnoff
<1>8. d.kinsptr = f /\ d.m_sust = m /\ d.ksuscnt = s /\ d.sustaining = c.sustaining
      /\ d = [kinsptr |-> f, m_sust |-> m, ksuscnt |-> s, sustaining |-> c.sustaining]
  BY <1>1, <1>7
<1>9. d \in Channel
  BY <1>1, <1>8 DEF Channel
<1>10. IsFiniteSet(m) /\ s = Cardinality(m)
  <2>1. CASE n \in c.m_sust
    <3>1. IsFiniteSet(m) /\ Cardinality(m) = Cardinality(c.m_sust) - 1 /\ Cardinality(c.m_sust) \in Nat
      BY <1>0, <1>6, <2>1, FS_RemoveElement, FS_CardinalityType
    <3>2. Cardinality(m) \in Nat
      BY <3>1, FS_CardinalityType
    <3>. QED
      BY <1>0, <1>4, <2>1, <3>1, <3>2
  <2>2. CASE n \notin c.m_sust
    <3>1. m = c.m_sust
      BY <1>6, <2>2
    <3>. QED
      BY <1>0, <1>4, <2>2, <3>1
  <2>. QED
    BY <2>1, <2>2
<1>. QED
  BY <1>0, <1>1, <1>3, <1>5, <1>6, <1>8, <1>9, <1>10 DEF WellKept, TurnedOff

\* A note-off finds no note on its way: it ends or marks one, or there is none.
LEMMA NoteOffNotes == ASSUME IInv, NInv, NoteOff PROVE NInv'
<1>1. PICK k \in Key : perf.msg = Off(k)
  BY MsgKinds DEF NoteOff, MayAct, NInv, NoteTypes
<1>2. /\ UNCHANGED <<allocQueue, worker, input>> /\ perf.pc = "sensed" /\ perf'.pc = "midi" /\ perf'.msg = NoMessage
      /\ midi = 0 /\ perf.msg.key = k
  BY <1>1, MsgFacts DEF NoteOff, MayAct, PerfAt, Acted, midi_ready
<1>3. /\ chn \in Channel /\ \A l \in Key : chn.kinsptr[l] \in Seq({l} \X (1..MaxOns))
      /\ IsFiniteSet(chn.m_sust) /\ chn.ksuscnt = Cardinality(chn.m_sust)
      /\ ~chn.sustaining => chn.m_sust = {}
      /\ NoteTypes
  BY DEF NInv, NoteTypes, SustainInv
<1>4. PICK list \in Seq({k} \X (1..MaxOns)) : list = chn.kinsptr[k]
  BY <1>3
<1>5. PICK unmarked \in Seq({k} \X (1..MaxOns)) :
          unmarked = Without(list, chn.m_sust) /\ Elements(unmarked) = Elements(list) \ chn.m_sust
  BY WithoutElements
<1>6. chn' = IF list = <<>> THEN chn
             ELSE IF ~chn.sustaining THEN XTurnoff(chn, k, list[1])
             ELSE IF unmarked = <<>> THEN chn
             ELSE [chn EXCEPT !.m_sust = @ \cup {unmarked[1]}, !.ksuscnt = @ + 1]
  BY <1>2, <1>4, <1>5 DEF NoteOff
<1>7. /\ \A l \in Key, n \in 1..MaxOns : Midi(l, n) \notin Elements(queue)
      /\ \A l \in Key, n \in 1..MaxOns : ~(worker.pc = "insert" /\ worker.data = Midi(l, n))
  <2>1. queue \in Seq(Request) /\ Cardinality(MidiAt(queue)) \in Nat /\ Handled \in {0, 1}
        /\ 0 = Cardinality(MidiAt(queue)) + Handled
    BY <1>2, NoMidiQueued DEF NInv, NoteTypes, CountInv, Handled
  <2>2. Cardinality(MidiAt(queue)) = 0 /\ Handled = 0
    BY <2>1
  <2>3. \A r \in Elements(queue) : r.type # "midi"
    BY <2>1, <2>2, NoMidiQueued
  <2>4. ~(worker.pc = "insert" /\ worker.data.type = "midi")
    BY <2>2 DEF Handled
  <2>. QED
    BY <2>3, <2>4, MidiFacts
<1>8. Live(k) = {n \in 1..MaxOns : <<k, n>> \in Elements(list) \ chn.m_sust}
  BY <1>1, <1>4, <1>7, MsgFacts DEF Live
<1>9. /\ \A l \in Key \ {k} : Owed(l)' = Owed(l) /\ Owed(l) \in Int
      /\ Owed(k)' = Owed(k) - 1 /\ Owed(k) \in Int /\ Owed(k)' >= 0
  <2>1. \A l \in Key : Owed(l) \in Int
    BY <1>3, OwedType
  <2>2. \A l \in Key : Off(l) # NoMessage /\ (l # k => perf.msg # Off(l))
    <3>. TAKE l \in Key
    <3>1. Off(l) # NoMessage /\ (Off(k) = Off(l) => k = l)
      BY MsgFacts
    <3>. QED
      BY <1>1, <3>1
  <2>3. \A l \in Key : /\ input'.on[l] = input.on[l] /\ input'.off[l] = input.off[l]
                       /\ input.on[l] \in Int /\ input.off[l] \in Int /\ input.off[l] <= input.on[l]
    <3>1. MaxOns \in Nat
      BY SizesAssumption
    <3>2. input.on \in [Key -> 0..MaxOns] /\ input.off \in [Key -> 0..MaxOns] /\ input' = input
      BY <1>2, <1>3 DEF NoteTypes
    <3>3. \A l \in Key : input.off[l] <= input.on[l]
      BY DEF NInv, PostInv
    <3>. QED
      BY <3>1, <3>2, <3>3
  <2>. QED
    BY <1>1, <1>2, <2>1, <2>2, <2>3 DEF Owed
<1>10. ASSUME chn' = chn, Elements(list) \ chn.m_sust = {} PROVE NInv'
  <2>1. ASSUME NEW l \in Key, BoundInv(l) PROVE BoundInv(l)'
    <3>1. Live(l)' \subseteq Live(l)
      BY <1>2, <1>10, ChannelLive
    <3>2. CASE l = k
      <4>1. Live(k)' = {}
        BY <1>8, <1>10, <3>1, <3>2
      <4>2. Cardinality(Live(k)') = 0
        BY <4>1, LiveFiniteNext
      <4>3. Cardinality(Live(k)') <= Owed(k)'
        BY <1>9, <4>2
      <4>. QED
        BY <3>2, <4>3 DEF BoundInv
    <3>3. CASE l # k
      BY <1>9, <2>1, <3>1, <3>3, LiveKeeps
    <3>. QED
      BY <3>2, <3>3
  <2>2. SustainInv'
    BY <1>10 DEF NInv, SustainInv
  <2>3. allocated => \A l \in Key : BoundInv(l)'
    BY <2>1 DEF NInv
  <2>. QED
    BY <1>2, <1>3, <1>10, <2>2, <2>3, ChannelKeeps DEF PerfPc
<1>11. ASSUME NEW n \in 1..MaxOns, <<k, n>> \in Elements(list) \ chn.m_sust,
              chn' \in Channel, \A l \in Key : chn'.kinsptr[l] \in Seq({l} \X (1..MaxOns)), SustainInv',
              Elements(chn'.kinsptr[k]) \ chn'.m_sust \subseteq (Elements(list) \ chn.m_sust) \ {<<k, n>>},
              \A l \in Key \ {k} : Elements(chn'.kinsptr[l]) \ chn'.m_sust \subseteq Elements(chn.kinsptr[l]) \ chn.m_sust
       PROVE  NInv'
  <2>1. ASSUME NEW l \in Key, BoundInv(l) PROVE BoundInv(l)'
    <3>0. Elements(chn'.kinsptr[l]) \ chn'.m_sust \subseteq Elements(chn.kinsptr[l]) \ chn.m_sust
      BY <1>4, <1>11
    <3>1. Live(l)' \subseteq Live(l)
      BY <1>2, <3>0, ChannelLive
    <3>2. CASE l = k
      <4>1. n \in Live(k)
        BY <1>8, <1>11
      <4>2. n \notin Live(k)'
        <5>1. Midi(k, n) \notin Elements(queue') /\ ~(worker'.pc = "insert" /\ worker'.data = Midi(k, n))
          BY <1>2, <1>7 DEF allocQueue
        <5>2. perf'.msg # On(k)
          BY <1>2, MsgFacts
        <5>. QED
          BY <1>11, <5>1, <5>2 DEF Live
      <4>3. Live(k)' \subseteq Live(k) \ {n}
        BY <3>1, <3>2, <4>2
      <4>. QED
        BY <1>9, <2>1, <3>2, <4>1, <4>3, LiveEnds
    <3>3. CASE l # k
      BY <1>9, <2>1, <3>1, <3>3, LiveKeeps
    <3>. QED
      BY <3>2, <3>3
  <2>3. allocated => \A l \in Key : BoundInv(l)'
    BY <2>1 DEF NInv
  <2>. QED
    BY <1>2, <1>11, <2>3, ChannelKeeps DEF PerfPc
<1>12. CASE list = <<>>
  BY <1>6, <1>10, <1>12 DEF Elements
<1>13. CASE list # <<>> /\ ~chn.sustaining
  <2>1. Len(list) \in Nat /\ Len(list) > 0
    BY <1>13, LenProperties, EmptySeq
  <2>2. list[1] \in Elements(list) /\ list[1] \in {k} \X (1..MaxOns)
    BY <2>1, ElementOfSeq DEF Elements
  <2>3. PICK n \in 1..MaxOns : list[1] = <<k, n>>
    BY <2>2
  <2>4. <<k, n>> \in Note
    BY DEF Note
  <2>5. chn' = XTurnoff(chn, k, <<k, n>>) /\ chn.m_sust = {}
    BY <1>3, <1>6, <1>13, <2>3
  <2>6. /\ chn' \in Channel /\ chn'.sustaining = chn.sustaining /\ chn'.m_sust = chn.m_sust \ {<<k, n>>}
        /\ \A l \in Key : chn'.kinsptr[l] \in Seq({l} \X (1..MaxOns))
        /\ \A l \in Key \ {k} : chn'.kinsptr[l] = chn.kinsptr[l]
        /\ Elements(chn'.kinsptr[k]) = Elements(chn.kinsptr[k]) \ {<<k, n>>}
        /\ IsFiniteSet(chn'.m_sust) /\ chn'.ksuscnt = Cardinality(chn'.m_sust)
    <3>1. PICK c, d : c = chn /\ d = chn'
      OBVIOUS
    <3>2. PICK e \in Note : e = <<k, n>>
      BY <2>4
    <3>3. WellKept(c) /\ d = XTurnoff(c, k, e)
      BY <1>3, <2>5, <3>1, <3>2 DEF WellKept
    <3>4. WellKept(d) /\ TurnedOff(c, d, k, e)
      BY <3>3, XTurnoffChannel, Zenon
    <3>. QED
      BY <3>1, <3>2, <3>4 DEF WellKept, TurnedOff
  <2>7. SustainInv'
    BY <2>5, <2>6 DEF SustainInv
  <2>. QED
    BY <1>4, <1>11, <2>2, <2>3, <2>5, <2>6, <2>7
<1>14. CASE list # <<>> /\ chn.sustaining /\ unmarked = <<>>
  BY <1>5, <1>6, <1>10, <1>14 DEF Elements
<1>15. CASE list # <<>> /\ chn.sustaining /\ unmarked # <<>>
  <2>1. Len(unmarked) \in Nat /\ Len(unmarked) > 0
    BY <1>15, LenProperties, EmptySeq
  <2>2. unmarked[1] \in Elements(unmarked) /\ unmarked[1] \in {k} \X (1..MaxOns)
    BY <2>1, ElementOfSeq DEF Elements
  <2>3. PICK n \in 1..MaxOns : unmarked[1] = <<k, n>>
    BY <2>2
  <2>4. <<k, n>> \in Note /\ <<k, n>> \in Elements(list) \ chn.m_sust
    BY <1>5, <2>2, <2>3 DEF Note
  <2>5. PICK m : m = chn.m_sust \cup {<<k, n>>}
    OBVIOUS
  <2>6. IsFiniteSet(m) /\ Cardinality(m) = chn.ksuscnt + 1
    BY <1>3, <2>4, <2>5, FS_AddElement
  <2>7. chn' = [chn EXCEPT !.m_sust = m, !.ksuscnt = chn.ksuscnt + 1]
    BY <1>3, <1>6, <1>15, <2>3, <2>5 DEF Channel
  <2>8. /\ DOMAIN chn = {"kinsptr", "m_sust", "ksuscnt", "sustaining"} /\ chn.kinsptr \in [Key -> Seq(Note)]
        /\ chn.m_sust \in SUBSET Note /\ chn.ksuscnt + 1 \in Int /\ chn.sustaining = TRUE
    BY <1>3, <1>15 DEF Channel
  <2>9. /\ chn' = [kinsptr |-> chn.kinsptr, m_sust |-> m, ksuscnt |-> chn.ksuscnt + 1, sustaining |-> TRUE]
    BY <2>7, <2>8
  <2>10. /\ chn' \in Channel /\ chn'.kinsptr = chn.kinsptr /\ chn'.m_sust = m
         /\ chn'.ksuscnt = chn.ksuscnt + 1 /\ chn'.sustaining = TRUE
    <3>1. m \in SUBSET Note
      BY <2>4, <2>5, <2>8
    <3>. QED
      BY <2>8, <2>9, <3>1 DEF Channel
  <2>11. SustainInv'
    BY <2>6, <2>10 DEF SustainInv
  <2>12. \A l \in Key : Elements(chn'.kinsptr[l]) = Elements(chn.kinsptr[l])
    BY <2>10
  <2>. QED
    BY <1>3, <1>4, <1>11, <2>4, <2>5, <2>10, <2>11, <2>12
<1>. QED
  BY <1>12, <1>13, <1>14, <1>15

-----------------------------------------------------------------------------
\* Fewer notes are live, and no note-off is taken: the bound stays.
LEMMA FewerLive ==
    ASSUME NInv, UNCHANGED <<allocQueue, worker, input>>,
           perf.pc # "posting midi", perf'.pc \in PerfPc \ {"posting midi"},
           perf'.msg = perf.msg \/ (perf'.msg = NoMessage /\ \A k \in Key : perf.msg # Off(k)),
           WellKept(chn'), ~chn'.sustaining => chn'.m_sust = {},
           \A k \in Key : Elements(chn'.kinsptr[k]) \ chn'.m_sust \subseteq Elements(chn.kinsptr[k]) \ chn.m_sust
    PROVE  NInv'
<1>1. SustainInv' /\ chn' \in Channel /\ \A k \in Key : chn'.kinsptr[k] \in Seq({k} \X (1..MaxOns))
  BY DEF WellKept, SustainInv
<1>2. perf'.msg \in {perf.msg, NoMessage}
  OBVIOUS
<1>3. ASSUME NEW k \in Key, BoundInv(k) PROVE BoundInv(k)'
  <2>1. Live(k)' \subseteq Live(k)
    BY <1>2, ChannelLive
  <2>2. perf'.msg = Off(k) <=> perf.msg = Off(k)
    BY MsgFacts
  <2>3. Owed(k)' = Owed(k) /\ Owed(k) \in Int
    BY <2>2, OwedType DEF Owed, NInv
  <2>. QED
    BY <1>3, <2>1, <2>3, LiveKeeps
<1>4. allocated => \A k \in Key : BoundInv(k)'
  BY <1>3 DEF NInv
<1>. QED
  BY <1>1, <1>2, <1>4, ChannelKeeps

\* The pedal ends the notes that are marked, and no others.
LEMMA PedalNotes == ASSUME NInv, PedalDown \/ PedalUp PROVE NInv'
<1>1. /\ UNCHANGED <<allocQueue, worker, input>> /\ perf.pc = "sensed" /\ perf'.pc = "midi" /\ perf'.msg = NoMessage
      /\ perf.msg.type \in {"pedal down", "pedal up"}
  <2>1. /\ UNCHANGED <<allocQueue, worker, input>> /\ Acted
        /\ MayAct("pedal down") \/ MayAct("pedal up")
    BY Zenon DEF PedalDown, PedalUp
  <2>2. perf' = [pc |-> "midi", msg |-> NoMessage]
    BY <2>1 DEF Acted
  <2>3. perf.pc = "sensed" /\ perf.msg.type \in {"pedal down", "pedal up"}
    BY <2>1 DEF MayAct, PerfAt
  <2>. QED
    BY <2>1, <2>2, <2>3
<1>2. \A k \in Key : perf.msg # Off(k)
  <2>. TAKE k \in Key
  <2>1. Off(k).type = "off"
    BY MsgFacts
  <2>. QED
    BY <1>1, <2>1
<1>3. "midi" \in PerfPc \ {"posting midi"}
  BY DEF PerfPc
<1>4. /\ chn \in Channel /\ IsFiniteSet(chn.m_sust) /\ chn.ksuscnt = Cardinality(chn.m_sust)
      /\ \A l \in Key : chn.kinsptr[l] \in Seq({l} \X (1..MaxOns)) /\ chn.kinsptr[l] \in Seq(Note)
      /\ ~chn.sustaining => chn.m_sust = {}
      /\ DOMAIN chn = {"kinsptr", "m_sust", "ksuscnt", "sustaining"} /\ DOMAIN chn.kinsptr = Key
      /\ chn.kinsptr \in [Key -> Seq(Note)] /\ chn.m_sust \in SUBSET Note
  BY DEF NInv, NoteTypes, SustainInv, Channel
<1>5. ASSUME WellKept(chn'), ~chn'.sustaining => chn'.m_sust = {},
             \A k \in Key : Elements(chn'.kinsptr[k]) \ chn'.m_sust \subseteq Elements(chn.kinsptr[k]) \ chn.m_sust
      PROVE  NInv'
  BY <1>1, <1>2, <1>3, <1>5, FewerLive
<1>6. CASE chn' = chn
  <2>1. WellKept(chn') /\ (~chn'.sustaining => chn'.m_sust = {})
    BY <1>4, <1>6 DEF WellKept
  <2>. QED
    BY <1>5, <1>6, <2>1
<1>7. CASE chn' = [chn EXCEPT !.sustaining = TRUE]
  <2>1. /\ chn'.kinsptr = chn.kinsptr /\ chn'.m_sust = chn.m_sust /\ chn'.ksuscnt = chn.ksuscnt
        /\ chn'.sustaining = TRUE /\ chn' \in Channel
    BY <1>4, <1>7 DEF Channel
  <2>2. WellKept(chn')
    BY <1>4, <2>1 DEF WellKept
  <2>. QED
    BY <1>5, <2>1, <2>2
<1>8. CASE chn.ksuscnt <= 0 /\ chn' = [chn EXCEPT !.sustaining = FALSE, !.ksuscnt = 0]
  <2>1. Cardinality(chn.m_sust) \in Nat /\ (Cardinality(chn.m_sust) = 0 <=> chn.m_sust = {})
    BY <1>4, FS_CardinalityType, FS_EmptySet
  <2>2. chn.m_sust = {} /\ Cardinality(chn.m_sust) = 0
    BY <1>4, <1>8, <2>1
  <2>3. /\ chn'.kinsptr = chn.kinsptr /\ chn'.m_sust = chn.m_sust /\ chn'.ksuscnt = 0
        /\ chn'.sustaining = FALSE /\ chn' \in Channel
    <3>1. chn' = [kinsptr |-> chn.kinsptr, m_sust |-> chn.m_sust, ksuscnt |-> 0, sustaining |-> FALSE]
      BY <1>4, <1>8
    <3>. QED
      BY <1>4, <3>1 DEF Channel
  <2>4. WellKept(chn')
    BY <1>4, <2>2, <2>3 DEF WellKept
  <2>. QED
    BY <1>5, <2>2, <2>3, <2>4
<1>9. CASE chn' = [kinsptr |-> [k \in Key |-> Without(chn.kinsptr[k], chn.m_sust)],
                   m_sust |-> {}, ksuscnt |-> 0, sustaining |-> FALSE]
  <2>1. chn'.kinsptr = [k \in Key |-> Without(chn.kinsptr[k], chn.m_sust)] /\ chn'.m_sust = {}
        /\ chn'.ksuscnt = 0 /\ chn'.sustaining = FALSE
    BY <1>9
  <2>2. ASSUME NEW k \in Key
        PROVE  /\ chn'.kinsptr[k] \in Seq({k} \X (1..MaxOns)) /\ chn'.kinsptr[k] \in Seq(Note)
               /\ Elements(chn'.kinsptr[k]) = Elements(chn.kinsptr[k]) \ chn.m_sust
    <3>1. PICK s, g : s = chn.kinsptr[k] /\ g = chn.m_sust
      OBVIOUS
    <3>2. s \in Seq({k} \X (1..MaxOns)) /\ s \in Seq(Note)
      BY <1>4, <3>1
    <3>3. /\ Without(s, g) \in Seq({k} \X (1..MaxOns)) /\ Without(s, g) \in Seq(Note)
          /\ Elements(Without(s, g)) = Elements(s) \ g
      BY <3>2, WithoutElements
    <3>4. chn'.kinsptr[k] = Without(s, g)
      BY <2>1, <3>1
    <3>. QED
      BY <3>1, <3>3, <3>4
  <2>3. PICK f \in [Key -> Seq(Note)] : f = chn'.kinsptr
    BY <2>1, <2>2
  <2>4. chn' = [kinsptr |-> f, m_sust |-> {}, ksuscnt |-> 0, sustaining |-> FALSE]
    BY <1>9, <2>1, <2>3
  <2>5. chn' \in Channel
    BY <2>4 DEF Channel
  <2>6. WellKept(chn')
    BY <2>1, <2>2, <2>5, FS_EmptySet DEF WellKept
  <2>. QED
    BY <1>5, <2>1, <2>2, <2>6
<1>. QED
  BY <1>6, <1>7, <1>8, <1>9 DEF PedalDown, PedalUp

\* An opcode may end any note.
LEMMA OpTurnoffNotes == ASSUME NInv, NEW n \in Note, OpTurnoff(n) PROVE NInv'
<1>1. PICK k \in Key : n[1] = k /\ \A l \in Key : n \in {l} \X (1..MaxOns) => l = k
  BY DEF Note
<1>2. UNCHANGED <<allocQueue, worker, input, perf>> /\ perf.pc = "play"
  BY DEF OpTurnoff, PerfAt
<1>3. PICK c, d : c = chn /\ d = chn'
  OBVIOUS
<1>4. WellKept(c) /\ (~c.sustaining => c.m_sust = {})
  BY <1>3 DEF NInv, NoteTypes, SustainInv, WellKept
<1>5. d = XTurnoff(c, k, n)
  BY <1>1, <1>3 DEF OpTurnoff
<1>6. WellKept(d) /\ TurnedOff(c, d, k, n)
  BY <1>4, <1>5, XTurnoffChannel, Zenon
<1>7. ~d.sustaining => d.m_sust = {}
  BY <1>4, <1>6 DEF TurnedOff
<1>8. ASSUME NEW l \in Key PROVE Elements(d.kinsptr[l]) \ d.m_sust \subseteq Elements(c.kinsptr[l]) \ c.m_sust
  <2>1. CASE l = k
    BY <1>6, <2>1 DEF TurnedOff
  <2>2. CASE l # k
    <3>1. PICK s \in Seq({l} \X (1..MaxOns)) : s = c.kinsptr[l]
      BY <1>4 DEF WellKept
    <3>2. \A e \in Elements(s) : e \in {l} \X (1..MaxOns)
      BY ElementOfSeq DEF Elements
    <3>3. n \notin Elements(s)
      BY <1>1, <2>2, <3>2
    <3>4. d.kinsptr[l] = s /\ d.m_sust = c.m_sust \ {n}
      BY <1>6, <2>2, <3>1 DEF TurnedOff
    <3>. QED
      BY <3>1, <3>3, <3>4
  <2>. QED
    BY <2>1, <2>2
<1>9. "play" \in PerfPc \ {"posting midi"}
  BY DEF PerfPc
<1>. QED
  BY <1>2, <1>3, <1>6, <1>7, <1>8, <1>9, FewerLive

-----------------------------------------------------------------------------
\* The event thread takes a request: its note is on its way still.
LEMMA DequeueNotes == ASSUME IInv, NInv, Dequeue PROVE NInv'
<1>1. /\ worker.pc = "poll" /\ queue # <<>> /\ worker'.pc = "insert" /\ worker'.data = Head(queue)
      /\ queue' = Tail(queue) /\ UNCHANGED <<allocated, midi, post, perf, chn, input>>
  BY DEF Dequeue, engine, IInv, Fields
<1>2. PICK q \in Seq(Request) : q = queue
  BY DEF NInv, NoteTypes
<1>3. /\ Tail(q) \in Seq(Request) /\ Head(q) \in Request /\ Elements(q) = Elements(Tail(q)) \cup {Head(q)}
      /\ Cardinality(MidiAt(q)) = Cardinality(MidiAt(Tail(q))) + Notes(Head(q))
  BY <1>1, <1>2, TakeRequest
<1>4. PICK t \in Seq(Request), h \in Request :
          /\ queue' = t /\ worker'.data = h /\ Elements(q) = Elements(t) \cup {h}
          /\ Cardinality(MidiAt(q)) = Cardinality(MidiAt(t)) + Notes(h)
  BY <1>1, <1>2, <1>3
<1>5. NoteTypes'
  BY <1>1, <1>4 DEF NInv, NoteTypes
<1>6. PostInv' /\ SustainInv'
  BY <1>1 DEF NInv, PostInv, SustainInv
<1>7. CountInv'
  <2>1. Handled = 0
    BY <1>1 DEF Handled
  <2>2. Handled' = Notes(h)
    BY <1>1, <1>4 DEF Handled, Notes
  <2>3. Notes(h) \in {0, 1} /\ Cardinality(MidiAt(t)) \in Nat
    BY NotesOf, NoMidiQueued
  <2>4. midi = Cardinality(MidiAt(q))
    BY <1>2, <1>4, <2>1, <2>3 DEF NInv, CountInv
  <2>. QED
    BY <1>1, <1>4, <2>2, <2>4 DEF CountInv
<1>8. ASSUME NEW k \in Key, BoundInv(k) PROVE BoundInv(k)'
  <2>1. Live(k)' \subseteq Live(k)
    BY <1>1, <1>2, <1>4 DEF Live
  <2>2. Owed(k)' = Owed(k) /\ Owed(k) \in Int
    BY <1>1, OwedType DEF Owed, NInv
  <2>. QED
    BY <1>8, <2>1, <2>2, LiveKeeps
<1>. QED
  BY <1>1, <1>5, <1>6, <1>7, <1>8 DEF NInv

\* A note joins the list of its key.
LEMMA AppendNote ==
    ASSUME NEW S, NEW q \in Seq(S), NEW r \in S
    PROVE  Append(q, r) \in Seq(S) /\ Elements(Append(q, r)) = Elements(q) \cup {r}
<1>1. /\ Append(q, r) \in Seq(S) /\ Len(Append(q, r)) = Len(q) + 1 /\ Len(q) \in Nat
      /\ \A j \in 1..Len(q) : Append(q, r)[j] = q[j]
      /\ Append(q, r)[Len(q) + 1] = r
  BY AppendProperties, LenProperties
<1>. QED
  BY <1>1 DEF Elements

\* The note that is initialised was live before: the bound stays.
LEMMA InsertNotes == ASSUME IInv, NInv, NEW success \in BOOLEAN, Insert(success) PROVE NInv'
<1>1. /\ worker.pc = "insert" /\ worker'.pc = "complete" /\ worker'.data = worker.data
      /\ UNCHANGED <<queue, allocated, midi, post, perf, input>>
  BY DEF Insert, WorkerGoes, allocQueue, IInv, Fields
<1>2. NoteTypes /\ PostInv /\ CountInv /\ SustainInv
  BY DEF NInv
<1>3. CountInv'
  BY <1>1, <1>2 DEF CountInv, Handled
<1>4. PostInv'
  BY <1>1, <1>2 DEF PostInv
<1>5. ASSUME NEW k \in Key PROVE Owed(k)' = Owed(k) /\ Owed(k) \in Int
  BY <1>1, <1>2, OwedType DEF Owed
<1>6. CASE chn' = chn
  <2>1. NoteTypes' /\ SustainInv'
    BY <1>1, <1>2, <1>6 DEF NoteTypes, SustainInv
  <2>2. ASSUME NEW k \in Key, BoundInv(k) PROVE BoundInv(k)'
    <3>1. Live(k)' \subseteq Live(k)
      BY <1>1, <1>6 DEF Live
    <3>. QED
      BY <1>5, <2>2, <3>1, LiveKeeps
  <2>. QED
    BY <1>1, <1>3, <1>4, <2>1, <2>2 DEF NInv
<1>7. CASE chn' # chn
  <2>1. worker.data.type = "midi"
    BY <1>7 DEF Insert
  <2>2. PICK k \in Key, n \in 1..MaxOns : worker.data = Midi(k, n)
    BY <1>2, <2>1, MidiFacts DEF NoteTypes
  <2>3. PICK e : e = <<k, n>>
    OBVIOUS
  <2>4. e \in Note /\ e \in {k} \X (1..MaxOns) /\ e[1] = k /\ worker.data.note = e
    BY <2>2, <2>3 DEF Note, Midi
  <2>5. chn' = [chn EXCEPT !.kinsptr[k] = Append(@, e)]
    BY <1>7, <2>4 DEF Insert
  <2>6. /\ chn.kinsptr \in [Key -> Seq(Note)] /\ chn.m_sust \in SUBSET Note /\ chn.ksuscnt \in Int
        /\ chn.sustaining \in BOOLEAN /\ DOMAIN chn = {"kinsptr", "m_sust", "ksuscnt", "sustaining"}
        /\ \A l \in Key : chn.kinsptr[l] \in Seq({l} \X (1..MaxOns)) /\ chn.kinsptr[l] \in Seq(Note)
    BY <1>2 DEF NoteTypes, Channel
  <2>7. PICK s : s = chn.kinsptr[k]
    OBVIOUS
  <2>8. s \in Seq({k} \X (1..MaxOns)) /\ s \in Seq(Note)
    BY <2>6, <2>7
  <2>9. /\ Append(s, e) \in Seq({k} \X (1..MaxOns)) /\ Append(s, e) \in Seq(Note)
        /\ Elements(Append(s, e)) = Elements(s) \cup {e}
    BY <2>4, <2>8, AppendNote
  <2>10. PICK w : w = Append(s, e)
    OBVIOUS
  <2>11. PICK f : f = [chn.kinsptr EXCEPT ![k] = w]
    OBVIOUS
  <2>12. chn' = [chn EXCEPT !.kinsptr = f]
    BY <2>5, <2>6, <2>7, <2>10, <2>11
  <2>13. /\ f \in [Key -> Seq(Note)] /\ f[k] = w
         /\ \A l \in Key \ {k} : f[l] = chn.kinsptr[l]
    BY <2>6, <2>9, <2>10, <2>11
  <2>14. /\ chn' = [kinsptr |-> f, m_sust |-> chn.m_sust, ksuscnt |-> chn.ksuscnt, sustaining |-> chn.sustaining]
    BY <2>6, <2>12
  <2>15. /\ chn'.kinsptr = f /\ chn'.m_sust = chn.m_sust /\ chn'.ksuscnt = chn.ksuscnt
         /\ chn'.sustaining = chn.sustaining /\ chn' \in Channel
    BY <2>6, <2>13, <2>14 DEF Channel
  <2>16. \A l \in Key : chn'.kinsptr[l] \in Seq({l} \X (1..MaxOns))
    BY <2>6, <2>9, <2>10, <2>13, <2>15
  <2>17. NoteTypes'
    BY <1>1, <1>2, <2>15, <2>16 DEF NoteTypes
  <2>18. SustainInv'
    BY <1>2, <2>15 DEF SustainInv
  <2>19. ASSUME NEW l \in Key, BoundInv(l) PROVE BoundInv(l)'
    <3>1. CASE l = k
      <4>1. n \in Live(k)
        BY <1>1, <2>2 DEF Live
      <4>2. Elements(chn'.kinsptr[k]) = Elements(chn.kinsptr[k]) \cup {<<k, n>>}
        BY <2>3, <2>7, <2>9, <2>10, <2>13, <2>15
      <4>3. \A m : <<k, m>> = <<k, n>> => m = n
        OBVIOUS
      <4>4. Live(k)' \subseteq Live(k)
        BY <1>1, <2>15, <4>1, <4>2, <4>3 DEF Live
      <4>. QED
        BY <1>5, <2>19, <3>1, <4>4, LiveKeeps
    <3>2. CASE l # k
      <4>1. chn'.kinsptr[l] = chn.kinsptr[l]
        BY <2>13, <2>15, <3>2
      <4>2. Live(l)' \subseteq Live(l)
        BY <1>1, <2>15, <4>1 DEF Live
      <4>. QED
        BY <1>5, <2>19, <4>2, LiveKeeps
    <3>. QED
      BY <3>1, <3>2
  <2>. QED
    BY <1>1, <1>3, <1>4, <2>17, <2>18, <2>19 DEF NInv
<1>. QED
  BY <1>6, <1>7

\* The request is taken off the count once it is initialised.
LEMMA CompleteNotes == ASSUME IInv, NInv, Complete PROVE NInv'
<1>1. /\ worker.pc = "complete" /\ worker'.pc = "poll" /\ worker'.data = Refused
      /\ UNCHANGED <<queue, allocated, post, perf, chn, input>> /\ midi' = midi - Notes(worker.data)
  BY DEF Complete, Notes, engine, IInv, Fields
<1>2. PICK c \in Nat, h \in {0, 1} : c = Cardinality(MidiAt(queue)) /\ h = Notes(worker.data)
  BY NotesOf, NoMidiQueued DEF NInv, NoteTypes
<1>3. Handled = h /\ Handled' = 0
  BY <1>1, <1>2 DEF Handled, Notes
<1>4. midi = c + h
  BY <1>2, <1>3 DEF NInv, CountInv
<1>5. midi' = c
  BY <1>1, <1>2, <1>4
<1>6. NoteTypes'
  <2>1. midi' \in Int /\ Refused \in Request
    BY <1>5, OtherFacts
  <2>. QED
    BY <1>1, <2>1 DEF NInv, NoteTypes
<1>7. PostInv' /\ SustainInv'
  BY <1>1 DEF NInv, PostInv, SustainInv
<1>8. CountInv'
  BY <1>1, <1>2, <1>3, <1>5 DEF CountInv
<1>9. ASSUME NEW k \in Key, BoundInv(k) PROVE BoundInv(k)'
  <2>1. Live(k)' \subseteq Live(k)
    BY <1>1 DEF Live
  <2>2. Owed(k)' = Owed(k) /\ Owed(k) \in Int
    BY <1>1, OwedType DEF Owed, NInv
  <2>. QED
    BY <1>9, <2>1, <2>2, LiveKeeps
<1>. QED
  BY <1>1, <1>6, <1>7, <1>8, <1>9 DEF NInv

\* The queue is freed when the event thread has gone.
LEMMA FreeNotes == ASSUME IInv, NInv, FreeQueue PROVE NInv'
<1>1. /\ perf.pc = "free" /\ worker.pc = "gone" /\ perf'.pc = "stopped" /\ perf'.msg = NoMessage
      /\ allocated' = FALSE /\ queue' = <<>> /\ midi' = 0 /\ UNCHANGED <<post, worker, chn, input>>
  BY DEF FreeQueue, PerfAt, engine, IInv, StopInv
<1>2. queue' \in Seq(Request) /\ MidiAt(queue') = {}
  BY <1>1, EmptySeq DEF MidiAt
<1>3. NoteTypes'
  <2>1. NoMessage \in MidiMsg
    BY MsgFacts
  <2>2. "stopped" \in PerfPc
    BY DEF PerfPc
  <2>3. NoteTypes /\ 0 \in Int
    BY DEF NInv
  <2>. QED
    BY <1>1, <1>2, <2>1, <2>2, <2>3 DEF NoteTypes
<1>4. PostInv'
  <2>1. post'["perf"].type # "midi"
    BY <1>1 DEF NInv, PostInv
  <2>2. \A k \in Key : perf'.msg # On(k)
    BY <1>1, MsgFacts
  <2>. QED
    BY <1>1, <2>1, <2>2 DEF NInv, PostInv
<1>5. CountInv' /\ SustainInv'
  <2>1. Cardinality(MidiAt(queue')) = 0
    BY <1>2, FS_EmptySet
  <2>2. Handled' = 0
    BY <1>1 DEF Handled
  <2>. QED
    BY <1>1, <2>1, <2>2 DEF NInv, CountInv, SustainInv
<1>. QED
  BY <1>1, <1>3, <1>4, <1>5 DEF NInv

-----------------------------------------------------------------------------
\* Where the performance thread moves on and no note is concerned.
LEMMA MovesNotes ==
    ASSUME NInv, IInv, NEW pc \in PerfPc \ {"posting midi"}, PerfGoes(pc), perf.pc # "posting midi",
           UNCHANGED <<queue, midi, post, chn, allocated, worker, input>>
    PROVE  NInv'
<1>1. perf'.msg = perf.msg /\ perf'.pc = pc
  BY DEF PerfGoes, IInv, Fields
<1>2. DOMAIN input' = {"on", "off", "score", "merges", "logs"} /\ input'.score \in Nat
  BY DEF NInv, NoteTypes
<1>3. Handled' = Handled
  BY DEF Handled
<1>. QED
  BY <1>1, <1>2, <1>3, OthersKeep

\* Steps that leave notes and the performance thread alone.
LEMMA OtherThreads ==
    ASSUME NInv, UNCHANGED <<queue, midi, post, chn, allocated, perf>>,
           worker'.data = worker.data, worker'.pc = "insert" => worker.pc = "insert", Handled' = Handled,
           DOMAIN input' = DOMAIN input, input'.score = input.score,
           input'.on = input.on, input'.off = input.off
    PROVE  NInv'
<1>1. DOMAIN input' = {"on", "off", "score", "merges", "logs"} /\ input'.score \in Nat /\ perf'.pc \in PerfPc
  BY DEF NInv, NoteTypes
<1>. QED
  BY <1>1, OthersKeep

\* The performance thread posts a note of the score ...
LEMMA PostScoreNotes == ASSUME IInv, NInv, PostScore PROVE NInv'
<1>1. /\ perf.pc = "score" /\ Admit("perf", Score(input.score + 1)) /\ UNCHANGED <<chn, worker>>
      /\ perf'.pc = "posting score" /\ perf'.msg = perf.msg
  BY DEF PostScore, PerfAt, PerfGoes, engine, IInv, Fields
<1>2. /\ DOMAIN input = {"on", "off", "score", "merges", "logs"} /\ input.score \in Nat
      /\ input' = [input EXCEPT !.score = @ + 1]
  BY DEF NInv, NoteTypes, PostScore
<1>3. /\ DOMAIN input' = {"on", "off", "score", "merges", "logs"} /\ input'.score \in Nat
      /\ input'.on = input.on /\ input'.off = input.off
  BY <1>2
<1>4. PICK r \in Request : r = Score(input.score + 1) /\ r.type # "midi"
  BY <1>2, OtherFacts
<1>5. PICK p \in Producer : p = "perf"
  BY DEF Producer
<1>6. "posting score" \in PerfPc /\ Admit(p, r)
  BY <1>1, <1>4, <1>5 DEF PerfPc
<1>7. AdmitStep(p, r)
  BY <1>1, <1>3, <1>4, <1>5, <1>6 DEF AdmitStep
<1>. QED
  BY <1>7, AdmitNotes

\* ... or of MIDI, with the number of the note-on it has read last.
LEMMA NoteOnNotes == ASSUME IInv, NInv, NoteOn PROVE NInv'
<1>1. /\ perf.pc = "sensed" /\ perf.msg.type = "on" /\ UNCHANGED <<chn, worker, input>>
      /\ Admit("perf", Midi(perf.msg.key, input.on[perf.msg.key]))
      /\ perf'.pc = "posting midi" /\ perf'.msg = perf.msg
  BY DEF NoteOn, MayAct, PerfAt, PerfGoes, engine, IInv, Fields
<1>2. /\ DOMAIN input' = {"on", "off", "score", "merges", "logs"} /\ input'.score \in Nat
      /\ input'.on = input.on /\ input'.off = input.off
  BY <1>1 DEF NInv, NoteTypes
<1>3. PICK k \in Key : perf.msg = On(k)
  BY <1>1, MsgKinds DEF NInv, NoteTypes
<1>4. perf.msg.key = k
  BY <1>3, MsgFacts
<1>5. PICK n \in 1..MaxOns : n = input.on[k]
  <2>1. MaxOns \in Nat
    BY SizesAssumption
  <2>2. input.on[k] \in 0..MaxOns /\ input.on[k] > 0
    BY <1>3 DEF NInv, NoteTypes, PostInv
  <2>. QED
    BY <2>1, <2>2
<1>6. PICK r \in Request : r = Midi(k, n) /\ r.type = "midi"
  BY MidiFacts
<1>7. PICK p \in Producer : p = "perf"
  BY DEF Producer
<1>8. "posting midi" \in PerfPc /\ Admit(p, r)
  BY <1>1, <1>4, <1>5, <1>6, <1>7 DEF PerfPc
<1>9. \E l \in Key : perf.msg = On(l) /\ r = Midi(l, input.on[l])
  BY <1>3, <1>5, <1>6
<1>10. AdmitStep(p, r)
  BY <1>1, <1>2, <1>6, <1>7, <1>8, <1>9 DEF AdmitStep
<1>. QED
  BY <1>10, AdmitNotes

\* A host thread posts what it compiled.
LEMMA HostAdmitNotes == ASSUME IInv, NInv, NEW h \in Host, HostAdmit(h) PROVE NInv'
<1>1. Admit(h, Merge) /\ UNCHANGED <<chn, worker, perf>> /\ input' = [input EXCEPT !.merges = @ + 1]
  BY DEF HostAdmit, engine
<1>2. DOMAIN input = {"on", "off", "score", "merges", "logs"} /\ input.score \in Nat /\ perf.pc \in PerfPc
  BY DEF NInv, NoteTypes
<1>3. /\ DOMAIN input' = {"on", "off", "score", "merges", "logs"} /\ input'.score \in Nat
      /\ input'.on = input.on /\ input'.off = input.off
  BY <1>1, <1>2
<1>4. PICK r \in Request : r = Merge /\ r.type # "midi"
  BY OtherFacts
<1>5. PICK p \in Producer : p = h /\ p # "perf"
  BY NamesAssumption DEF Producer
<1>6. AdmitStep(p, r)
  BY <1>1, <1>2, <1>3, <1>4, <1>5 DEF AdmitStep
<1>. QED
  BY <1>6, AdmitNotes

\* What is posted is put into the queue.
LEMMA PostedNotes ==
    ASSUME IInv, NInv, PostedScore \/ NotePosted \/ \E h \in Host : HostFill(h)
    PROVE  NInv'
<1>0. "perf" \in Producer /\ {"score", "play", "midi"} \subseteq PerfPc /\ DOMAIN perf = {"pc", "msg"}
  BY DEF Producer, PerfPc, IInv, Fields
<1>1. CASE PostedScore
  <2>1. /\ perf.pc = "posting score" /\ Fill("perf") /\ UNCHANGED <<chn, worker, input>>
        /\ perf'.pc = "score" /\ perf'.msg = perf.msg
    BY <1>0, <1>1 DEF PostedScore, PerfAt, PerfGoes, engine
  <2>2. lock = "perf"
    BY <2>1 DEF IInv, LockInv
  <2>3. FillStep("perf")
    BY <1>0, <2>1, <2>2 DEF FillStep
  <2>. QED
    BY <1>0, <2>3, FillNotes
<1>2. CASE NotePosted
  <2>1. perf.pc = "posting midi" /\ Fill("perf") /\ UNCHANGED <<chn, worker, input>>
    BY <1>2 DEF NotePosted, PerfAt, engine
  <2>2. \/ perf'.pc = "play" /\ perf'.msg = perf.msg
        \/ perf'.pc = "midi" /\ perf'.msg = NoMessage
    <3>1. PerfGoes("play") \/ Acted
      BY <1>2 DEF NotePosted
    <3>2. PerfGoes("play") => perf'.pc = "play" /\ perf'.msg = perf.msg
      BY <1>0 DEF PerfGoes
    <3>3. Acted => perf'.pc = "midi" /\ perf'.msg = NoMessage
      BY DEF Acted
    <3>. QED
      BY <3>1, <3>2, <3>3
  <2>3. lock = "perf"
    BY <2>1 DEF IInv, LockInv
  <2>4. FillStep("perf")
    BY <1>0, <2>1, <2>2, <2>3 DEF FillStep
  <2>. QED
    BY <1>0, <2>4, FillNotes
<1>3. CASE \E h \in Host : HostFill(h)
  <2>1. PICK h \in Host : HostFill(h)
    BY <1>3
  <2>2. h \in Producer /\ h # "perf"
    BY NamesAssumption DEF Producer
  <2>3. lock = h /\ Fill(h) /\ UNCHANGED <<chn, worker, input, perf>> /\ perf.pc \in PerfPc
    BY <2>1 DEF HostFill, engine, NInv, NoteTypes
  <2>4. FillStep(h)
    BY <2>2, <2>3 DEF FillStep
  <2>. QED
    BY <2>2, <2>4, FillNotes
<1>. QED
  BY <1>1, <1>2, <1>3

\* The other steps of the performance thread.
LEMMA PerfNotes ==
    ASSUME IInv, NInv,
           \/ ScoreWaits \/ ScoreEnds \/ ScoreLater \/ Quit \/ Play \/ MidiEnds \/ Hold
           \/ Stop \/ StopLoop \/ Join
    PROVE  NInv'
<1>1. /\ UNCHANGED <<queue, midi, post, chn, allocated, worker, input>>
      /\ perf.pc # "posting midi"
      /\ \E pc \in {"midi", "ended", "quit", "quitting", "score", "play", "stopping", "join", "free"} : PerfGoes(pc)
  <2>1. CASE ScoreWaits \/ ScoreEnds \/ ScoreLater \/ Play \/ MidiEnds \/ Hold
    BY <2>1 DEF ScoreWaits, ScoreEnds, ScoreLater, Play, MidiEnds, Hold, PerfAt, engine, allocQueue
  <2>2. CASE Quit \/ Stop \/ StopLoop \/ Join
    BY <2>2 DEF Quit, Stop, StopLoop, Join, PerfAt, engine, allocQueue
  <2>. QED
    BY <2>1, <2>2
<1>2. PICK pc \in PerfPc \ {"posting midi"} : PerfGoes(pc)
  BY <1>1 DEF PerfPc
<1>. QED
  BY <1>1, <1>2, MovesNotes

\* The other steps of the event thread, and of the host threads.
LEMMA OtherNotes ==
    ASSUME IInv, NInv,
           \/ ReadLoop \/ CheckPending \/ PrintMessage \/ PrintEnds \/ PrintLogs
           \/ \E n \in 1..MaxScore : Expire(n)
           \/ \E h \in Host : LogLock(h) \/ LogLook(h) \/ LogCopy(h)
           \/ UNCHANGED vars
    PROVE  NInv'
<1>0. DOMAIN worker = {"pc", "data", "processed", "stopping"} /\ DOMAIN input = {"on", "off", "score", "merges", "logs"}
  BY DEF IInv, Fields, NInv, NoteTypes
<1>1. CASE ReadLoop \/ CheckPending \/ PrintEnds
  <2>1. /\ UNCHANGED <<queue, midi, post, chn, allocated, perf, input>> /\ worker'.data = worker.data
        /\ worker.pc \in {"poll", "pending", "print"} /\ worker'.pc \in {"poll", "pending", "print", "gone"}
    BY <1>0, <1>1 DEF ReadLoop, CheckPending, PrintEnds, WorkerGoes, engine, allocQueue
  <2>2. Handled' = Handled
    BY <2>1 DEF Handled
  <2>. QED
    BY <2>1, <2>2, OtherThreads
<1>2. CASE \/ PrintMessage \/ PrintLogs \/ (\E n \in 1..MaxScore : Expire(n)) \/ UNCHANGED vars
           \/ \E h \in Host : LogLook(h) \/ LogCopy(h)
  <2>1. UNCHANGED <<queue, midi, post, chn, allocated, perf, input, worker>>
    BY <1>2 DEF PrintMessage, PrintLogs, Expire, LogLook, LogCopy, vars, engine, allocQueue
  <2>2. Handled' = Handled
    BY <2>1 DEF Handled
  <2>. QED
    BY <2>1, <2>2, OtherThreads
<1>3. CASE \E h \in Host : LogLock(h)
  <2>1. UNCHANGED <<queue, midi, post, chn, allocated, perf, worker>> /\ input' = [input EXCEPT !.logs = @ + 1]
    BY <1>3 DEF LogLock, engine, allocQueue
  <2>2. /\ input'.on = input.on /\ input'.off = input.off /\ input'.score = input.score
        /\ DOMAIN input' = DOMAIN input
    BY <1>0, <2>1
  <2>3. Handled' = Handled
    BY <2>1 DEF Handled
  <2>. QED
    BY <2>1, <2>2, <2>3, OtherThreads
<1>. QED
  BY <1>1, <1>2, <1>3

\* Every step keeps the invariant of the notes.
LEMMA NextNInv == IInv /\ NInv /\ [Next]_vars => NInv'
<1>. SUFFICES ASSUME IInv, NInv, [Next]_vars PROVE NInv'
  OBVIOUS
<1>1. CASE PerfStep
  <2>1. CASE \/ ScoreWaits \/ ScoreEnds \/ ScoreLater \/ Quit \/ Play \/ MidiEnds \/ Hold
             \/ Stop \/ StopLoop \/ Join
    BY <2>1, PerfNotes
  <2>2. CASE PostScore
    BY <2>2, PostScoreNotes
  <2>3. CASE NoteOn
    BY <2>3, NoteOnNotes
  <2>4. CASE PostedScore \/ NotePosted
    BY <2>4, PostedNotes
  <2>5. CASE NoteOff
    BY <2>5, NoteOffNotes
  <2>6. CASE PedalDown \/ PedalUp
    BY <2>6, PedalNotes
  <2>7. CASE FreeQueue
    BY <2>7, FreeNotes
  <2>8. CASE \E msg \in Messages : Sense(msg)
    BY <2>8, SenseNotes
  <2>9. CASE \E n \in 1..MaxScore : Expire(n)
    BY <2>9, OtherNotes
  <2>10. CASE \E n \in Note : OpTurnoff(n)
    BY <2>10, OpTurnoffNotes
  <2>. QED
    BY <1>1, <2>1, <2>2, <2>3, <2>4, <2>5, <2>6, <2>7, <2>8, <2>9, <2>10 DEF PerfStep
<1>2. CASE WorkerStep
  <2>1. CASE Dequeue
    BY <2>1, DequeueNotes
  <2>2. CASE Complete
    BY <2>2, CompleteNotes
  <2>3. CASE \E success \in BOOLEAN : Insert(success)
    BY <2>3, InsertNotes
  <2>4. CASE ReadLoop \/ CheckPending \/ PrintMessage \/ PrintEnds
    BY <2>4, OtherNotes
  <2>. QED
    BY <1>2, <2>1, <2>2, <2>3, <2>4 DEF WorkerStep
<1>3. CASE PrintLogs \/ UNCHANGED vars
  BY <1>3, OtherNotes
<1>4. ASSUME NEW h \in Host, HostStep(h) \/ HostAdmit(h) \/ LogLock(h) PROVE NInv'
  <2>1. CASE HostFill(h)
    BY <2>1, PostedNotes
  <2>2. CASE HostAdmit(h)
    BY <2>2, HostAdmitNotes
  <2>3. CASE LogLook(h) \/ LogCopy(h) \/ LogLock(h)
    BY <2>3, OtherNotes
  <2>. QED
    BY <1>4, <2>1, <2>2, <2>3 DEF HostStep
<1>. QED
  BY <1>1, <1>2, <1>3, <1>4 DEF Next

\* NoStuckNote: when every note-on of a key has been followed by its note-off,
\* none is held back and the pedal is up, nothing of the key is owed, so no
\* note of it is live and its list is empty.
THEOREM NotesEnd == Spec => []NoStuckNote
<1>1. ASSUME NInv PROVE NoStuckNote
  <2>. SUFFICES ASSUME allocated, NEW k \in Key, input.on[k] = input.off[k], perf.msg = NoMessage, ~chn.sustaining
                PROVE  chn.kinsptr[k] = <<>>
    BY DEF NoStuckNote
  <2>1. Cardinality(Live(k)) <= Owed(k) /\ Owed(k) \in Int /\ Cardinality(Live(k)) \in Nat
        /\ (Cardinality(Live(k)) = 0 <=> Live(k) = {})
    BY <1>1, OwedType, LiveFinite DEF NInv, BoundInv
  <2>2. Owed(k) = 0
    <3>1. perf.msg # Off(k)
      BY MsgFacts
    <3>2. input.on[k] \in 0..MaxOns /\ input.off[k] \in 0..MaxOns /\ MaxOns \in Nat
      BY <1>1, SizesAssumption DEF NInv, NoteTypes
    <3>. QED
      BY <3>1, <3>2 DEF Owed
  <2>3. Live(k) = {}
    BY <2>1, <2>2
  <2>4. PICK s \in Seq({k} \X (1..MaxOns)) : s = chn.kinsptr[k]
    BY <1>1 DEF NInv, NoteTypes
  <2>5. chn.m_sust = {}
    BY <1>1 DEF NInv, SustainInv
  <2>6. \A n \in 1..MaxOns : <<k, n>> \notin Elements(s)
    BY <2>3, <2>4, <2>5 DEF Live
  <2>7. ASSUME s # <<>> PROVE FALSE
    <3>1. Len(s) \in Nat /\ Len(s) > 0
      BY <2>7, LenProperties, EmptySeq
    <3>2. s[1] \in Elements(s) /\ s[1] \in {k} \X (1..MaxOns)
      BY <3>1, ElementOfSeq DEF Elements
    <3>. QED
      BY <2>6, <3>2
  <2>. QED
    BY <2>4, <2>7
<1>. QED
  BY <1>1, InitIInv, InitNInv, NextIInv, NextNInv, PTL DEF Spec
=============================================================================
