---------------------------- MODULE EventSchedule ----------------------------
(***************************************************************************)
(* When score events and realtime events happen and when notes end:        *)
(* sense_events and insert_event_node (Engine/musmon.c), the off-time part *)
(* of insert_new, sched_off_time, set_xtratim and time_expire              *)
(* (Engine/insert.c).  Times are counted in samples, control periods have  *)
(* ksmps of them.  Beat mode and sample-accurate mode are left out, and    *)
(* so are tempo, 'a', 'f' and 'q' events.                                  *)
(*                                                                         *)
(* In realtime mode the event thread inserts a dispatched note at some     *)
(* later moment, and may hold the lock that the performance thread tries.  *)
(***************************************************************************)
EXTENDS Integers, Sequences, SequencesExt

CONSTANTS
    ksmps,
    Starts,      \* p2 of notes, in samples
    Lengths,     \* p3 of notes, in samples
    Extras,      \* xtratim of notes, in periods
    Delays,      \* when realtime events are to happen, in periods from now
    MaxNotes,    \* bound: notes of the score
    MaxRt,       \* bound: realtime events
    MaxSections, \* bound: sections
    MaxPeriods   \* bound: control periods

ASSUME TimesAssumption ==
    /\ ksmps \in Nat \ {0} /\ Starts \subseteq Nat /\ Lengths \subseteq Nat \ {0}
    /\ Extras \subseteq Nat /\ Delays \subseteq Nat /\ {MaxNotes, MaxRt, MaxSections, MaxPeriods} \subseteq Nat

VARIABLES
    realtime,         \* oparms->realtime
    icurTimeSamples,
    global_kcounter,
    cyclesRemaining,
    nxtim,
    timeOffs,
    evt,              \* the score event that waits: its kind and note
    frstoff,          \* the off-time list
    note,             \* the notes, in the order of the score
    OrcTrigEvts,      \* the realtime events: their start_kcnt
    sense             \* where sense_events is; made counts realtime events

clock == <<icurTimeSamples, global_kcounter, timeOffs>>
vars  == <<realtime, clock, cyclesRemaining, nxtim, evt, frstoff, note, OrcTrigEvts, sense>>

NoEvent == [opcod |-> "0", note |-> 0]

Init ==
    /\ realtime \in BOOLEAN
    /\ icurTimeSamples = 0 /\ global_kcounter = 0 /\ cyclesRemaining = 0
    /\ nxtim = 0 /\ timeOffs = 0
    /\ evt = NoEvent /\ frstoff = <<>> /\ note = <<>> /\ OrcTrigEvts = <<>>
    /\ sense = [pc |-> "sense", made |-> 0, section |-> 1, rtsection |-> FALSE, waited |-> FALSE]

SenseGoes(pc) == sense' = [sense EXCEPT !.pc = pc]

\* Mutant of RNDINT64: truncation instead of rounding.
RNDINT64_Truncated(n, d) == IF n >= 0 THEN n \div d ELSE -(-n \div d)

\* RNDINT64(n / d): halves away from zero
RNDINT64(n, d) == IF n >= 0 THEN (2 * n + d) \div (2 * d) ELSE -((-2 * n + d) \div (2 * d))

\* The boundary of control periods that is nearest to a time
Boundary(t) == (2 * t + ksmps) \div (2 * ksmps)

-----------------------------------------------------------------------------
(* The off-time list.                                                      *)

\* Mutant of Expired: the margin is a whole period.
Expired_Early(t) == t <= icurTimeSamples + ksmps

\* offtim <= icurTimeSamples + 0.505 * ksmps
Expired(t) == 1000 * t <= 1000 * icurTimeSamples + 505 * ksmps

\* The first of some places of a list, or the place behind its end
First(list, places) == IF places = {} THEN Len(list) + 1 ELSE Min(places)

\* sched_off_time: before the first note that ends later
Insort(list, n, notes) ==
    InsertAt(list, First(list, {i \in DOMAIN list : notes[list[i]].off > notes[n].off}), n)

\* time_expire: the notes up to the first that is not due.  Each is deactivated,
\* or enters its release stage, which lasts its xtratim periods, and is
\* scheduled anew.
Due(list, notes) ==
    SubSeq(list, 1, First(list, {i \in DOMAIN list : ~Expired(notes[list[i]].off)}) - 1)

Releases(notes, n) == notes[n].xtratim > 0 /\ notes[n].state = "on"

ExpiredNotes(list, notes) ==
    LET due == Due(list, notes) IN
    [n \in DOMAIN notes |->
        IF ~\E i \in DOMAIN due : due[i] = n THEN notes[n]
        ELSE IF Releases(notes, n)
        THEN [notes[n] EXCEPT !.state = "release",
                              !.off = icurTimeSamples + ksmps * notes[n].xtratim]
        ELSE [notes[n] EXCEPT !.state = "off"]]

ExpiredList(list, notes) ==
    LET due     == Due(list, notes)
        expired == ExpiredNotes(list, notes)
        Again(rest, n) == IF Releases(notes, n) THEN Insort(rest, n, expired) ELSE rest
    IN  FoldLeft(Again, SubSeq(list, Len(due) + 1, Len(list)), due)

\* The end of a note, to the nearest boundary; in realtime mode it is moved by
\* as much as the note is late.
offtim(n) ==
    LET p2 == note[n].p2 IN
    Boundary(p2 + note[n].p3) * ksmps + IF realtime THEN icurTimeSamples - p2 ELSE 0

\* insert_new, after its init pass
Insert(n) ==
    LET on   == [note EXCEPT ![n].state = "on", ![n].off = offtim(n)]
        list == Insort(frstoff, n, on) IN
    IF list[1] = n /\ Expired(on[n].off)
    THEN note' = ExpiredNotes(list, on) /\ frstoff' = ExpiredList(list, on)
    ELSE note' = on /\ frstoff' = list

\* The event thread has the request; see InsertThread.
EventInsert(n) ==
    /\ n \in DOMAIN note /\ note[n].state = "queued"
    /\ Insert(n)
    /\ UNCHANGED <<realtime, clock, cyclesRemaining, nxtim, evt, OrcTrigEvts, sense>>

Pending == \E n \in DOMAIN note : note[n].state = "queued"

\* insert_event
Dispatch(n) ==
    IF realtime THEN note' = [note EXCEPT ![n].state = "queued"] /\ UNCHANGED frstoff
    ELSE Insert(n)

-----------------------------------------------------------------------------
(* sense_events, at the start of a control period.                         *)

\* RT_SPIN_TRYLOCK: only realtime mode has the lock.
MayBeBusy(busy) == busy => realtime

Sense(busy) ==
    /\ sense.pc = "sense" /\ MayBeBusy(busy)
    /\ IF busy THEN UNCHANGED <<note, frstoff>>
       ELSE note' = ExpiredNotes(frstoff, note) /\ frstoff' = ExpiredList(frstoff, note)
    /\ cyclesRemaining' = IF cyclesRemaining = 0 THEN 0 ELSE cyclesRemaining - 1
    /\ sense' = [sense EXCEPT !.pc = "score", !.waited = FALSE]
    /\ UNCHANGED <<realtime, clock, nxtim, evt, OrcTrigEvts>>

AtScore == sense.pc = "score" /\ cyclesRemaining <= 0

\* Mutant of Cycles: no wait takes a period.
Cycles_NoMinimum(next, waiting) == RNDINT64(next - icurTimeSamples, ksmps)

\* The periods until the next event; a wait for realtime work takes one at least.
Cycles(next, waiting) ==
    LET c == RNDINT64(next - icurTimeSamples, ksmps) IN IF waiting /\ c <= 0 THEN 1 ELSE c

Ahead(next, waiting) ==
    /\ cyclesRemaining' = Cycles(next, waiting)
    /\ nxtim' = RNDINT64(next - icurTimeSamples, ksmps) * ksmps + icurTimeSamples

\* rdscor: a note that starts no earlier than the one before it
ReadNote(p2, p3, xtra) ==
    LET last == {note[n].p2 : n \in DOMAIN note} \cup {timeOffs} IN
    /\ AtScore /\ evt = NoEvent /\ Len(note) < MaxNotes
    /\ \A t \in last : t <= p2 + timeOffs
    /\ note' = Append(note, [p2 |-> p2 + timeOffs, p3 |-> p3, xtratim |-> xtra,
                             state |-> "read", off |-> 0, ran |-> 0])
    /\ evt' = [opcod |-> "i", note |-> Len(note) + 1]
    /\ Ahead(p2 + timeOffs, FALSE)
    /\ UNCHANGED <<realtime, clock, frstoff, OrcTrigEvts, sense>>

\* ... or the end of the section or of the score
ReadEnd(opcod) ==
    /\ AtScore /\ evt = NoEvent
    /\ opcod = "s" => sense.section < MaxSections
    /\ evt' = [opcod |-> opcod, note |-> 0]
    /\ UNCHANGED <<realtime, clock, cyclesRemaining, nxtim, frstoff, note, OrcTrigEvts, sense>>

ScoreNote ==
    /\ AtScore /\ evt.opcod = "i"
    /\ Dispatch(evt.note)
    /\ evt' = NoEvent
    /\ UNCHANGED <<realtime, clock, cyclesRemaining, nxtim, OrcTrigEvts, sense>>

\* An end waits for notes that are being inserted, then for the first to end.
Wait(busy) ==
    /\ AtScore /\ evt.opcod \in {"s", "e"} /\ MayBeBusy(busy)
    /\ \/ realtime /\ Pending /\ ~busy /\ Ahead(icurTimeSamples + ksmps, TRUE)
       \/ /\ ~(realtime /\ Pending) /\ frstoff # <<>>
          /\ Ahead(IF busy THEN nxtim ELSE note[frstoff[1]].off, TRUE)
    /\ sense' = [sense EXCEPT !.waited = TRUE]
    /\ UNCHANGED <<realtime, clock, evt, frstoff, note, OrcTrigEvts>>

\* scode, for a section: realtime events and the waiting score event are dropped
\* (what a section of the score drops of the latter is its own 's').
NewSection(rt) ==
    /\ evt' = NoEvent /\ OrcTrigEvts' = <<>>
    /\ timeOffs' = icurTimeSamples /\ nxtim' = icurTimeSamples
    /\ sense' = [sense EXCEPT !.pc = "score", !.section = @ + 1, !.rtsection = @ \/ rt]
    /\ UNCHANGED <<realtime, icurTimeSamples, global_kcounter, cyclesRemaining>>

ScoreEnd ==
    /\ AtScore /\ evt.opcod \in {"s", "e"}
    /\ ~(realtime /\ Pending) /\ frstoff = <<>>
    /\ IF evt.opcod = "s" THEN NewSection(FALSE)
       ELSE SenseGoes("ended") /\ UNCHANGED <<realtime, clock, cyclesRemaining, nxtim, evt, OrcTrigEvts>>
    /\ UNCHANGED <<frstoff, note>>

ScoreDone ==
    /\ sense.pc = "score" /\ cyclesRemaining > 0
    /\ SenseGoes("events")
    /\ UNCHANGED <<realtime, clock, cyclesRemaining, nxtim, evt, frstoff, note, OrcTrigEvts>>

-----------------------------------------------------------------------------
(* Realtime events.                                                        *)

\* insert_event_node: behind the events of the same period
InsertNode(k) ==
    OrcTrigEvts' = InsertAt(OrcTrigEvts, First(OrcTrigEvts, {i \in DOMAIN OrcTrigEvts : OrcTrigEvts[i] > k}), k)

\* An opcode or the host makes one.
MakeRt(delay) ==
    /\ sense.made < MaxRt /\ sense.pc \in {"events", "perform"}
    /\ InsertNode(global_kcounter + delay)
    /\ sense' = [sense EXCEPT !.made = @ + 1]
    /\ UNCHANGED <<realtime, clock, cyclesRemaining, nxtim, evt, frstoff, note>>

DueRt == OrcTrigEvts # <<>> /\ OrcTrigEvts[1] <= global_kcounter

\* A note, a table, a turnoff: what it does is not told apart.
TakeRt ==
    /\ sense.pc = "events" /\ DueRt
    /\ OrcTrigEvts' = Tail(OrcTrigEvts)
    /\ UNCHANGED <<realtime, clock, cyclesRemaining, nxtim, evt, frstoff, note, sense>>

\* A section end turns the notes that have an end off.
RtSection ==
    /\ sense.pc = "events" /\ DueRt /\ sense.section < MaxSections
    /\ frstoff' = <<>>
    /\ note' = [n \in DOMAIN note |-> IF \E i \in DOMAIN frstoff : frstoff[i] = n
                                      THEN [note[n] EXCEPT !.state = "cut"] ELSE note[n]]
    /\ NewSection(TRUE)

RtDone(busy) ==
    /\ sense.pc = "events" /\ MayBeBusy(busy) /\ (busy \/ ~DueRt)
    /\ SenseGoes("perform")
    /\ UNCHANGED <<realtime, clock, cyclesRemaining, nxtim, evt, frstoff, note, OrcTrigEvts>>

\* kperf: the notes run for a period.
Perform ==
    /\ sense.pc = "perform" /\ global_kcounter < MaxPeriods
    /\ note' = [n \in DOMAIN note |->
                  IF note[n].state \in {"on", "release"} THEN [note[n] EXCEPT !.ran = @ + 1] ELSE note[n]]
    /\ icurTimeSamples' = icurTimeSamples + ksmps
    /\ global_kcounter' = global_kcounter + 1
    /\ SenseGoes("sense")
    /\ UNCHANGED <<realtime, timeOffs, cyclesRemaining, nxtim, evt, frstoff, OrcTrigEvts>>

-----------------------------------------------------------------------------
Next ==
    \/ ScoreNote \/ ScoreEnd \/ ScoreDone \/ TakeRt \/ RtSection \/ Perform
    \/ \E busy \in BOOLEAN : Sense(busy) \/ Wait(busy) \/ RtDone(busy)
    \/ \E p2 \in Starts, p3 \in Lengths, xtra \in Extras : ReadNote(p2, p3, xtra)
    \/ \E opcod \in {"s", "e"} : ReadEnd(opcod)
    \/ \E n \in 1..MaxNotes : EventInsert(n)
    \/ \E delay \in Delays : MakeRt(delay)

Spec == Init /\ [][Next]_vars

-----------------------------------------------------------------------------
(* Properties.                                                             *)

\* The periods between the boundaries next to the start and the end of a note,
\* and those of its release
periods(m) == Boundary(m.p2 + m.p3) - Boundary(m.p2) + m.xtratim

\* A note is performed for the periods between the boundaries next to its
\* start and its end, and for its release, whatever else goes on.  In realtime
\* mode it may be longer, because a busy lock postpones its end, and is never
\* more than one period shorter, however late it was inserted.  Otherwise the
\* end is fixed by the score: no note outlives it, and only a note that a
\* realtime section end made late is cut short.
LengthKept ==
    \A m \in Range(note) :
        IF realtime THEN m.state = "off" => m.ran >= periods(m) - 1
        ELSE \/ sense.rtsection
             \/ m.ran <= periods(m) /\ (m.state = "off" => m.ran = periods(m))

\* Events happen on time.  A score note is dispatched in the period next to its
\* p2, although the wait was rounded event by event, and never before; a section
\* end among the realtime events may make notes late, as the wait for the event it
\* drops goes on.  Realtime events happen in the order of their times, none before
\* it, and without a lock that may be busy none is more than a period late.
Punctual ==
    [][ /\ ScoreNote => /\ global_kcounter >= Boundary(note[evt.note].p2)
                        /\ sense.rtsection \/ global_kcounter = Boundary(note[evt.note].p2)
        /\ TakeRt \/ RtSection =>
              /\ \A i \in DOMAIN OrcTrigEvts : OrcTrigEvts[1] <= OrcTrigEvts[i]
              /\ OrcTrigEvts[1] <= global_kcounter
              /\ realtime \/ OrcTrigEvts[1] >= global_kcounter - 1 ]_vars

\* Waiting for the notes to end never turns in circles inside one sense_events
\* call, where no time passes and no note can end.
NoSpin == [][ \A busy \in BOOLEAN : Wait(busy) => ~sense.waited ]_vars
=============================================================================
