---------------------------- MODULE InstanceLife ----------------------------
(***************************************************************************)
(* The life of instrument instances in realtime mode (Engine/insert.c,     *)
(* Engine/musmon.c, OOps/goto_ops.c, Top/csound_perf.c).  The event thread *)
(* takes an instance, links it into the active chain and runs its init     *)
(* pass; the performance thread walks the chain and turns notes off.  They *)
(* meet in the init_running and turnoff_pending words (async_ref_spinlock),*)
(* in the hand-off of turnoffs that met an init pass, in the free list     *)
(* (instance_spinlock) and in the chain itself, which no lock protects.  A *)
(* section under one of these two spin locks is one step, and so is every  *)
(* store into the chain; alloc_spinlock, which spans many, is a variable.  *)
(*                                                                         *)
(* One instrument; the place of a new note in the chain, the order of the  *)
(* off-time list and the moment a note is due are free choices.  A change  *)
(* of the off-time list is one step.  Instances of user opcodes and        *)
(* unlinked instances are left out.                                        *)
(***************************************************************************)
EXTENDS Integers, Sequences, FiniteSets

CONSTANTS
    Inst,        \* memory for instances
    Nobody,      \* NULL
    Anchor,      \* actanchor, the head of the active chain
    QueueSize,   \* MAX_ALLOC_QUEUE
    Uses         \* what the orchestra and the host do besides playing notes

Feature == {"reinit", "reinit error", "xtratim", "file", "async",
            "realtime section",    \* section ends sent as realtime events
            "turnoff"}             \* turnoff opcodes, MIDI note-offs and negative p1 in the
                                   \*   score: turnoffs that never look at alloc_spinlock

ASSUME NamesAssumption == Nobody \notin Inst /\ Anchor \notin Inst /\ Nobody # Anchor
ASSUME BoundsAssumption == QueueSize \in Nat \ {0} /\ Uses \subseteq Feature

Thread == {"perf", "event"}

VARIABLES
    ins,             \* the plain fields of each INSDS
    init_running,    \* depth of init passes begun
    turnoff_pending,
    link,            \* nxtact and prvact of the chain
    free,            \* how often each instance is on the free list
    handoff,         \* how often each is on csound->init_turnoff_pending
    offs,            \* how often each is on the off-time list
    rendering,       \* performance_epoch is odd
    alloc_spinlock,  \* its owner, or "free"
    queue,           \* the allocation queue: an instance to reinit, or Nobody for a note
    call,            \* per thread: the turnoff it is in, and p and n of its unlink
    perf,            \* where the performance thread is
    event,           \* where the event thread is
    todo             \* notes of this period's chain, still linked, not yet visited

protocol == <<init_running, turnoff_pending, handoff>>
lists    == <<link, free, offs>>
vars     == <<ins, protocol, lists, rendering, alloc_spinlock, queue, call, perf, event, todo>>

NoCall == [at |-> "none", ip |-> Nobody, how |-> "none", p |-> Nobody, n |-> Nobody]
Flags == [init_done |-> FALSE, actflg |-> FALSE]

\* What instantiate leaves: calloc'ed.  "old" is a retirement whose render
\* interval is over.
Blank == [alloc |-> TRUE, actflg |-> FALSE, init_done |-> FALSE, retired |-> FALSE,
          relesing |-> FALSE, xtratim |-> FALSE, finite |-> FALSE,
          fdchp |-> FALSE, async |-> "none"]

Init ==
    /\ ins = [i \in Inst |-> [Blank EXCEPT !.alloc = FALSE]]
    /\ init_running = [i \in Inst |-> 0]
    /\ turnoff_pending = [i \in Inst |-> "none"]
    /\ link = [nxt |-> [n \in Inst \cup {Anchor} |-> Nobody],
               prv |-> [i \in Inst |-> Nobody]]
    /\ free = [i \in Inst |-> 0]
    /\ handoff = [i \in Inst |-> 0]
    /\ offs = [i \in Inst |-> 0]
    /\ rendering = FALSE /\ alloc_spinlock = "free" /\ queue = <<>>
    /\ call = [t \in Thread |-> NoCall]
    /\ perf = [pc |-> "pending", cur |-> Nobody, nxt |-> Nobody,
               batch |-> [i \in Inst |-> 0], kept |-> Flags]
    /\ event = [pc |-> "idle", ip |-> Nobody, prvp |-> Nobody, nxtp |-> Nobody,
                finite |-> FALSE, error |-> FALSE, complete |-> FALSE]
    /\ todo = {}

InChain(i) == link.prv[i] # Nobody

\* A list holds i once more or once less; twice already is too much.
Count(f, i, d) == [f EXCEPT ![i] = IF @ + d < 0 THEN 0 ELSE IF @ + d > 2 THEN 2 ELSE @ + d]

-----------------------------------------------------------------------------
(* The words under async_ref_spinlock.                                     *)

\* instance_init_begin succeeds.
CanBegin(i) ==
    /\ turnoff_pending[i] # "finalizing"
    /\ ~(turnoff_pending[i] = "requested" /\ init_running[i] = 0)

\* instance_init_finish: the outermost finish hands a retained turnoff over.
FinishTurnsOff(i) == init_running[i] = 1 /\ turnoff_pending[i] = "requested"
FinishCompletes(i) == init_running[i] = 1 /\ turnoff_pending[i] = "none"

\* Mutant of InitFinish: the request is looked for before the depth falls.
InitFinish_Early(i) ==
    /\ init_running' = [init_running EXCEPT ![i] = @ - 1]
    /\ UNCHANGED <<turnoff_pending, handoff>>

InitFinish(i) ==
    /\ init_running' = [init_running EXCEPT ![i] = @ - 1]
    /\ turnoff_pending' = [turnoff_pending EXCEPT
           ![i] = IF FinishTurnsOff(i) THEN "finalizing" ELSE @]
    /\ handoff' = IF FinishTurnsOff(i) THEN Count(handoff, i, 1) ELSE handoff

\* Mutant of RequestTurnoff: a turnoff that is handed over already is handed
\* over again.
RequestTurnoff_Again(i) ==
    /\ turnoff_pending' = [turnoff_pending EXCEPT
           ![i] = IF init_running[i] > 0 THEN "requested" ELSE "finalizing"]
    /\ handoff' = IF init_running[i] = 0 THEN Count(handoff, i, 1) ELSE handoff
    /\ UNCHANGED init_running

\* instance_init_request_turnoff, but for init_done
RequestTurnoff(i) ==
    /\ turnoff_pending' = [turnoff_pending EXCEPT
           ![i] = IF @ = "finalizing" THEN @
                  ELSE IF init_running[i] > 0 THEN "requested" ELSE "finalizing"]
    /\ handoff' = IF turnoff_pending[i] # "finalizing" /\ init_running[i] = 0
                  THEN Count(handoff, i, 1) ELSE handoff
    /\ UNCHANGED init_running

\* Mutant of Claims: a turnoff does not wait for the init pass.
Claims_NoWait(i) == turnoff_pending[i] = "none"

\* instance_turnoff_claim succeeds; when an init pass runs it leaves a request.
Claims(i) == init_running[i] = 0 /\ turnoff_pending[i] = "none"

Claim(i) ==
    turnoff_pending' = [turnoff_pending EXCEPT
        ![i] = IF Claims(i) THEN "finalizing"
               ELSE IF init_running[i] > 0 /\ @ = "none" THEN "requested" ELSE @]

\* instance_turnoff_complete: these instances are linked, so nothing waits to
\* free them.
Complete(i) ==
    turnoff_pending' = [turnoff_pending EXCEPT ![i] = IF @ = "finalizing" THEN "none" ELSE @]

\* Mutant of Reclaimable: an instance retired in this render interval passes.
Reclaimable_NoEpoch(i) ==
    /\ ~ins[i].actflg /\ ins[i].async = "none"
    /\ init_running[i] = 0 /\ turnoff_pending[i] = "none"

Reclaimable(i) ==
    /\ ~ins[i].actflg /\ ~ins[i].retired /\ ins[i].async = "none"
    /\ init_running[i] = 0 /\ turnoff_pending[i] = "none"

-----------------------------------------------------------------------------
(* A turnoff, on either thread: xturnoff ("release"), xturnoff_now ("now"), *)
(* deact, and what the hand-off calls ("forced").  The first three return   *)
(* at once when the note is inactive, and claim it next; nothing holds the  *)
(* note still between the two.                                              *)

CallFree(t) == call[t].at = "none"

Goes(t, at) == call' = [call EXCEPT ![t].at = at]

\* The call begins: the test of actflg, or what the hand-off does instead.
TurnOff(t, i, how) ==
    IF how = "forced" \/ ins[i].actflg
    THEN call' = [call EXCEPT ![t] =
             [NoCall EXCEPT !.at = IF how = "forced" THEN "revive" ELSE "claim",
                            !.ip = i, !.how = how]]
    ELSE UNCHANGED call

ClaimNote(t) ==
    LET i == call[t].ip IN
    /\ call[t].at = "claim"
    /\ Claim(i)
    /\ IF Claims(i)
       THEN Goes(t, CASE call[t].how = "release" -> "unschedule"
                      [] call[t].how = "now" -> "now"
                      [] call[t].how = "deact" -> "deinit")
       ELSE call' = [call EXCEPT ![t] = NoCall]
    /\ UNCHANGED <<ins, init_running, handoff, lists, rendering, alloc_spinlock, queue, perf, event, todo>>

\* The hand-off marks the note active again, so that it is unlinked.
Revive(t) ==
    /\ call[t].at = "revive"
    /\ ins' = [ins EXCEPT ![call[t].ip].actflg = TRUE]
    /\ Goes(t, "now")
    /\ UNCHANGED <<protocol, lists, rendering, alloc_spinlock, queue, perf, event, todo>>

NoRelease(t) ==
    /\ call[t].at = "now"
    /\ ins' = [ins EXCEPT ![call[t].ip].xtratim = FALSE, ![call[t].ip].relesing = FALSE]
    /\ Goes(t, "unschedule")
    /\ UNCHANGED <<protocol, lists, rendering, alloc_spinlock, queue, perf, event, todo>>

\* Mutant of OffTaken: a note that gets release time stays where it is as well.
OffTaken_Kept(i) == offs

OffTaken(i) == IF ins[i].finite THEN Count(offs, i, -1) ELSE offs

\* A note in its release is left alone; another leaves the off-time list.
Unschedule(t) ==
    LET i == call[t].ip IN
    /\ call[t].at = "unschedule"
    /\ IF ins[i].relesing
       THEN Goes(t, "complete") /\ UNCHANGED offs
       ELSE /\ Goes(t, IF ins[i].xtratim THEN "extend" ELSE "deinit")
            /\ offs' = OffTaken(i)
    /\ UNCHANGED <<ins, protocol, link, free, rendering, alloc_spinlock, queue, perf, event, todo>>

\* set_xtratim
Extend(t) ==
    /\ call[t].at = "extend"
    /\ ins' = [ins EXCEPT ![call[t].ip].relesing = TRUE, ![call[t].ip].finite = TRUE]
    /\ Goes(t, "giveback")
    /\ UNCHANGED <<protocol, lists, rendering, alloc_spinlock, queue, perf, event, todo>>

\* The claim is given back before sched_off_time.
GiveBack(t) ==
    /\ call[t].at = "giveback"
    /\ Complete(call[t].ip)
    /\ Goes(t, "reschedule")
    /\ UNCHANGED <<ins, init_running, handoff, lists, rendering, alloc_spinlock, queue, perf, event, todo>>

\* The release is never over at once: xtratim is at least one period.
Reschedule(t) ==
    /\ call[t].at = "reschedule"
    /\ offs' = Count(offs, call[t].ip, 1)
    /\ call' = [call EXCEPT ![t] = NoCall]
    /\ UNCHANGED <<ins, protocol, link, free, rendering, alloc_spinlock, queue, perf, event, todo>>

-----------------------------------------------------------------------------
(* deact_internal: the deinit pass, the unlink store by store, the         *)
(* retirement, the free list, and instance_turnoff_complete.               *)

\* The deinit pass ends; it asks the asynchronous readers of the instance to stop.
Deinit(t) ==
    LET i == call[t].ip IN
    /\ call[t].at = "deinit"
    /\ ins' = [ins EXCEPT ![i].async = IF @ = "held" THEN "stopped" ELSE @]
    /\ Goes(t, "unlink")
    /\ UNCHANGED <<protocol, lists, rendering, alloc_spinlock, queue, perf, event, todo>>

Unlink(t) ==
    LET i == call[t].ip IN
    /\ call[t].at = "unlink"
    /\ call' = [call EXCEPT ![t].at = IF ~ins[i].actflg THEN "complete"
                                      ELSE IF link.prv[i] = Nobody THEN "retire" ELSE "ahead",
                            ![t].p = IF ins[i].actflg THEN link.prv[i] ELSE Nobody]
    /\ UNCHANGED <<ins, protocol, lists, rendering, alloc_spinlock, queue, perf, event, todo>>

\* prvact->nxtact = nxtact
LinkAhead(t) ==
    LET i == call[t].ip  n == link.nxt[i] IN
    /\ call[t].at = "ahead"
    /\ link' = [link EXCEPT !.nxt[call[t].p] = n]
    /\ call' = [call EXCEPT ![t].at = IF n = Nobody THEN "retire" ELSE "back", ![t].n = n]
    /\ todo' = todo \ {i}
    /\ UNCHANGED <<ins, protocol, free, offs, rendering, alloc_spinlock, queue, perf, event>>

\* nxtp->prvact = prvact, which may be read again for this store.
LinkBack(t) ==
    /\ call[t].at = "back"
    /\ \E p \in {call[t].p, link.prv[call[t].ip]} : link' = [link EXCEPT !.prv[call[t].n] = p]
    /\ Goes(t, "retire")
    /\ UNCHANGED <<ins, protocol, free, offs, rendering, alloc_spinlock, queue, perf, event, todo>>

\* Mutant of LeftLinks: the successor is cleared with the predecessor.
LeftLinks_None(i) == [link EXCEPT !.prv[i] = Nobody, !.nxt[i] = Nobody]

\* The successor of i stays for a walk that has retained i.
LeftLinks(i) == [link EXCEPT !.prv[i] = Nobody]

\* prvact = NULL, and the epoch of the retirement
Retire(t) ==
    LET i == call[t].ip IN
    /\ call[t].at = "retire"
    /\ link' = LeftLinks(i)
    /\ ins' = [ins EXCEPT ![i].retired = rendering]
    /\ Goes(t, "close")
    /\ UNCHANGED <<protocol, free, offs, rendering, alloc_spinlock, queue, perf, event, todo>>

\* The files are closed, unless a reader still has them.
Close(t) ==
    LET i == call[t].ip IN
    /\ call[t].at = "close"
    /\ ins' = [ins EXCEPT ![i].init_done = FALSE, ![i].actflg = FALSE,
                          ![i].fdchp = @ /\ ins[i].async # "none"]
    /\ Goes(t, "list")
    /\ UNCHANGED <<protocol, lists, rendering, alloc_spinlock, queue, perf, event, todo>>

List(t) ==
    /\ call[t].at = "list"
    /\ free' = Count(free, call[t].ip, 1)
    /\ Goes(t, "complete")
    /\ UNCHANGED <<ins, protocol, link, offs, rendering, alloc_spinlock, queue, perf, event, todo>>

\* A turnoff of the hand-off is completed there.
Return(t) ==
    /\ call[t].at = "complete"
    /\ IF call[t].how = "forced" THEN UNCHANGED turnoff_pending ELSE Complete(call[t].ip)
    /\ call' = [call EXCEPT ![t] = NoCall]
    /\ UNCHANGED <<ins, init_running, handoff, lists, rendering, alloc_spinlock, queue, perf, event, todo>>

-----------------------------------------------------------------------------
(* time_expire, on the performance thread or under sched_off_time on the   *)
(* event thread: a due note enters its release stage or is deactivated.    *)

Expire(t, i) ==
    /\ offs[i] > 0 /\ CallFree(t)
    /\ IF ~ins[i].relesing /\ ins[i].xtratim
       THEN /\ ins' = [ins EXCEPT ![i].relesing = TRUE, ![i].finite = TRUE]
            /\ UNCHANGED <<call, offs>>
       ELSE /\ TurnOff(t, i, "deact")
            /\ offs' = Count(offs, i, -1)
            /\ UNCHANGED ins
    /\ UNCHANGED <<protocol, link, free, rendering, alloc_spinlock, queue, perf, event, todo>>

-----------------------------------------------------------------------------
(* The performance thread: sense_events ...                                *)

Empty(list) == \A i \in Inst : list[i] = 0

\* instance_process_pending_turnoffs: a busy lock postpones the hand-off.
TakeHandoff ==
    /\ perf.pc = "pending" /\ alloc_spinlock = "free" /\ ~Empty(handoff)
    /\ alloc_spinlock' = "perf"
    /\ perf' = [perf EXCEPT !.pc = "batch", !.batch = handoff]
    /\ handoff' = [i \in Inst |-> 0]
    /\ UNCHANGED <<ins, init_running, turnoff_pending, lists, rendering, queue, call, event, todo>>

SkipHandoff ==
    /\ perf.pc = "pending" /\ (alloc_spinlock # "free" \/ Empty(handoff))
    /\ perf' = [perf EXCEPT !.pc = "expire"]
    /\ UNCHANGED <<ins, protocol, lists, rendering, alloc_spinlock, queue, call, event, todo>>

HandoffTurnoff(i) ==
    /\ perf.pc = "batch" /\ perf.batch[i] > 0
    /\ perf' = [perf EXCEPT !.pc = "batched", !.cur = i, !.batch = Count(@, i, -1)]
    /\ IF turnoff_pending[i] = "finalizing" /\ init_running[i] = 0
       THEN TurnOff("perf", i, "forced")
       ELSE UNCHANGED call
    /\ UNCHANGED <<ins, protocol, lists, rendering, alloc_spinlock, queue, event, todo>>

HandoffDone ==
    /\ perf.pc = "batched" /\ CallFree("perf")
    /\ Complete(perf.cur)
    /\ perf' = [perf EXCEPT !.pc = "batch", !.cur = Nobody]
    /\ UNCHANGED <<ins, init_running, handoff, lists, rendering, alloc_spinlock, queue, call, event, todo>>

HandoffEnd ==
    /\ perf.pc = "batch" /\ Empty(perf.batch)
    /\ perf' = [perf EXCEPT !.pc = "expire"]
    /\ alloc_spinlock' = "free"
    /\ UNCHANGED <<ins, protocol, lists, rendering, queue, call, event, todo>>

TryExpire ==
    /\ perf.pc = "expire"
    /\ IF alloc_spinlock = "free" /\ ~Empty(offs)
       THEN alloc_spinlock' = "perf" /\ perf' = [perf EXCEPT !.pc = "expiring"]
       ELSE perf' = [perf EXCEPT !.pc = "events"] /\ UNCHANGED alloc_spinlock
    /\ UNCHANGED <<ins, protocol, lists, rendering, queue, call, event, todo>>

ExpireDue(i) == perf.pc = "expiring" /\ Expire("perf", i)

ExpireEnd ==
    /\ perf.pc = "expiring" /\ CallFree("perf")
    /\ perf' = [perf EXCEPT !.pc = "events"]
    /\ alloc_spinlock' = "free"
    /\ UNCHANGED <<ins, protocol, lists, rendering, queue, call, event, todo>>

\* The realtime events, under alloc_spinlock; a busy lock postpones them.
TakeEvents ==
    /\ perf.pc = "events" /\ CallFree("perf") /\ alloc_spinlock = "free"
    /\ alloc_spinlock' = "perf"
    /\ perf' = [perf EXCEPT !.pc = "rtevents"]
    /\ UNCHANGED <<ins, protocol, lists, rendering, queue, call, event, todo>>

EndEvents ==
    /\ perf.pc = "rtevents" /\ CallFree("perf")
    /\ alloc_spinlock' = "free"
    /\ perf' = [perf EXCEPT !.pc = "events"]
    /\ UNCHANGED <<ins, protocol, lists, rendering, queue, call, event, todo>>

\* insert_event, insert_midi_event: a full queue refuses the note.
PostNote ==
    /\ perf.pc \in {"events", "rtevents"} /\ CallFree("perf")
    /\ Len(queue) < QueueSize
    /\ queue' = Append(queue, Nobody)
    /\ UNCHANGED <<ins, protocol, lists, rendering, alloc_spinlock, call, perf, event, todo>>

\* An event with a negative p1 (indef_off), realtime or from the score, or a
\* MIDI note-off; the latter two hold no lock.
NoteOff(i) ==
    /\ perf.pc = "rtevents" \/ (perf.pc = "events" /\ "turnoff" \in Uses)
    /\ CallFree("perf") /\ InChain(i)
    /\ TurnOff("perf", i, "release")
    /\ UNCHANGED <<ins, protocol, lists, rendering, alloc_spinlock, queue, perf, event, todo>>

\* A realtime 's' event first turns off every note of the off-time list.
BeginSection ==
    /\ "realtime section" \in Uses /\ perf.pc = "rtevents" /\ CallFree("perf")
    /\ perf' = [perf EXCEPT !.pc = "section"]
    /\ UNCHANGED <<ins, protocol, lists, rendering, alloc_spinlock, queue, call, event, todo>>

SectionTurnoff(i) ==
    /\ perf.pc = "section" /\ CallFree("perf") /\ offs[i] > 0
    /\ TurnOff("perf", i, "now")
    /\ offs' = [offs EXCEPT ![i] = 0]
    /\ UNCHANGED <<ins, protocol, link, free, rendering, alloc_spinlock, queue, perf, event, todo>>

\* free_inactive_instances: what cannot be reclaimed yet is listed anew.
FreeInactive ==
    /\ ins' = [i \in Inst |-> IF ins[i].alloc /\ Reclaimable(i)
                              THEN [Blank EXCEPT !.alloc = FALSE] ELSE ins[i]]
    /\ free' = [i \in Inst |->
                  IF ins[i].alloc /\ ~Reclaimable(i) /\ ~ins[i].actflg THEN 1 ELSE 0]

\* The lock is given back after the realtime events ...
EndTurnoffs ==
    /\ perf.pc = "section" /\ CallFree("perf") /\ Empty(offs)
    /\ alloc_spinlock' = "free" /\ perf' = [perf EXCEPT !.pc = "purge"]
    /\ UNCHANGED <<ins, protocol, lists, rendering, queue, call, event, todo>>

\* Mutant of EndSection: the instances are freed although the lock is busy.
EndSection_Busy ==
    /\ \/ perf.pc = "purge" /\ perf' = [perf EXCEPT !.pc = "events"]
       \/ /\ perf.pc = "events" /\ CallFree("perf") /\ Empty(offs)
          /\ queue = <<>> /\ event.pc = "idle" /\ UNCHANGED perf
    /\ FreeInactive
    /\ UNCHANGED <<protocol, link, offs, rendering, alloc_spinlock, queue, call, event, todo>>

\* ... and tried again; when it is busy nothing is freed.  A section end of the
\* score waits for the event thread and for the notes that have an end.
EndSection ==
    /\ \/ perf.pc = "purge" /\ perf' = [perf EXCEPT !.pc = "events"]
       \/ /\ perf.pc = "events" /\ CallFree("perf") /\ Empty(offs)
          /\ queue = <<>> /\ event.pc = "idle" /\ UNCHANGED perf
    /\ IF alloc_spinlock = "free" THEN FreeInactive ELSE UNCHANGED <<ins, free>>
    /\ UNCHANGED <<protocol, link, offs, rendering, alloc_spinlock, queue, call, event, todo>>

-----------------------------------------------------------------------------
(* ... and kperf: the walk of the active chain.                            *)

\* The chain goes past i already.
Leaves(t, i) == call[t].ip = i /\ call[t].at \in {"back", "retire", "close"}

BeginRender ==
    /\ perf.pc = "events" /\ CallFree("perf")
    /\ rendering' = TRUE
    /\ perf' = [perf EXCEPT !.pc = "walk", !.cur = link.nxt[Anchor]]
    /\ todo' = {i \in Inst : ins[i].init_done /\ ~Leaves("event", i)}
    /\ UNCHANGED <<ins, protocol, lists, alloc_spinlock, queue, call, event>>

Visit ==
    /\ perf.pc = "walk" /\ perf.cur # Nobody
    /\ perf' = [perf EXCEPT !.pc = IF ins[perf.cur].init_done THEN "run" ELSE "step",
                            !.nxt = link.nxt[perf.cur]]
    /\ todo' = todo \ {perf.cur}
    /\ UNCHANGED <<ins, protocol, lists, rendering, alloc_spinlock, queue, call, event>>

\* An opcode turns off a note of the chain, its own or another.
OpTurnoff(j, how) ==
    /\ "turnoff" \in Uses /\ perf.pc = "run" /\ CallFree("perf") /\ ins[perf.cur].actflg
    /\ InChain(j)
    /\ TurnOff("perf", j, how)
    /\ UNCHANGED <<ins, protocol, lists, rendering, alloc_spinlock, queue, perf, event, todo>>

PerfGoes(pc) == perf' = [perf EXCEPT !.pc = pc]

\* reinit: the event thread is to run the pass; the instance is marked
\* inactive until then, store by store.
OpReinit ==
    /\ "reinit" \in Uses /\ perf.pc = "run" /\ CallFree("perf") /\ ins[perf.cur].actflg
    /\ PerfGoes("reinit")
    /\ UNCHANGED <<ins, protocol, lists, rendering, alloc_spinlock, queue, call, event, todo>>

KeepFlags ==
    /\ perf.pc = "reinit"
    /\ perf' = [perf EXCEPT !.pc = "rebegin",
                   !.kept = [init_done |-> ins[perf.cur].init_done, actflg |-> ins[perf.cur].actflg]]
    /\ UNCHANGED <<ins, protocol, lists, rendering, alloc_spinlock, queue, call, event, todo>>

BeginReinit ==
    LET i == perf.cur IN
    /\ perf.pc = "rebegin"
    /\ IF CanBegin(i)
       THEN init_running' = [init_running EXCEPT ![i] = @ + 1] /\ PerfGoes("undone")
       ELSE UNCHANGED init_running /\ PerfGoes("error")
    /\ UNCHANGED <<ins, turnoff_pending, handoff, lists, rendering, alloc_spinlock, queue, call, event, todo>>

ClearDone ==
    /\ perf.pc = "undone"
    /\ ins' = [ins EXCEPT ![perf.cur].init_done = FALSE]
    /\ PerfGoes("inactive")
    /\ UNCHANGED <<protocol, lists, rendering, alloc_spinlock, queue, call, event, todo>>

ClearActive ==
    /\ perf.pc = "inactive"
    /\ ins' = [ins EXCEPT ![perf.cur].actflg = FALSE]
    /\ PerfGoes("enqueue")
    /\ UNCHANGED <<protocol, lists, rendering, alloc_spinlock, queue, call, event, todo>>

\* The opcodes that follow are left out; a full queue refuses.
PostReinit ==
    /\ perf.pc = "enqueue"
    /\ IF Len(queue) < QueueSize
       THEN queue' = Append(queue, perf.cur) /\ perf' = [perf EXCEPT !.pc = "step", !.kept = Flags]
       ELSE UNCHANGED queue /\ PerfGoes("refused")
    /\ UNCHANGED <<ins, protocol, lists, rendering, alloc_spinlock, call, event, todo>>

\* The pass is taken back; then the two marks, unless a turnoff came in between.
UndoReinit ==
    /\ perf.pc = "refused"
    /\ InitFinish(perf.cur)
    /\ ins' = IF FinishTurnsOff(perf.cur) THEN [ins EXCEPT ![perf.cur].init_done = FALSE] ELSE ins
    /\ PerfGoes(IF FinishTurnsOff(perf.cur) THEN "error" ELSE "redone")
    /\ UNCHANGED <<lists, rendering, alloc_spinlock, queue, call, event, todo>>

RestoreDone ==
    /\ perf.pc = "redone"
    /\ ins' = [ins EXCEPT ![perf.cur].init_done = perf.kept.init_done]
    /\ PerfGoes("active")
    /\ UNCHANGED <<protocol, lists, rendering, alloc_spinlock, queue, call, event, todo>>

RestoreActive ==
    /\ perf.pc = "active"
    /\ ins' = [ins EXCEPT ![perf.cur].actflg = perf.kept.actflg]
    /\ PerfGoes("error")
    /\ UNCHANGED <<protocol, lists, rendering, alloc_spinlock, queue, call, event, todo>>

\* PerfError turns the note off.
ReinitError ==
    /\ perf.pc = "error"
    /\ TurnOff("perf", perf.cur, "now")
    /\ perf' = [perf EXCEPT !.pc = "step", !.kept = Flags]
    /\ UNCHANGED <<ins, protocol, lists, rendering, alloc_spinlock, queue, event, todo>>

OpsEnd ==
    /\ perf.pc = "run" /\ CallFree("perf")
    /\ perf' = [perf EXCEPT !.pc = "step"]
    /\ UNCHANGED <<ins, protocol, lists, rendering, alloc_spinlock, queue, call, event, todo>>

NextInstance ==
    /\ perf.pc = "step" /\ CallFree("perf")
    /\ perf' = [perf EXCEPT !.pc = "walk", !.nxt = Nobody,
                            !.cur = IF perf.nxt = Nobody THEN link.nxt[perf.cur] ELSE perf.nxt]
    /\ UNCHANGED <<ins, protocol, lists, rendering, alloc_spinlock, queue, call, event, todo>>

\* The epoch becomes even: no instance is held by a walk any more.
EndRender ==
    /\ perf.pc = "walk" /\ perf.cur = Nobody
    /\ rendering' = FALSE
    /\ ins' = [i \in Inst |-> [ins[i] EXCEPT !.retired = FALSE]]
    /\ perf' = [perf EXCEPT !.pc = "pending"]
    /\ UNCHANGED <<protocol, lists, alloc_spinlock, queue, call, event, todo>>

-----------------------------------------------------------------------------
(* The event thread: a note (insert_new, insert_midi) ...                  *)

EventAt(pc) == event.pc = pc /\ CallFree("event")
EventGoes(pc) == event' = [event EXCEPT !.pc = pc]

EventLock == alloc_spinlock = "free" /\ alloc_spinlock' = "event"

Dequeue ==
    /\ EventAt("idle") /\ queue # <<>>
    /\ queue' = Tail(queue)
    /\ event' = [event EXCEPT !.pc = IF Head(queue) = Nobody THEN "lock" ELSE "repass",
                              !.ip = Head(queue)]
    /\ UNCHANGED <<ins, protocol, lists, rendering, alloc_spinlock, call, perf, todo>>

LockForNote ==
    /\ EventAt("lock") /\ EventLock
    /\ EventGoes("find")
    /\ UNCHANGED <<ins, protocol, lists, rendering, queue, call, perf, todo>>

\* At the limit of the instrument maxalloc_turnoff takes its oldest or newest note.
MakeRoom(i) ==
    /\ EventAt("lock") /\ EventLock /\ InChain(i)
    /\ TurnOff("event", i, "now")
    /\ EventGoes("room")
    /\ UNCHANGED <<ins, protocol, lists, rendering, queue, perf, todo>>

\* There is room now, or the turnoff was put off and the note is dropped.
Room ==
    /\ EventAt("room")
    /\ EventGoes("find") \/ EventGoes("done")
    /\ UNCHANGED <<ins, protocol, lists, rendering, alloc_spinlock, queue, call, perf, todo>>

\* A tied note finds an indefinite note with its p1 ...
FindTie(i) ==
    /\ EventAt("find")
    /\ ins[i].actflg /\ ~ins[i].finite
    /\ event' = [event EXCEPT !.pc = "tie", !.ip = i]
    /\ UNCHANGED <<ins, protocol, lists, rendering, alloc_spinlock, queue, call, perf, todo>>

\* ... and begins its init pass in it, or is an error when it is being turned off.
BeginTie ==
    LET i == event.ip IN
    /\ EventAt("tie")
    /\ ins' = [ins EXCEPT ![i].init_done = FALSE]
    /\ IF CanBegin(i)
       THEN init_running' = [init_running EXCEPT ![i] = @ + 1] /\ EventGoes("fields")
       ELSE UNCHANGED init_running /\ EventGoes("done")
    /\ UNCHANGED <<turnoff_pending, handoff, lists, rendering, alloc_spinlock, queue, call, perf, todo>>

\* take_inactive_instance, or a new instance when the list has none to give
Takes(i) ==
    \/ free[i] > 0 /\ Reclaimable(i)
    \/ /\ ~\E j \in Inst : free[j] > 0 /\ Reclaimable(j)
       /\ ~ins[i].alloc

TakeNote(i) ==
    /\ EventAt("find") /\ Takes(i)
    /\ free' = Count(free, i, -1)
    /\ ins' = [ins EXCEPT ![i] = IF @.alloc THEN [@ EXCEPT !.init_done = FALSE, !.fdchp = FALSE]
                                 ELSE Blank]
    /\ event' = [event EXCEPT !.pc = "begin", !.ip = i]
    /\ UNCHANGED <<protocol, link, offs, rendering, alloc_spinlock, queue, call, perf, todo>>

BeginNote ==
    LET i == event.ip IN
    /\ EventAt("begin")
    /\ IF CanBegin(i)
       THEN /\ init_running' = [init_running EXCEPT ![i] = @ + 1]
            /\ event' = [event EXCEPT !.pc = "place", !.prvp = Anchor]
       ELSE UNCHANGED init_running /\ EventGoes("done")
    /\ UNCHANGED <<ins, turnoff_pending, handoff, lists, rendering, alloc_spinlock, queue, call, perf, todo>>

\* The place in the chain is looked for node by node ...
PassBy ==
    LET n == link.nxt[event.prvp] IN
    /\ EventAt("place") /\ n # Nobody
    /\ event' = [event EXCEPT !.prvp = n]
    /\ UNCHANGED <<ins, protocol, lists, rendering, alloc_spinlock, queue, call, perf, todo>>

Place ==
    LET n == link.nxt[event.prvp] IN
    /\ EventAt("place")
    /\ event' = [event EXCEPT !.pc = IF n = Nobody THEN "own" ELSE "behind", !.nxtp = n]
    /\ UNCHANGED <<ins, protocol, lists, rendering, alloc_spinlock, queue, call, perf, todo>>

\* ... and the instance spliced in: nxtp->prvact first, its own links ...
SpliceBehind ==
    /\ EventAt("behind")
    /\ link' = [link EXCEPT !.prv[event.nxtp] = event.ip]
    /\ EventGoes("own")
    /\ UNCHANGED <<ins, protocol, free, offs, rendering, alloc_spinlock, queue, call, perf, todo>>

OwnLinks ==
    /\ EventAt("own")
    /\ link' = [link EXCEPT !.nxt[event.ip] = event.nxtp, !.prv[event.ip] = event.prvp]
    /\ EventGoes("ahead")
    /\ UNCHANGED <<ins, protocol, free, offs, rendering, alloc_spinlock, queue, call, perf, todo>>

\* ... and prvp->nxtact, which makes it visible to the walk.
SpliceAhead ==
    /\ EventAt("ahead")
    /\ link' = [link EXCEPT !.nxt[event.prvp] = event.ip]
    /\ event' = [event EXCEPT !.pc = "activate", !.prvp = Nobody, !.nxtp = Nobody]
    /\ UNCHANGED <<ins, protocol, free, offs, rendering, alloc_spinlock, queue, call, perf, todo>>

\* A new note is active before its init pass has run, which holds no lock.
SetFields(finite) ==
    LET i == event.ip IN
    /\ EventAt("activate") \/ EventAt("fields")
    /\ ins' = [ins EXCEPT ![i].actflg = @ \/ event.pc = "activate", ![i].xtratim = FALSE,
                          ![i].relesing = FALSE, ![i].finite = finite]
    /\ event' = [event EXCEPT !.pc = "pass", !.finite = finite]
    /\ alloc_spinlock' = "free"
    /\ UNCHANGED <<protocol, lists, rendering, queue, call, perf, todo>>

NoMemory ==
    /\ EventAt("find") /\ ~\E i \in Inst : Takes(i)
    /\ EventGoes("done")
    /\ UNCHANGED <<ins, protocol, lists, rendering, alloc_spinlock, queue, call, perf, todo>>

\* An opcode turns a note off at init time (turnoff2_i).
InitTurnoff(j, how) ==
    /\ "turnoff" \in Uses /\ (EventAt("pass") \/ EventAt("repass"))
    /\ InChain(j)
    /\ TurnOff("event", j, how)
    /\ UNCHANGED <<ins, protocol, lists, rendering, alloc_spinlock, queue, perf, event, todo>>

\* The pass ends; its opcodes may have opened a file, with or without an
\* asynchronous reader, and asked for release time.  A note with p3 = 0 goes
\* the way of an error.
EndPass(error, open, xtra) ==
    LET i == event.ip IN
    /\ EventAt("pass") \/ EventAt("repass")
    /\ {open} \ {"none"} \subseteq Uses
    /\ xtra => "xtratim" \in Uses
    /\ error /\ event.pc = "repass" => "reinit error" \in Uses
    /\ event' = [event EXCEPT !.pc = IF @ = "pass" THEN "relock" ELSE "reinitlock",
                              !.error = error]
    /\ ins' = [ins EXCEPT ![i].xtratim = @ \/ xtra, ![i].fdchp = @ \/ open # "none",
                          ![i].async = IF open = "async" THEN "held" ELSE @]
    /\ UNCHANGED <<protocol, lists, rendering, alloc_spinlock, queue, call, perf, todo>>

Relock ==
    /\ EventAt("relock") \/ EventAt("reinitlock")
    /\ EventLock
    /\ EventGoes(IF event.pc = "relock" THEN "finish" ELSE "refinish")
    /\ UNCHANGED <<ins, protocol, lists, rendering, queue, call, perf, todo>>

FinishNote ==
    LET i == event.ip IN
    /\ EventAt("finish")
    /\ InitFinish(i)
    /\ ins' = [ins EXCEPT ![i].init_done = FALSE]
    /\ event' = [event EXCEPT
           !.pc = IF FinishTurnsOff(i) THEN "done"
                  ELSE IF event.error THEN "request" ELSE "sched",
           !.error = FALSE, !.complete = FinishCompletes(i)]
    /\ UNCHANGED <<lists, rendering, alloc_spinlock, queue, call, perf, todo>>

\* instance_init_request_turnoff
Request ==
    /\ EventAt("request")
    /\ RequestTurnoff(event.ip)
    /\ ins' = [ins EXCEPT ![event.ip].init_done = FALSE]
    /\ EventGoes("done")
    /\ UNCHANGED <<lists, rendering, alloc_spinlock, queue, call, perf, todo>>

\* sched_off_time; a note that is late already expires on this thread, with
\* whatever else is due.
Schedule(late) ==
    LET i == event.ip IN
    /\ EventAt("sched")
    /\ IF event.finite
       THEN /\ offs' = Count(offs, i, 1)
            /\ EventGoes(IF late THEN "expiring" ELSE "publish")
            /\ UNCHANGED ins
       ELSE /\ ~late
            /\ ins' = [ins EXCEPT ![i].finite = FALSE]
            /\ EventGoes("publish") /\ UNCHANGED offs
    /\ UNCHANGED <<protocol, link, free, rendering, alloc_spinlock, queue, call, perf, todo>>

EventExpire(i) == event.pc = "expiring" /\ Expire("event", i)

EventExpireEnd ==
    /\ EventAt("expiring")
    /\ EventGoes("publish")
    /\ UNCHANGED <<ins, protocol, lists, rendering, alloc_spinlock, queue, call, perf, todo>>

\* instance_publish_ready
Publish ==
    LET i == event.ip IN
    /\ EventAt("publish")
    /\ ins' = [ins EXCEPT ![i].init_done =
           @ \/ (/\ event.complete /\ ins[i].actflg
                 /\ turnoff_pending[i] = "none" /\ init_running[i] = 0)]
    /\ EventGoes("done")
    /\ UNCHANGED <<protocol, lists, rendering, alloc_spinlock, queue, call, perf, todo>>

EventDone ==
    /\ EventAt("done")
    /\ event' = [event EXCEPT !.pc = "idle", !.ip = Nobody, !.complete = FALSE]
    /\ alloc_spinlock' = "free"
    /\ UNCHANGED <<ins, protocol, lists, rendering, queue, call, perf, todo>>

-----------------------------------------------------------------------------
(* ... a reinit pass, and the readers that have stopped.                   *)

FinishReinit ==
    LET i == event.ip IN
    /\ EventAt("refinish")
    /\ InitFinish(i)
    /\ event' = [event EXCEPT
           !.pc = IF event.error THEN "request"
                  ELSE IF FinishTurnsOff(i) THEN "done" ELSE "reactivate",
           !.error = FALSE, !.complete = FinishCompletes(i)]
    /\ ins' = IF event.error \/ FinishTurnsOff(i)
              THEN [ins EXCEPT ![i].init_done = FALSE] ELSE ins
    /\ UNCHANGED <<lists, rendering, alloc_spinlock, queue, call, perf, todo>>

Reactivate ==
    /\ EventAt("reactivate")
    /\ ins' = [ins EXCEPT ![event.ip].actflg = TRUE]
    /\ EventGoes(IF event.complete THEN "ready" ELSE "done")
    /\ UNCHANGED <<protocol, lists, rendering, alloc_spinlock, queue, call, perf, todo>>

Ready ==
    /\ EventAt("ready")
    /\ ins' = [ins EXCEPT ![event.ip].init_done = TRUE]
    /\ EventGoes("done")
    /\ UNCHANGED <<protocol, lists, rendering, alloc_spinlock, queue, call, perf, todo>>

\* Mutant of DrainReader: closing is always left to the turnoff.
DrainReader_NoClose(i) ==
    /\ EventAt("idle") /\ ins[i].async = "stopped"
    /\ ins' = [ins EXCEPT ![i].async = "none"]
    /\ UNCHANGED <<protocol, lists, rendering, alloc_spinlock, queue, call, perf, event, todo>>

\* diskin2_async_drain_deferred: the last reader closes the files of an owner
\* that is inactive.
DrainReader(i) ==
    /\ EventAt("idle") /\ ins[i].async = "stopped"
    /\ ins' = [ins EXCEPT ![i].async = "none", ![i].fdchp = @ /\ ins[i].actflg]
    /\ UNCHANGED <<protocol, lists, rendering, alloc_spinlock, queue, call, perf, event, todo>>

-----------------------------------------------------------------------------
CallStep(t) ==
    \/ ClaimNote(t) \/ Revive(t) \/ NoRelease(t) \/ Unschedule(t)
    \/ Extend(t) \/ GiveBack(t) \/ Reschedule(t)
    \/ Deinit(t) \/ Unlink(t) \/ LinkAhead(t) \/ LinkBack(t) \/ Retire(t) \/ Close(t)
    \/ List(t) \/ Return(t)

ReinitStep ==
    \/ KeepFlags \/ BeginReinit \/ ClearDone \/ ClearActive \/ PostReinit
    \/ UndoReinit \/ RestoreDone \/ RestoreActive \/ ReinitError

PerfStep ==
    \/ CallStep("perf") \/ ReinitStep
    \/ TakeHandoff \/ SkipHandoff \/ HandoffDone \/ HandoffEnd
    \/ TryExpire \/ ExpireEnd \/ TakeEvents \/ EndEvents \/ PostNote
    \/ BeginSection \/ EndTurnoffs \/ EndSection
    \/ BeginRender \/ Visit \/ OpReinit \/ OpsEnd \/ NextInstance \/ EndRender
    \/ \E i \in Inst : HandoffTurnoff(i) \/ ExpireDue(i) \/ NoteOff(i) \/ SectionTurnoff(i)
    \/ \E j \in Inst, how \in {"release", "now"} : OpTurnoff(j, how)

SpliceStep == PassBy \/ Place \/ SpliceBehind \/ OwnLinks \/ SpliceAhead

EventStep ==
    \/ CallStep("event") \/ SpliceStep
    \/ Dequeue \/ LockForNote \/ Room \/ NoMemory \/ BeginTie \/ BeginNote \/ Relock
    \/ FinishNote \/ Request \/ Publish \/ EventDone \/ EventExpireEnd
    \/ FinishReinit \/ Reactivate \/ Ready
    \/ \E i \in Inst : MakeRoom(i) \/ FindTie(i) \/ TakeNote(i) \/ EventExpire(i) \/ DrainReader(i)
    \/ \E finite \in BOOLEAN : SetFields(finite)
    \/ \E j \in Inst, how \in {"release", "now"} : InitTurnoff(j, how)
    \/ \E error \in BOOLEAN, open \in {"none", "file", "async"}, xtra \in BOOLEAN : EndPass(error, open, xtra)
    \/ \E late \in BOOLEAN : Schedule(late)

Next == PerfStep \/ EventStep

Spec == Init /\ [][Next]_vars

(* A thread goes on while it can; an instance has finitely many opcodes, a *)
(* period finitely many events, the off-time list finitely many due notes. *)
(* Nothing in the code stops a spin lock from meeting a busy lock for ever; *)
(* that it does not is assumed (the sections are short).                   *)
PerfProgress ==
    \/ CallStep("perf") \/ ReinitStep
    \/ SkipHandoff \/ HandoffDone \/ HandoffEnd \/ TryExpire \/ Visit \/ NextInstance \/ EndRender
    \/ \E i \in Inst : HandoffTurnoff(i)

EventProgress ==
    \/ CallStep("event") \/ SpliceStep
    \/ Dequeue \/ Room \/ BeginTie \/ BeginNote \/ FinishNote \/ Request \/ Publish
    \/ EventDone \/ FinishReinit \/ Reactivate \/ Ready \/ NoMemory
    \/ \E late, finite \in BOOLEAN : Schedule(late) \/ SetFields(finite)
    \/ \E i \in Inst : FindTie(i) \/ TakeNote(i)

Fairness ==
    /\ WF_vars(PerfProgress) /\ WF_vars(EventProgress)
    /\ SF_vars(TakeHandoff) /\ SF_vars(BeginRender)
    /\ SF_vars(ExpireEnd \/ EndEvents \/ OpsEnd)
    /\ SF_vars(\/ LockForNote \/ Relock \/ EventExpireEnd
               \/ \E i \in Inst : MakeRoom(i)
               \/ \E error, xtra \in BOOLEAN, open \in {"none", "file", "async"} :
                      EndPass(error, open, xtra))

LiveSpec == Spec /\ Fairness

-----------------------------------------------------------------------------
(* Properties.                                                             *)

\* The fields are what the structures hold; in particular every finish of an
\* init pass matches a begin (init_running is never negative).
TypeOK ==
    /\ DOMAIN ins = Inst
    /\ init_running \in [Inst -> Nat]
    /\ turnoff_pending \in [Inst -> {"none", "requested", "finalizing"}]
    /\ handoff \in [Inst -> 0..2] /\ free \in [Inst -> 0..2] /\ offs \in [Inst -> 0..2]
    /\ rendering \in BOOLEAN /\ alloc_spinlock \in {"free"} \cup Thread
    /\ queue \in Seq(Inst \cup {Nobody}) /\ todo \subseteq Inst

InPass(i) == event.pc \in {"pass", "repass"} /\ event.ip = i
InDeinit(t, i) == call[t].at = "deinit" /\ call[t].ip = i

\* Init, reinit and deinit passes of one instance never overlap, whichever
\* threads run them: opcode state is only ever touched by one pass at a time
\* (instance_init_begin against instance_turnoff_claim).
PassesExclusive ==
    \A i \in Inst :
        /\ InPass(i) => \A t \in Thread : ~InDeinit(t, i)
        /\ ~(InDeinit("perf", i) /\ InDeinit("event", i))

\* An instance is linked at most once through init_turnoff_next, on the
\* hand-off list or in the batch being worked off; a second link would cut
\* the list or close it into a ring.
HandoffOnce == \A i \in Inst : handoff[i] + perf.batch[i] <= 1

\* A note is at most once on the list through nxtoff, so time_expire ends.
OffOnce == \A i \in Inst : offs[i] <= 1

\* Everything the engine can still reach - the chain, the lists, the queue,
\* the walk, a pass or a turnoff in progress - has its memory, although
\* section ends free what is inactive.
NoDangling ==
    LET held == {perf.cur, perf.nxt, event.ip} \cup {call[t].ip : t \in Thread}
                  \cup {queue[k] : k \in DOMAIN queue}
                  \cup {i \in Inst : InChain(i) \/ free[i] > 0 \/ offs[i] > 0
                                       \/ handoff[i] + perf.batch[i] > 0}
    IN  \A i \in held \ {Nobody} : ins[i].alloc

\* An instance is taken for a new note only when nothing of its last one is
\* left: not in the chain, on no list, in no turnoff, and not retained by the
\* walk of the chain that is under way (retired_epoch).
ReuseSafe ==
    [][ \A i \in Inst : event.pc = "find" /\ event'.pc = "begin" /\ event'.ip = i =>
            /\ i \notin {perf.cur, perf.nxt} \cup {call[t].ip : t \in Thread}
            /\ ~InChain(i) /\ offs[i] = 0 /\ handoff[i] + perf.batch[i] = 0 ]_vars

\* Every note that is in the chain when the period begins, and that nothing
\* unlinks, is visited: a walk that stands on an unlinked note finds back.
AllVisited == [][ EndRender => todo = {} ]_vars

\* The files of a note do not outlive it: turnoff or the last reader closes
\* them, and each leaves it to the other at the right moment.
FilesClosed ==
    \A i \in Inst :
        ins[i].fdchp /\ ~InChain(i) /\ ins[i].async = "none" =>
            \/ init_running[i] > 0
            \/ \E t \in Thread : call[t].ip = i /\ call[t].at \notin {"list", "complete"}

\* A note-off or the end of a note's time that finds a reinit of the note in the
\* queue is not forgotten: the note is being turned off, or a request is left
\* (goto_ops.c, reinit: "A concurrent turnoff is retained until the event
\* thread finishes it").
TurnoffRetained ==
    [][ \A i \in Inst : (NoteOff(i) \/ ExpireDue(i)) /\ (\E k \in DOMAIN queue : queue[k] = i) =>
            (turnoff_pending[i] # "none" \/ call["perf"].ip = i \/ ins[i].relesing)' ]_vars

\* A turnoff that met an init pass takes place when the pass has ended, unless
\* the performance thread finds alloc_spinlock busy in every period from some
\* moment on: it only tries the lock once a period.
RequestHonoured ==
    []<>(perf.pc = "pending" /\ alloc_spinlock = "free")
        => \A i \in Inst : turnoff_pending[i] = "requested" ~> ~InChain(i)

=============================================================================
