------------------------ MODULE InstanceLife_proofs ------------------------
(***************************************************************************)
(* For any number of instances, any queue and any use of the orchestra,    *)
(* and whatever the interleaving of the two threads: the passes of an      *)
(* instance exclude each other, and no instance is handed over twice.  The *)
(* invariant accounts for the two words of an instance: init_running       *)
(* counts the reinits queued for it or about to be, and the pass of the    *)
(* event thread; "finalizing" means that exactly one place owns its        *)
(* turnoff.                                                                *)
(*                                                                         *)
(* The second part is about an orchestra and a host that use no turnoff    *)
(* but those under alloc_spinlock, and no reinit (Serial): no note is      *)
(* listed twice on the off-time list, and the files of a note are closed.  *)
(***************************************************************************)
EXTENDS InstanceLife, TLAPS, FiniteSetTheorems

PerfPc == {"pending", "batch", "batched", "expire", "expiring", "events", "rtevents",
           "section", "purge", "walk", "run", "step", "reinit", "rebegin", "undone",
           "inactive", "enqueue", "refused", "redone", "active", "error"}
EventPc == {"idle", "lock", "room", "find", "tie", "begin", "place", "behind", "own", "ahead",
            "activate", "fields", "pass", "relock", "finish", "request", "sched", "expiring",
            "publish", "done", "repass", "reinitlock", "refinish", "reactivate", "ready"}

Fields == [alloc : BOOLEAN, actflg : BOOLEAN, init_done : BOOLEAN, retired : BOOLEAN,
           relesing : BOOLEAN, xtratim : BOOLEAN, finite : BOOLEAN, fdchp : BOOLEAN,
           async : {"none", "held", "stopped"}]

Some == Inst \cup {Nobody}
Node == Inst \cup {Anchor, Nobody}

CallAt == {"none", "claim", "revive", "now", "unschedule", "extend", "giveback", "reschedule",
           "deinit", "unlink", "ahead", "back", "retire", "close", "list", "complete"}

Calls == [at : CallAt,
          ip : Some, how : {"none", "release", "now", "deact", "forced"}, p : Node, n : Some]

Links == [nxt : [Inst \cup {Anchor} -> Some], prv : [Inst -> Node]]

Perfs == [pc : PerfPc, cur : Some, nxt : Some, batch : [Inst -> Nat],
          kept : [init_done : BOOLEAN, actflg : BOOLEAN]]

Events == [pc : EventPc, ip : Some, prvp : Node, nxtp : Some,
           finite : BOOLEAN, error : BOOLEAN, complete : BOOLEAN]

Types ==
    /\ ins \in [Inst -> Fields]
    /\ init_running \in [Inst -> Nat]
    /\ turnoff_pending \in [Inst -> {"none", "requested", "finalizing"}]
    /\ handoff \in [Inst -> Nat]
    /\ link \in Links
    /\ rendering \in BOOLEAN
    /\ queue \in Seq(Some)
    /\ call \in [Thread -> Calls]
    /\ perf \in Perfs
    /\ event \in Events

\* Where the performance thread is in no turnoff.
Clear == {"pending", "batch", "expire", "purge", "walk", "reinit", "rebegin", "undone",
          "inactive", "enqueue", "refused", "redone", "active", "error"}

\* What a thread turns off, and how.
CallInv(t) ==
    /\ call[t].at # "none" => call[t].ip \in Inst
    /\ call[t].at = "revive" => call[t].how = "forced"
    /\ call[t].at = "claim" => call[t].how \in {"release", "now", "deact"}
    /\ call[t].at \in {"extend", "giveback", "reschedule"} => call[t].how # "forced"
    /\ call[t].at = "unschedule" /\ call[t].how = "forced" => ~ins[call[t].ip].xtratim
    /\ call[t].how = "forced" =>
          /\ t = "perf" /\ perf.pc = "batched"
          /\ call[t].at # "none" /\ call[t].ip = perf.cur
    /\ call[t].at \in {"ahead", "back"} => call[t].p # Nobody
    /\ call[t].at = "back" => call[t].n # Nobody

\* Where the threads are, and with what.
ControlInv ==
    /\ perf.pc \in Clear => call["perf"].at = "none"
    /\ perf.pc \in {"batched", "run", "step", "reinit", "rebegin", "undone", "inactive",
                    "enqueue", "refused", "redone", "active", "error"} => perf.cur \in Inst
    /\ perf.pc \notin {"batch", "batched"} => \A i \in Inst : perf.batch[i] = 0
    /\ event.pc \notin {"idle", "lock", "room", "find", "done"} => event.ip \in Inst
    /\ event.pc \in {"place", "behind", "own", "ahead"} => event.prvp # Nobody
    /\ event.pc = "behind" => event.nxtp # Nobody

\* How often i is in the queue.
Queued(i) == Cardinality({k \in 1..Len(queue) : queue[k] = i})

\* Where a thread is between the begin and the finish of a pass.
Passing   == {"place", "behind", "own", "ahead", "activate", "fields", "pass", "relock",
              "finish", "repass", "reinitlock", "refinish"}
Reiniting == {"undone", "inactive", "enqueue", "refused"}

\* init_running counts what it should.
DepthInv(i) ==
    init_running[i] = Queued(i)
                      + (IF perf.pc \in Reiniting /\ perf.cur = i THEN 1 ELSE 0)
                      + (IF event.pc \in Passing /\ event.ip = i THEN 1 ELSE 0)

\* A turnoff that has made its claim and not given it back.
Claimed == {"now", "unschedule", "extend", "giveback", "deinit", "unlink", "ahead", "back",
            "retire", "close", "list", "complete"}

\* The places that own the turnoff of an instance.
Owners(i) ==
    handoff[i] + perf.batch[i]
      + (IF perf.pc = "batched" /\ perf.cur = i THEN 1 ELSE 0)
      + (IF call["perf"].at \in Claimed /\ call["perf"].how # "forced" /\ call["perf"].ip = i
         THEN 1 ELSE 0)
      + (IF call["event"].at \in Claimed /\ call["event"].ip = i THEN 1 ELSE 0)

OwnerInv(i) ==
    /\ Owners(i) = IF turnoff_pending[i] = "finalizing" THEN 1 ELSE 0
    /\ turnoff_pending[i] = "finalizing" => init_running[i] = 0

WordsInv(i) == DepthInv(i) /\ OwnerInv(i)

IInv ==
    /\ Types /\ ControlInv
    /\ \A t \in Thread : CallInv(t)
    /\ \A i \in Inst : WordsInv(i)

USE DEF protocol, lists, Some, Node

-----------------------------------------------------------------------------
(* The queue.                                                              *)

\* The places of i in the queue are finitely many.
LEMMA QueuedType ==
    ASSUME queue \in Seq(Some), NEW i
    PROVE  /\ IsFiniteSet({k \in 1..Len(queue) : queue[k] = i})
           /\ Queued(i) \in Nat
<1>1. IsFiniteSet(1..Len(queue))
  BY FS_Interval
<1>2. IsFiniteSet({k \in 1..Len(queue) : queue[k] = i})
  BY <1>1, FS_Subset
<1> QED BY <1>2, FS_CardinalityType DEF Queued

\* A request at the end of the queue.
LEMMA QueueAppend ==
    ASSUME queue \in Seq(Some), NEW x \in Some, queue' = Append(queue, x), NEW i
    PROVE  /\ x = i => Queued(i)' = Queued(i) + 1
           /\ x # i => Queued(i)' = Queued(i)
<1> DEFINE S == {k \in 1..Len(queue) : queue[k] = i}
           T == {k \in 1..Len(queue') : queue'[k] = i}
<1>1. /\ Len(queue') = Len(queue) + 1 /\ Len(queue) \in Nat
      /\ queue'[Len(queue) + 1] = x
      /\ \A k \in 1..Len(queue) : queue'[k] = queue[k]
  OBVIOUS
<1>2. T = IF x = i THEN S \cup {Len(queue) + 1} ELSE S
  BY <1>1
<1>3. IsFiniteSet(S) /\ Len(queue) + 1 \notin S /\ Cardinality(S) \in Nat
  <2>1. IsFiniteSet(S) /\ Cardinality(S) \in Nat
    BY QueuedType DEF Queued
  <2> QED BY <1>1, <2>1
<1>4. ASSUME x = i PROVE Cardinality(T) = Cardinality(S) + 1
  <2>1. T = S \cup {Len(queue) + 1}
    BY <1>2, <1>4
  <2> HIDE DEF S, T
  <2>2. Cardinality(S \cup {Len(queue) + 1}) = Cardinality(S) + 1
    BY <1>3, FS_AddElement
  <2> QED BY <2>1, <2>2
<1>5. ASSUME x # i PROVE T = S
  BY <1>2, <1>5
<1> QED BY <1>4, <1>5 DEF Queued

\* A request from the front of the queue.
LEMMA QueueTail ==
    ASSUME queue \in Seq(Some), queue # <<>>, queue' = Tail(queue), NEW i
    PROVE  /\ Head(queue) = i => Queued(i) = Queued(i)' + 1
           /\ Head(queue) # i => Queued(i) = Queued(i)'
           /\ Queued(i)' \in Nat
<1> DEFINE S == {k \in 1..Len(queue) : queue[k] = i}
           T == {k \in 1..Len(queue') : queue'[k] = i}
           f == [k \in T |-> k + 1]
<1>1. /\ Len(queue') = Len(queue) - 1 /\ Len(queue) \in Nat /\ Len(queue) > 0
      /\ Head(queue) = queue[1]
      /\ \A k \in 1..Len(queue') : queue'[k] = queue[k + 1]
  OBVIOUS
<1>2. IsFiniteSet(S) /\ Cardinality(S) \in Nat
  BY QueuedType DEF Queued
<1>3. IsFiniteSet(T) /\ Cardinality(T) \in Nat
  <2>1. queue' \in Seq(Some)
    OBVIOUS
  <2>2. IsFiniteSet(1..Len(queue'))
    BY <1>1, FS_Interval
  <2>3. IsFiniteSet(T)
    BY <2>2, FS_Subset
  <2> QED BY <2>3, FS_CardinalityType
<1>4. f \in Bijection(T, S \ {1})
  <2>1. f \in [T -> S \ {1}]
    BY <1>1
  <2>2. \A a, b \in T : f[a] = f[b] => a = b
    BY <1>1
  <2>3. ASSUME NEW k \in S \ {1} PROVE \E a \in T : f[a] = k
    <3>1. k - 1 \in T /\ f[k - 1] = k
      BY <1>1
    <3> QED BY <3>1
  <2> QED BY <2>1, <2>2, <2>3 DEF Bijection, Injection, Surjection, IsInjective
<1>5. Cardinality(S \ {1}) = Cardinality(T)
  <2>1. ExistsBijection(T, S \ {1})
    BY <1>4 DEF ExistsBijection
  <2> HIDE DEF S, T, f
  <2> QED BY <1>3, <2>1, FS_Bijection
<1>6. 1 \in S <=> Head(queue) = i
  BY <1>1
<1>7. /\ 1 \in S => Cardinality(S \ {1}) = Cardinality(S) - 1
      /\ 1 \notin S => Cardinality(S \ {1}) = Cardinality(S)
  <2> HIDE DEF S, T, f
  <2> QED BY <1>2, FS_RemoveElement
<1>8. Queued(i) = Cardinality(S) /\ Queued(i)' = Cardinality(T)
  BY DEF Queued
<1> HIDE DEF S, T, f
<1> QED BY <1>2, <1>3, <1>5, <1>6, <1>7, <1>8

-----------------------------------------------------------------------------
(* Steps that leave the words of an instance alone.                        *)

\* What a step has to leave as it is for the words of j to stay right.
Quiet(j) ==
    /\ init_running'[j] = init_running[j] /\ turnoff_pending'[j] = turnoff_pending[j]
    /\ Queued(j)' = Queued(j)
    /\ Owners(j)' = Owners(j)
    /\ (event'.pc \in Passing /\ event'.ip = j) <=> (event.pc \in Passing /\ event.ip = j)
    /\ (perf'.pc \in Reiniting /\ perf'.cur = j) <=> (perf.pc \in Reiniting /\ perf.cur = j)

\* Such a step keeps them right.
LEMMA QuietKeeps == ASSUME NEW j \in Inst, WordsInv(j), Quiet(j) PROVE WordsInv(j)'
  BY DEF Quiet, WordsInv, DepthInv, OwnerInv

\* A thread in a pass of i, or a reinit to come, has no turnoff of i beside it.
LEMMA OwnedIsIdle ==
    ASSUME IInv, NEW i \in Inst,
           \/ event.pc \in Passing /\ event.ip = i
           \/ perf.pc \in Reiniting /\ perf.cur = i
    PROVE  /\ init_running[i] > 0 /\ turnoff_pending[i] # "finalizing"
           /\ Owners(i) = 0
<1>1. Queued(i) \in Nat /\ DepthInv(i) /\ OwnerInv(i)
  BY QueuedType DEF IInv, Types, WordsInv
<1>2. init_running[i] > 0
  BY <1>1 DEF DepthInv
<1> QED BY <1>1, <1>2 DEF OwnerInv

\* The places that may own a turnoff, one by one.
LEMMA OwnerParts ==
    ASSUME IInv, NEW i \in Inst
    PROVE  /\ handoff[i] \in Nat /\ perf.batch[i] \in Nat
           /\ Owners(i) \in Nat /\ Owners(i) <= 1
           /\ Owners(i) = 1 <=> turnoff_pending[i] = "finalizing"
           /\ handoff[i] + perf.batch[i] <= Owners(i)
           /\ perf.pc = "batched" /\ perf.cur = i => Owners(i) = 1
           /\ \A t \in Thread : call[t].at \in Claimed /\ call[t].ip = i => Owners(i) = 1
<1>1. handoff[i] \in Nat /\ perf.batch[i] \in Nat /\ OwnerInv(i)
  BY DEF IInv, Types, Perfs, WordsInv
<1>2. call["perf"].how = "forced" /\ call["perf"].ip = i => perf.pc = "batched" /\ perf.cur = i
  BY DEF IInv, CallInv, Thread
<1> QED BY <1>1, <1>2 DEF Owners, OwnerInv, Thread

-----------------------------------------------------------------------------
(* Where a thread may be without its turnoffs and passes being concerned.  *)

Located == {"batched", "run", "step", "reinit", "rebegin", "undone", "inactive", "enqueue",
            "refused", "redone", "active", "error"}

\* The performance thread moves on, in no hand-off, and the words stay.
LEMMA PerfFrame ==
    ASSUME IInv, UNCHANGED <<init_running, turnoff_pending, handoff, link, queue, call, event>>,
           ins' \in [Inst -> Fields], rendering' \in BOOLEAN, perf' \in Perfs,
           perf.pc # "batched", perf'.pc # "batched", perf'.batch = perf.batch,
           \A j \in Inst : (perf'.pc \in Reiniting /\ perf'.cur = j)
                              <=> (perf.pc \in Reiniting /\ perf.cur = j),
           perf'.pc \in Clear => call["perf"].at = "none",
           perf'.pc \in Located => perf'.cur \in Inst,
           perf'.pc # "batch" => \A j \in Inst : perf.batch[j] = 0
    PROVE  IInv'
<1>1. Types'
  BY DEF IInv, Types
<1>2. ControlInv'
  BY DEF IInv, ControlInv, Located
<1>3. ASSUME NEW t \in Thread PROVE CallInv(t)'
  BY DEF IInv, CallInv
<1>4. ASSUME NEW j \in Inst PROVE WordsInv(j)'
  <2>1. Queued(j)' = Queued(j)
    BY DEF Queued
  <2>2. Owners(j)' = Owners(j)
    BY DEF Owners
  <2>3. Quiet(j)
    BY <2>1, <2>2 DEF Quiet
  <2> QED BY <2>3, QuietKeeps DEF IInv
<1> QED BY <1>1, <1>2, <1>3, <1>4 DEF IInv

\* The event thread moves on within or without a pass, and the words stay.
LEMMA EventFrame ==
    ASSUME IInv, UNCHANGED <<init_running, turnoff_pending, handoff, queue, call, perf>>,
           ins' \in [Inst -> Fields], link' \in Links, UNCHANGED rendering, event' \in Events,
           \A j \in Inst : (event'.pc \in Passing /\ event'.ip = j)
                              <=> (event.pc \in Passing /\ event.ip = j),
           \A j \in Inst : ins'[j].xtratim =>
                              ins[j].xtratim \/ (event.pc \in Passing /\ event.ip = j),
           event'.pc \notin {"idle", "lock", "room", "find", "done"} => event'.ip \in Inst,
           event'.pc \in {"place", "behind", "own", "ahead"} => event'.prvp # Nobody,
           event'.pc = "behind" => event'.nxtp # Nobody
    PROVE  IInv'
<1>1. Types'
  BY DEF IInv, Types
<1>2. ControlInv'
  BY DEF IInv, ControlInv
<1>3. ASSUME NEW t \in Thread PROVE CallInv(t)'
  <2>1. CallInv(t) /\ UNCHANGED call /\ UNCHANGED perf
    BY DEF IInv
  <2>2. ASSUME call[t].at = "unschedule", call[t].how = "forced" PROVE ~ins'[call[t].ip].xtratim
    <3>1. /\ call[t].ip \in Inst /\ perf.pc = "batched" /\ call[t].ip = perf.cur
          /\ ~ins[call[t].ip].xtratim
      BY <2>1, <2>2 DEF CallInv
    <3>2. Owners(call[t].ip) = 1
      BY <3>1, OwnerParts
    <3>3. ~(event.pc \in Passing /\ event.ip = call[t].ip)
      BY <3>1, <3>2, OwnedIsIdle
    <3> QED BY <3>1, <3>3
  <2> QED BY <2>1, <2>2 DEF CallInv
<1>4. ASSUME NEW j \in Inst PROVE WordsInv(j)'
  <2>1. Queued(j)' = Queued(j)
    BY DEF Queued
  <2>2. Owners(j)' = Owners(j)
    BY DEF Owners
  <2>3. Quiet(j)
    BY <2>1, <2>2 DEF Quiet
  <2> QED BY <2>3, QuietKeeps DEF IInv
<1> QED BY <1>1, <1>2, <1>3, <1>4 DEF IInv

-----------------------------------------------------------------------------
(* The performance thread.                                                 *)

\* Its steps that concern no word.
PerfMoves ==
    \/ SkipHandoff \/ HandoffEnd \/ TryExpire \/ ExpireEnd \/ TakeEvents \/ EndEvents
    \/ BeginSection \/ EndTurnoffs \/ EndSection \/ BeginRender \/ Visit
    \/ OpReinit \/ KeepFlags \/ ClearDone \/ ClearActive \/ RestoreDone \/ RestoreActive
    \/ OpsEnd \/ NextInstance \/ EndRender

\* A store into one field of an instance.
LEMMA Stores ==
    ASSUME NEW r \in Fields, NEW b \in BOOLEAN
    PROVE  /\ [r EXCEPT !.retired = b] \in Fields /\ [r EXCEPT !.retired = b].xtratim = r.xtratim
           /\ [r EXCEPT !.actflg = b] \in Fields /\ [r EXCEPT !.actflg = b].xtratim = r.xtratim
           /\ [r EXCEPT !.init_done = b] \in Fields /\ [r EXCEPT !.init_done = b].xtratim = r.xtratim
           /\ [r EXCEPT !.finite = b] \in Fields /\ [r EXCEPT !.finite = b].xtratim = r.xtratim
  BY DEF Fields

\* An instance gets a new value.
LEMMA Updates ==
    ASSUME ins \in [Inst -> Fields], NEW i, NEW r, i \in Inst => r \in Fields,
           ins' = [ins EXCEPT ![i] = r]
    PROVE  /\ ins' \in [Inst -> Fields]
           /\ i \in Inst => ins'[i] = r
           /\ \A j \in Inst : j # i => ins'[j] = ins[j]
  OBVIOUS

\* The fields are what they should be after any of them.
LEMMA PerfMovesFields == ASSUME IInv, PerfMoves PROVE ins' \in [Inst -> Fields]
<1>1. ins \in [Inst -> Fields] /\ perf \in Perfs
  BY DEF IInv, Types
<1>2. CASE EndSection
  <2>1. [Blank EXCEPT !.alloc = FALSE] \in Fields
    BY DEF Blank, Fields
  <2> QED BY <1>1, <1>2, <2>1 DEF EndSection, FreeInactive
<1>3. CASE EndRender
  BY <1>1, <1>3, Stores DEF EndRender
<1>4. CASE ClearDone \/ ClearActive
  BY <1>1, <1>4, Stores, Updates DEF ClearDone, ClearActive
<1>5. CASE RestoreDone \/ RestoreActive
  <2>1. perf.kept.init_done \in BOOLEAN /\ perf.kept.actflg \in BOOLEAN
    BY <1>1 DEF Perfs
  <2> QED BY <1>1, <1>5, <2>1, Stores, Updates DEF RestoreDone, RestoreActive
<1> QED BY <1>1, <1>2, <1>3, <1>4, <1>5
        DEF PerfMoves, SkipHandoff, HandoffEnd, TryExpire, ExpireEnd, TakeEvents, EndEvents,
            BeginSection, EndTurnoffs, BeginRender, Visit, OpReinit, KeepFlags, OpsEnd,
            NextInstance

\* None of them disturbs the invariant.
LEMMA PerfMovesStep == ASSUME IInv, PerfMoves PROVE IInv'
<1>1. ins' \in [Inst -> Fields]
  BY PerfMovesFields
<1>2. /\ UNCHANGED <<init_running, turnoff_pending, handoff, link, queue, call, event>>
      /\ rendering' \in BOOLEAN
  BY DEF PerfMoves, SkipHandoff, HandoffEnd, TryExpire, ExpireEnd, TakeEvents, EndEvents,
         BeginSection, EndTurnoffs, EndSection, BeginRender, Visit, OpReinit, KeepFlags,
         ClearDone, ClearActive, RestoreDone, RestoreActive, OpsEnd, NextInstance, EndRender,
         PerfGoes, IInv, Types
<1>3. /\ perf \in Perfs /\ ControlInv /\ link \in Links /\ ins \in [Inst -> Fields]
      /\ call["perf"] \in Calls
  BY DEF IInv, Types, Thread
<1>4. perf' \in Perfs /\ perf'.batch = perf.batch
  <2>1. CASE BeginRender
    BY <1>3, <2>1 DEF BeginRender, Perfs, PerfPc, Links
  <2>2. CASE Visit
    BY <1>3, <2>2, NamesAssumption DEF Visit, Perfs, PerfPc, Links
  <2>3. CASE NextInstance
    BY <1>3, <2>3 DEF NextInstance, ControlInv, Perfs, PerfPc, Links
  <2>4. CASE KeepFlags
    BY <1>3, <2>4 DEF KeepFlags, ControlInv, Perfs, PerfPc, Fields
  <2>5. CASE \/ SkipHandoff \/ HandoffEnd \/ TryExpire \/ ExpireEnd \/ TakeEvents \/ EndEvents
             \/ BeginSection \/ EndTurnoffs \/ EndSection
    <3>1. CASE SkipHandoff \/ HandoffEnd \/ TryExpire
      BY <1>3, <3>1 DEF SkipHandoff, HandoffEnd, TryExpire, Perfs, PerfPc
    <3>2. CASE ExpireEnd \/ TakeEvents \/ EndEvents
      BY <1>3, <3>2 DEF ExpireEnd, TakeEvents, EndEvents, Perfs, PerfPc
    <3>3. CASE BeginSection \/ EndTurnoffs \/ EndSection
      BY <1>3, <3>3 DEF BeginSection, EndTurnoffs, EndSection, Perfs, PerfPc
    <3> QED BY <2>5, <3>1, <3>2, <3>3
  <2>6. CASE \/ OpReinit \/ ClearDone \/ ClearActive \/ RestoreDone \/ RestoreActive
             \/ OpsEnd \/ EndRender
    BY <1>3, <2>6 DEF OpReinit, ClearDone, ClearActive, RestoreDone, RestoreActive, OpsEnd,
         EndRender, PerfGoes, Perfs, PerfPc
  <2> QED BY <2>1, <2>2, <2>3, <2>4, <2>5, <2>6 DEF PerfMoves
<1>5. /\ perf.pc # "batched" /\ perf'.pc # "batched"
      /\ perf'.pc \in Clear => call["perf"].at = "none"
      /\ perf'.pc \in Located => perf'.cur \in Inst
      /\ perf'.pc # "batch" => \A j \in Inst : perf.batch[j] = 0
      /\ \A j \in Inst : (perf'.pc \in Reiniting /\ perf'.cur = j)
                            <=> (perf.pc \in Reiniting /\ perf.cur = j)
  <2>1. CASE SkipHandoff \/ TryExpire
    BY <1>3, <2>1 DEF SkipHandoff, TryExpire, ControlInv, Perfs, Clear, Located, Reiniting
  <2>2. CASE HandoffEnd
    BY <1>3, <2>2 DEF HandoffEnd, Empty, ControlInv, Perfs, Clear, Located, Reiniting
  <2>3. CASE ExpireEnd \/ TakeEvents \/ EndEvents
    BY <1>3, <2>3 DEF ExpireEnd, TakeEvents, EndEvents, CallFree, ControlInv, Perfs, Clear, Located, Reiniting
  <2>4. CASE BeginSection \/ EndTurnoffs \/ EndSection
    BY <1>3, <2>4 DEF BeginSection, EndTurnoffs, EndSection, CallFree, ControlInv, Perfs, Clear, Located, Reiniting
  <2>5. CASE BeginRender \/ Visit \/ NextInstance \/ EndRender
    BY <1>3, <2>5 DEF BeginRender, Visit, NextInstance, EndRender, CallFree, ControlInv, Perfs, Clear, Located, Reiniting
  <2>6. CASE OpReinit \/ KeepFlags \/ OpsEnd
    BY <1>3, <2>6 DEF OpReinit, KeepFlags, OpsEnd, PerfGoes, CallFree, ControlInv, Perfs, Clear, Located, Reiniting
  <2>7. CASE ClearDone \/ ClearActive \/ RestoreDone \/ RestoreActive
    BY <1>3, <2>7 DEF ClearDone, ClearActive, RestoreDone, RestoreActive, PerfGoes, ControlInv, Perfs, Clear, Located, Reiniting
  <2> QED BY <2>1, <2>2, <2>3, <2>4, <2>5, <2>6, <2>7 DEF PerfMoves
<1> QED BY <1>1, <1>2, <1>4, <1>5, PerfFrame

\* A note is sent to the event thread.
LEMMA PostNoteStep == ASSUME IInv, PostNote PROVE IInv'
<1>1. /\ queue \in Seq(Some) /\ Nobody \in Some /\ queue' = Append(queue, Nobody)
      /\ UNCHANGED <<ins, init_running, turnoff_pending, handoff, link, rendering, call, perf, event>>
  BY DEF PostNote, IInv, Types
<1>2. Types' /\ ControlInv'
  BY <1>1 DEF IInv, Types, ControlInv
<1>3. ASSUME NEW t \in Thread PROVE CallInv(t)'
  BY <1>1 DEF IInv, CallInv
<1>4. ASSUME NEW j \in Inst PROVE WordsInv(j)'
  <2>1. Queued(j)' = Queued(j)
    BY <1>1, QueueAppend, NamesAssumption
  <2>2. Owners(j)' = Owners(j)
    BY <1>1 DEF Owners
  <2>3. Quiet(j)
    BY <1>1, <2>1, <2>2 DEF Quiet
  <2> QED BY <2>3, QuietKeeps DEF IInv
<1> QED BY <1>2, <1>3, <1>4 DEF IInv

-----------------------------------------------------------------------------
(* The requests for a turnoff, on either thread.                           *)

\* The test of actflg: the call begins, or nothing happens.
LEMMA TurnOffCall ==
    ASSUME Types, NEW t \in Thread, NEW i \in Inst, NEW how \in {"release", "now", "deact"},
           TurnOff(t, i, how)
    PROVE  /\ call' \in [Thread -> Calls]
           /\ \A u \in Thread : u # t => call'[u] = call[u]
           /\ \/ call' = call
              \/ call'[t].at = "claim" /\ call'[t].ip = i /\ call'[t].how = how
<1>1. call \in [Thread -> Calls]
  BY DEF Types
<1>2. CASE UNCHANGED call
  BY <1>1, <1>2
<1>3. CASE ~UNCHANGED call
  <2> DEFINE c == [NoCall EXCEPT !.at = "claim", !.ip = i, !.how = how]
  <2>1. call' = [call EXCEPT ![t] = c]
    BY <1>3 DEF TurnOff
  <2>2. c \in Calls /\ c.at = "claim" /\ c.ip = i /\ c.how = how
    BY DEF NoCall, Calls, CallAt
  <2> HIDE DEF c
  <2> QED BY <1>1, <2>1, <2>2
<1> QED BY <1>2, <1>3

\* A request keeps the invariant, wherever the two threads are then.
LEMMA RequestKeeps ==
    ASSUME IInv, NEW t \in Thread, NEW i \in Inst, NEW how \in {"release", "now", "deact"},
           TurnOff(t, i, how), call[t].at = "none",
           UNCHANGED <<ins, init_running, turnoff_pending, handoff, link, rendering, queue>>,
           perf' \in Perfs, perf'.cur = perf.cur, perf'.batch = perf.batch,
           perf'.pc = perf.pc \/ (perf.pc = "error" /\ perf'.pc = "step"),
           event' \in Events, event' = event \/ (event.pc = "lock" /\ event'.pc = "room"),
           t = "perf" => perf'.pc \notin Clear
    PROVE  IInv'
<1>1. /\ call' \in [Thread -> Calls]
      /\ \A u \in Thread : u # t => call'[u] = call[u]
      /\ \/ call' = call
         \/ call'[t].at = "claim" /\ call'[t].ip = i /\ call'[t].how = how
  BY TurnOffCall DEF IInv
<1>2. Types'
  BY <1>1 DEF IInv, Types
<1>3. ControlInv'
  BY <1>1 DEF IInv, ControlInv, Thread, Clear
<1>4. ASSUME NEW u \in Thread PROVE CallInv(u)'
  <2>1. CallInv(u) /\ CallInv("perf")
    BY DEF IInv, Thread
  <2>2. CASE call'[u] = call[u]
    BY <2>1, <2>2 DEF CallInv
  <2>3. CASE u = t /\ call'[t].at = "claim" /\ call'[t].ip = i /\ call'[t].how = how
    BY <2>3 DEF CallInv
  <2> QED BY <1>1, <2>2, <2>3
<1>5. ASSUME NEW j \in Inst PROVE WordsInv(j)'
  <2>1. Queued(j)' = Queued(j)
    BY DEF Queued
  <2>2. Owners(j)' = Owners(j)
    BY <1>1 DEF Owners, Claimed, Thread
  <2>3. Quiet(j)
    BY <2>1, <2>2 DEF Quiet, Reiniting, Passing
  <2> QED BY <2>3, QuietKeeps DEF IInv
<1> QED BY <1>2, <1>3, <1>4, <1>5 DEF IInv

\* A note that enters its release stage: nothing that the words count.
LEMMA Releases ==
    ASSUME IInv, NEW t \in Thread, NEW i \in Inst, Expire(t, i), UNCHANGED call,
           t = "perf" => perf.pc = "expiring", t = "event" => event.pc = "expiring"
    PROVE  IInv'
<1>1. ins \in [Inst -> Fields] /\ link \in Links /\ perf \in Perfs /\ event \in Events
      /\ ControlInv /\ rendering \in BOOLEAN
  BY DEF IInv, Types
<1> DEFINE r == [ins[i] EXCEPT !.relesing = TRUE, !.finite = TRUE]
<1>2. r \in Fields /\ r.xtratim = ins[i].xtratim
  BY <1>1 DEF Fields
<1>3. UNCHANGED ins \/ ins' = [ins EXCEPT ![i] = r]
  BY DEF Expire
<1> HIDE DEF r
<1>4. ins' \in [Inst -> Fields] /\ \A j \in Inst : ins'[j].xtratim = ins[j].xtratim
  BY <1>1, <1>2, <1>3, Updates
<1>5. UNCHANGED <<init_running, turnoff_pending, handoff, link, rendering, queue, perf, event>>
  BY DEF Expire
<1>6. CASE t = "perf"
  BY <1>1, <1>4, <1>5, <1>6, PerfFrame DEF ControlInv, Clear, Located, Reiniting
<1>7. CASE t = "event"
  BY <1>1, <1>4, <1>5, <1>7, EventFrame DEF ControlInv, Passing
<1> QED BY <1>6, <1>7 DEF Thread

\* The end of a note's time, on either thread.
LEMMA ExpireStep ==
    ASSUME IInv, NEW t \in Thread, NEW i \in Inst, Expire(t, i),
           t = "perf" => perf.pc = "expiring", t = "event" => event.pc = "expiring"
    PROVE  IInv'
<1>1. CASE UNCHANGED call
  BY <1>1, Releases
<1>2. CASE ~UNCHANGED call
  <2>1. /\ TurnOff(t, i, "deact") /\ call[t].at = "none"
        /\ UNCHANGED <<ins, init_running, turnoff_pending, handoff, link, rendering, queue, perf, event>>
    BY <1>2 DEF Expire, CallFree
  <2>2. perf \in Perfs /\ event \in Events
    BY DEF IInv, Types
  <2> QED BY <2>1, <2>2, RequestKeeps DEF Clear
<1> QED BY <1>1, <1>2

\* Every place a thread asks for a turnoff.
LEMMA RequestStep ==
    ASSUME IInv, NEW i \in Inst, NEW how \in {"release", "now"},
           \/ NoteOff(i) \/ SectionTurnoff(i) \/ OpTurnoff(i, how) \/ ExpireDue(i) \/ ReinitError
           \/ MakeRoom(i) \/ InitTurnoff(i, how) \/ EventExpire(i)
    PROVE  IInv'
<1>1. perf \in Perfs /\ event \in Events /\ "perf" \in Thread /\ "event" \in Thread /\ ControlInv
  BY DEF IInv, Types, Thread
<1>2. CASE ExpireDue(i) \/ EventExpire(i)
  BY <1>1, <1>2, ExpireStep DEF ExpireDue, EventExpire
<1>3. CASE NoteOff(i)
  <2>1. /\ TurnOff("perf", i, "release") /\ call["perf"].at = "none"
        /\ UNCHANGED <<ins, init_running, turnoff_pending, handoff, link, rendering, queue, perf, event>>
        /\ perf.pc \in {"events", "rtevents"}
    BY <1>3 DEF NoteOff, CallFree
  <2> QED BY <1>1, <2>1, RequestKeeps DEF Clear
<1>4. CASE SectionTurnoff(i)
  <2>1. /\ TurnOff("perf", i, "now") /\ call["perf"].at = "none" /\ perf.pc = "section"
        /\ UNCHANGED <<ins, init_running, turnoff_pending, handoff, link, rendering, queue, perf, event>>
    BY <1>4 DEF SectionTurnoff, CallFree
  <2> QED BY <1>1, <2>1, RequestKeeps DEF Clear
<1>5. CASE OpTurnoff(i, how)
  <2>1. /\ TurnOff("perf", i, how) /\ call["perf"].at = "none" /\ perf.pc = "run"
        /\ UNCHANGED <<ins, init_running, turnoff_pending, handoff, link, rendering, queue, perf, event>>
    BY <1>5 DEF OpTurnoff, CallFree
  <2> QED BY <1>1, <2>1, RequestKeeps DEF Clear
<1>6. CASE ReinitError
  <2>1. /\ TurnOff("perf", perf.cur, "now") /\ perf.cur \in Inst /\ call["perf"].at = "none"
        /\ UNCHANGED <<ins, init_running, turnoff_pending, handoff, link, rendering, queue, event>>
        /\ perf.pc = "error" /\ perf' = [perf EXCEPT !.pc = "step", !.kept = Flags]
    BY <1>1, <1>6 DEF ReinitError, ControlInv, Clear
  <2>2. perf' \in Perfs /\ perf'.cur = perf.cur /\ perf'.batch = perf.batch /\ perf'.pc = "step"
    BY <1>1, <2>1 DEF Perfs, PerfPc, Flags
  <2> QED BY <1>1, <2>1, <2>2, RequestKeeps DEF Clear
<1>7. CASE MakeRoom(i)
  <2>1. /\ TurnOff("event", i, "now") /\ call["event"].at = "none" /\ event.pc = "lock"
        /\ UNCHANGED <<ins, init_running, turnoff_pending, handoff, link, rendering, queue, perf>>
        /\ event' = [event EXCEPT !.pc = "room"]
    BY <1>7 DEF MakeRoom, EventAt, EventGoes, CallFree
  <2>2. event' \in Events /\ event'.pc = "room"
    BY <1>1, <2>1 DEF Events, EventPc
  <2> QED BY <1>1, <2>1, <2>2, RequestKeeps
<1>8. CASE InitTurnoff(i, how)
  <2>1. /\ TurnOff("event", i, how) /\ call["event"].at = "none"
        /\ UNCHANGED <<ins, init_running, turnoff_pending, handoff, link, rendering, queue, perf, event>>
    BY <1>8 DEF InitTurnoff, EventAt, CallFree
  <2> QED BY <1>1, <2>1, RequestKeeps
<1> QED BY <1>2, <1>3, <1>4, <1>5, <1>6, <1>7, <1>8

-----------------------------------------------------------------------------
(* The calls.                                                              *)

\* A call moves on.
LEMMA CallGoes ==
    ASSUME Types, NEW t \in Thread, NEW at \in CallAt, Goes(t, at)
    PROVE  /\ call' \in [Thread -> Calls]
           /\ \A u \in Thread : u # t => call'[u] = call[u]
           /\ call'[t].at = at /\ call'[t].ip = call[t].ip /\ call'[t].how = call[t].how
           /\ call'[t].p = call[t].p /\ call'[t].n = call[t].n
<1> DEFINE c == [call[t] EXCEPT !.at = at]
<1>1. call \in [Thread -> Calls] /\ call' = [call EXCEPT ![t] = c]
  BY DEF Types, Goes
<1>2. /\ c \in Calls /\ c.at = at /\ c.ip = call[t].ip /\ c.how = call[t].how
      /\ c.p = call[t].p /\ c.n = call[t].n
  BY <1>1 DEF Calls
<1> HIDE DEF c
<1> QED BY <1>1, <1>2

\* A call is over.
LEMMA CallEnds ==
    ASSUME Types, NEW t \in Thread, call' = [call EXCEPT ![t] = NoCall]
    PROVE  /\ call' \in [Thread -> Calls]
           /\ \A u \in Thread : u # t => call'[u] = call[u]
           /\ call'[t].at = "none" /\ call'[t].how = "none"
<1>1. NoCall \in Calls /\ NoCall.at = "none" /\ NoCall.how = "none"
  BY DEF NoCall, Calls, CallAt
<1>2. call \in [Thread -> Calls]
  BY DEF Types
<1> QED BY <1>1, <1>2

\* A call goes on with the same note and keeps its claim, if it has made one.
LEMMA CallFrame ==
    ASSUME IInv, NEW t \in Thread, call' \in [Thread -> Calls],
           UNCHANGED <<init_running, turnoff_pending, handoff, queue, rendering, perf, event>>,
           \A u \in Thread : u # t => call'[u] = call[u],
           call[t].at # "none",
           call'[t].at # "none" => call'[t].ip = call[t].ip,
           call'[t].how = call[t].how \/ call'[t].how # "forced",
           \/ call'[t].at \in Claimed <=> call[t].at \in Claimed
           \/ t = "perf" /\ call[t].how = "forced" /\ call'[t].how = "forced",
           call'[t].how = call[t].how \/ call'[t].at \notin Claimed,
           call'[t].at = "none" => call'[t].how # "forced",
           call'[t].at \notin {"revive", "claim"},
           call'[t].at \in {"extend", "giveback", "reschedule"} => call'[t].how # "forced",
           call'[t].at = "unschedule" /\ call'[t].how = "forced" => ~ins'[call[t].ip].xtratim,
           call'[t].at \in {"ahead", "back"} => call'[t].p # Nobody,
           call'[t].at = "back" => call'[t].n # Nobody,
           ins' \in [Inst -> Fields], link' \in Links,
           \A j \in Inst : ins'[j].xtratim => ins[j].xtratim
    PROVE  IInv'
<1>1. Types'
  BY DEF IInv, Types
<1>2. ControlInv'
  BY DEF IInv, ControlInv, Thread
<1>3. ASSUME NEW u \in Thread PROVE CallInv(u)'
  <2>1. CallInv(u) /\ CallInv(t)
    BY DEF IInv
  <2>2. CASE u # t
    BY <2>1, <2>2 DEF CallInv
  <2>3. CASE u = t
    BY <2>1, <2>3 DEF CallInv
  <2> QED BY <2>2, <2>3
<1>4. ASSUME NEW j \in Inst PROVE WordsInv(j)'
  <2>1. Queued(j)' = Queued(j)
    BY DEF Queued
  <2>2. Owners(j)' = Owners(j)
    BY DEF Owners, Thread, Claimed
  <2>3. Quiet(j)
    BY <2>1, <2>2 DEF Quiet
  <2> QED BY <2>3, QuietKeeps DEF IInv
<1> QED BY <1>1, <1>2, <1>3, <1>4 DEF IInv

\* What the steps of a call make of a note.
Unreleased(f) == [f EXCEPT !.xtratim = FALSE, !.relesing = FALSE]
Released(f)   == [f EXCEPT !.relesing = TRUE, !.finite = TRUE]
Stopped(f)    == [f EXCEPT !.async = IF @ = "held" THEN "stopped" ELSE @]
Closed(f)     == [f EXCEPT !.init_done = FALSE, !.actflg = FALSE,
                           !.fdchp = @ /\ f.async # "none"]

LEMMA CallStores ==
    ASSUME NEW f \in Fields
    PROVE  /\ Unreleased(f) \in Fields /\ ~Unreleased(f).xtratim
           /\ Released(f) \in Fields /\ Released(f).xtratim = f.xtratim
           /\ Stopped(f) \in Fields /\ Stopped(f).xtratim = f.xtratim
           /\ Closed(f) \in Fields /\ Closed(f).xtratim = f.xtratim
<1>1. Unreleased(f) \in Fields /\ ~Unreleased(f).xtratim
  BY DEF Unreleased, Fields
<1>2. Released(f) \in Fields /\ Released(f).xtratim = f.xtratim
  BY DEF Released, Fields
<1>3. Stopped(f) \in Fields /\ Stopped(f).xtratim = f.xtratim
  BY DEF Stopped, Fields
<1>4. Closed(f) \in Fields /\ Closed(f).xtratim = f.xtratim
  BY DEF Closed, Fields
<1> QED BY <1>1, <1>2, <1>3, <1>4

\* What a call writes into the fields of its note.
LEMMA CallFields ==
    ASSUME IInv, NEW t \in Thread,
           NoRelease(t) \/ Revive(t) \/ Extend(t) \/ Deinit(t) \/ Retire(t) \/ Close(t)
    PROVE  /\ ins' \in [Inst -> Fields]
           /\ \A j \in Inst : ins'[j].xtratim => ins[j].xtratim
           /\ NoRelease(t) => ~ins'[call[t].ip].xtratim
<1> DEFINE i == call[t].ip
<1>1. ins \in [Inst -> Fields] /\ rendering \in BOOLEAN /\ call[t].at # "none" /\ i \in Inst
  BY DEF IInv, Types, CallInv, NoRelease, Revive, Extend, Deinit, Retire, Close
<1>2. CASE NoRelease(t)
  <2>1. ins' = [ins EXCEPT ![i] = Unreleased(ins[i])]
    BY <1>2 DEF NoRelease, Unreleased
  <2>2. Unreleased(ins[i]) \in Fields /\ ~Unreleased(ins[i]).xtratim
    BY <1>1, CallStores
  <2> QED BY <1>1, <2>1, <2>2, Updates
<1>3. CASE ~NoRelease(t)
  <2> DEFINE Kept(r) == r \in Fields /\ r.xtratim = ins[i].xtratim
  <2>1. /\ Kept(Released(ins[i])) /\ Kept(Stopped(ins[i])) /\ Kept(Closed(ins[i]))
        /\ Kept([ins[i] EXCEPT !.actflg = TRUE])
        /\ Kept([ins[i] EXCEPT !.retired = rendering])
    BY <1>1, CallStores, Stores
  <2>2. \E r : Kept(r) /\ ins' = [ins EXCEPT ![i] = r]
    <3>1. CASE Revive(t)
      BY <2>1, <3>1 DEF Revive
    <3>2. CASE Extend(t)
      <4>1. ins' = [ins EXCEPT ![i] = Released(ins[i])]
        BY <3>2 DEF Extend, Released
      <4> QED BY <2>1, <4>1
    <3>3. CASE Deinit(t)
      <4>1. ins' = [ins EXCEPT ![i] = Stopped(ins[i])]
        BY <3>3 DEF Deinit, Stopped
      <4> QED BY <2>1, <4>1
    <3>4. CASE Retire(t)
      BY <2>1, <3>4 DEF Retire
    <3>5. CASE Close(t)
      <4>1. ins' = [ins EXCEPT ![i] = Closed(ins[i])]
        BY <3>5 DEF Close, Closed
      <4> QED BY <2>1, <4>1
    <3> QED BY <1>3, <3>1, <3>2, <3>3, <3>4, <3>5
  <2>3. PICK r : Kept(r) /\ ins' = [ins EXCEPT ![i] = r]
    BY <2>2
  <2> QED BY <1>1, <1>3, <2>3, Updates
<1> QED BY <1>2, <1>3

\* The steps of a call that leave its claim alone.
LEMMA CallMoves ==
    ASSUME IInv, NEW t \in Thread,
           \/ NoRelease(t) \/ Revive(t) \/ Unschedule(t) \/ Extend(t) \/ Reschedule(t)
           \/ Deinit(t) \/ Unlink(t) \/ LinkAhead(t) \/ LinkBack(t) \/ Retire(t) \/ Close(t)
           \/ List(t)
    PROVE  IInv'
<1> DEFINE i == call[t].ip
<1>1. /\ Types /\ CallInv(t) /\ call[t] \in Calls /\ link \in Links
      /\ ins \in [Inst -> Fields]
  BY DEF IInv, Types
<1>2. CASE NoRelease(t) \/ Revive(t) \/ Extend(t) \/ Deinit(t) \/ Close(t)
  <2>1. /\ UNCHANGED <<init_running, turnoff_pending, handoff, link, queue, rendering, perf, event>>
        /\ \/ call[t].at = "now" /\ Goes(t, "unschedule")
           \/ call[t].at = "revive" /\ Goes(t, "now")
           \/ call[t].at = "extend" /\ Goes(t, "giveback")
           \/ call[t].at = "deinit" /\ Goes(t, "unlink")
           \/ call[t].at = "close" /\ Goes(t, "list")
        /\ call[t].at = "now" => NoRelease(t)
    BY <1>2 DEF NoRelease, Revive, Extend, Deinit, Close
  <2>2. /\ ins' \in [Inst -> Fields] /\ link' \in Links
        /\ \A j \in Inst : ins'[j].xtratim => ins[j].xtratim
        /\ call[t].at = "now" => ~ins'[call[t].ip].xtratim
    BY <1>1, <1>2, <2>1, CallFields
  <2>3. CASE call[t].at = "now" /\ Goes(t, "unschedule")
    BY <1>1, <2>1, <2>2, <2>3, CallGoes, CallFrame DEF CallInv, Claimed, CallAt
  <2>4. CASE call[t].at = "revive" /\ Goes(t, "now")
    <3>1. call[t].how = "forced" /\ t = "perf"
      BY <1>1, <2>4 DEF CallInv
    <3> QED BY <1>1, <2>1, <2>2, <2>4, <3>1, CallGoes, CallFrame DEF CallInv, CallAt, Claimed
  <2>5. CASE call[t].at = "extend" /\ Goes(t, "giveback")
    BY <1>1, <2>1, <2>2, <2>5, CallGoes, CallFrame DEF CallInv, Claimed, CallAt
  <2>6. CASE call[t].at = "deinit" /\ Goes(t, "unlink")
    BY <1>1, <2>1, <2>2, <2>6, CallGoes, CallFrame DEF CallInv, Claimed, CallAt
  <2>7. CASE call[t].at = "close" /\ Goes(t, "list")
    BY <1>1, <2>1, <2>2, <2>7, CallGoes, CallFrame DEF CallInv, Claimed, CallAt
  <2> QED BY <2>1, <2>3, <2>4, <2>5, <2>6, <2>7
<1>3. CASE Unschedule(t)
  <2>1. /\ UNCHANGED <<ins, init_running, turnoff_pending, handoff, link, queue, rendering, perf, event>>
        /\ call[t].at = "unschedule"
        /\ \/ Goes(t, "complete")
           \/ ins[i].xtratim /\ Goes(t, "extend")
           \/ Goes(t, "deinit")
    BY <1>3 DEF Unschedule
  <2> QED BY <1>1, <2>1, CallGoes, CallFrame DEF CallInv, Claimed, CallAt
<1>4. CASE Reschedule(t)
  <2>1. /\ UNCHANGED <<ins, init_running, turnoff_pending, handoff, link, queue, rendering, perf, event>>
        /\ call[t].at = "reschedule" /\ call' = [call EXCEPT ![t] = NoCall]
    BY <1>4 DEF Reschedule
  <2> QED BY <1>1, <2>1, CallEnds, CallFrame DEF Claimed
<1>5. CASE Unlink(t)
  <2> DEFINE at == IF ~ins[i].actflg THEN "complete"
                   ELSE IF link.prv[i] = Nobody THEN "retire" ELSE "ahead"
             p == IF ins[i].actflg THEN link.prv[i] ELSE Nobody
             c == [call[t] EXCEPT !.at = at, !.p = p]
  <2>1. /\ UNCHANGED <<ins, init_running, turnoff_pending, handoff, link, queue, rendering, perf, event>>
        /\ call[t].at = "unlink" /\ call' = [call EXCEPT ![t] = c]
    BY <1>5 DEF Unlink
  <2>2. i \in Inst /\ p \in Node /\ at \in {"complete", "retire", "ahead"} /\ (at = "ahead" => p # Nobody)
    BY <1>1, <2>1 DEF CallInv, Links
  <2> HIDE DEF at, p
  <2>3. c \in Calls /\ c.at = at /\ c.ip = i /\ c.how = call[t].how /\ c.p = p
    BY <1>1, <2>2 DEF Calls, CallAt
  <2> HIDE DEF c
  <2>4. /\ call' \in [Thread -> Calls] /\ call'[t] = c
        /\ \A u \in Thread : u # t => call'[u] = call[u]
    BY <1>1, <2>1, <2>3 DEF Types
  <2> QED BY <1>1, <2>1, <2>2, <2>3, <2>4, CallFrame DEF CallInv, Claimed
<1>6. CASE LinkAhead(t)
  <2> DEFINE n == link.nxt[i]
             at == IF n = Nobody THEN "retire" ELSE "back"
             c == [call[t] EXCEPT !.at = at, !.n = n]
  <2>1. /\ UNCHANGED <<ins, init_running, turnoff_pending, handoff, queue, rendering, perf, event>>
        /\ call[t].at = "ahead" /\ call' = [call EXCEPT ![t] = c]
        /\ link' = [link EXCEPT !.nxt[call[t].p] = n]
    BY <1>6 DEF LinkAhead
  <2>2. i \in Inst /\ n \in Some /\ at \in {"retire", "back"} /\ (at = "back" => n # Nobody)
    BY <1>1, <2>1 DEF CallInv, Links
  <2>3. link' \in Links
    BY <1>1, <2>1, <2>2 DEF Links
  <2> HIDE DEF at, n
  <2>4. /\ c \in Calls /\ c.at = at /\ c.ip = i /\ c.how = call[t].how /\ c.p = call[t].p
        /\ c.n = n
    BY <1>1, <2>2 DEF Calls, CallAt
  <2> HIDE DEF c
  <2>5. /\ call' \in [Thread -> Calls] /\ call'[t] = c
        /\ \A u \in Thread : u # t => call'[u] = call[u]
    BY <1>1, <2>1, <2>4 DEF Types
  <2> QED BY <1>1, <2>1, <2>2, <2>3, <2>4, <2>5, CallFrame DEF CallInv, Claimed
<1>7. CASE LinkBack(t)
  <2>1. /\ UNCHANGED <<ins, init_running, turnoff_pending, handoff, queue, rendering, perf, event>>
        /\ call[t].at = "back" /\ Goes(t, "retire")
        /\ \E p \in {call[t].p, link.prv[i]} : link' = [link EXCEPT !.prv[call[t].n] = p]
    BY <1>7 DEF LinkBack
  <2>2. link' \in Links
    BY <1>1, <2>1 DEF Links, Calls, CallInv
  <2> QED BY <1>1, <2>1, <2>2, CallGoes, CallFrame DEF CallInv, Claimed, CallAt
<1>8. CASE Retire(t)
  <2>1. /\ UNCHANGED <<init_running, turnoff_pending, handoff, queue, rendering, perf, event>>
        /\ call[t].at = "retire" /\ Goes(t, "close")
        /\ link' = [link EXCEPT !.prv[i] = Nobody]
    BY <1>8 DEF Retire, LeftLinks
  <2>2. link' \in Links
    BY <1>1, <2>1 DEF Links
  <2> QED BY <1>1, <1>8, <2>1, <2>2, CallFields, CallGoes, CallFrame DEF CallInv, Claimed, CallAt
<1>9. CASE List(t)
  <2>1. /\ UNCHANGED <<ins, init_running, turnoff_pending, handoff, link, queue, rendering, perf, event>>
        /\ call[t].at = "list" /\ Goes(t, "complete")
    BY <1>9 DEF List
  <2> QED BY <1>1, <2>1, CallGoes, CallFrame DEF CallInv, Claimed, CallAt
<1> QED BY <1>2, <1>3, <1>4, <1>5, <1>6, <1>7, <1>8, <1>9

-----------------------------------------------------------------------------
(* The claim of a turnoff, and the steps that give it back.                *)

\* What does not depend on the words of the instances, when neither thread goes
\* elsewhere and the call of t goes on or ends.
LEMMA CallRest ==
    ASSUME IInv, NEW t \in Thread, call' \in [Thread -> Calls],
           UNCHANGED <<ins, init_running, handoff, link, queue, rendering, perf, event>>,
           turnoff_pending' \in [Inst -> {"none", "requested", "finalizing"}],
           \A u \in Thread : u # t => call'[u] = call[u],
           call[t].at # "none",
           \/ call'[t].at = "none" /\ call'[t].how = "none"
           \/ /\ call'[t].at \notin {"none", "revive", "claim", "ahead", "back"}
              /\ call'[t].ip = call[t].ip
              /\ call'[t].how = call[t].how /\ call[t].how # "forced"
    PROVE  Types' /\ ControlInv' /\ \A u \in Thread : CallInv(u)'
<1>1. Types'
  BY DEF IInv, Types
<1>2. ControlInv'
  BY DEF IInv, ControlInv, Thread
<1>3. ASSUME NEW u \in Thread PROVE CallInv(u)'
  <2>1. CallInv(u) /\ CallInv(t)
    BY DEF IInv
  <2>2. CASE u # t
    BY <2>1, <2>2 DEF CallInv
  <2>3. CASE u = t
    BY <2>1, <2>3 DEF CallInv
  <2> QED BY <2>2, <2>3
<1> QED BY <1>1, <1>2, <1>3

\* instance_turnoff_claim
LEMMA ClaimStep == ASSUME IInv, NEW t \in Thread, ClaimNote(t) PROVE IInv'
<1>i. PICK i \in Inst : call[t].ip = i
  BY DEF ClaimNote, CallInv, IInv
<1>1. /\ Types /\ CallInv(t) /\ call[t].at = "claim" /\ call[t].ip = i
      /\ call[t].how \in {"release", "now", "deact"}
      /\ UNCHANGED <<ins, init_running, handoff, link, queue, rendering, perf, event>>
      /\ Claim(i)
  BY <1>i DEF ClaimNote, CallInv, IInv
<1>2. turnoff_pending \in [Inst -> {"none", "requested", "finalizing"}]
  BY <1>1 DEF Types
<1>3. CASE Claims(i)
  <2>1. \E at \in {"unschedule", "now", "deinit"} : Goes(t, at)
    BY <1>1, <1>3 DEF ClaimNote
  <2>2. PICK at \in {"unschedule", "now", "deinit"} : Goes(t, at)
    BY <2>1
  <2>3. /\ call' \in [Thread -> Calls]
        /\ \A u \in Thread : u # t => call'[u] = call[u]
        /\ call'[t].at = at /\ call'[t].ip = i /\ call'[t].how = call[t].how
    BY <1>1, <2>2, CallGoes DEF CallAt
  <2>4. turnoff_pending' = [turnoff_pending EXCEPT ![i] = "finalizing"]
    BY <1>1, <1>3 DEF Claim
  <2>5. Types' /\ ControlInv' /\ \A u \in Thread : CallInv(u)'
    BY <1>1, <1>2, <2>3, <2>4, CallRest
  <2>6. ASSUME NEW j \in Inst, j # i PROVE WordsInv(j)'
    <3>1. Owners(j)' = Owners(j)
      BY <1>1, <2>3, <2>6 DEF Owners, Thread
    <3>2. Quiet(j)
      BY <1>1, <1>2, <2>4, <2>6, <3>1 DEF Quiet, Queued
    <3> QED BY <3>2, QuietKeeps DEF IInv
  <2>7. WordsInv(i)'
    <3>1. Owners(i) = 0 /\ init_running[i] = 0 /\ DepthInv(i)
      BY <1>1, <1>3 DEF Claims, IInv, WordsInv, OwnerInv
    <3>2. Owners(i)' = Owners(i) + 1
      <4>1. perf.batch[i] \in Nat /\ handoff[i] \in Nat
        BY <1>1, OwnerParts
      <4>2. CASE t = "perf"
        BY <1>1, <2>3, <4>1, <4>2 DEF Owners, Thread, Claimed
      <4>3. CASE t = "event"
        BY <1>1, <2>3, <4>1, <4>3 DEF Owners, Thread, Claimed
      <4> QED BY <4>2, <4>3 DEF Thread
    <3> QED BY <1>1, <1>2, <2>4, <3>1, <3>2 DEF WordsInv, OwnerInv, DepthInv, Queued
  <2> QED BY <2>5, <2>6, <2>7 DEF IInv
<1>4. CASE ~Claims(i)
  <2>1. call' = [call EXCEPT ![t] = NoCall]
    BY <1>1, <1>4 DEF ClaimNote
  <2>2. /\ call' \in [Thread -> Calls]
        /\ \A u \in Thread : u # t => call'[u] = call[u]
        /\ call'[t].at = "none" /\ call'[t].how = "none"
    BY <1>1, <2>1, CallEnds
  <2>3. /\ turnoff_pending' \in [Inst -> {"none", "requested", "finalizing"}]
        /\ \A j \in Inst : turnoff_pending'[j] = "finalizing" <=> turnoff_pending[j] = "finalizing"
    BY <1>1, <1>2, <1>4 DEF Claim
  <2>4. Types' /\ ControlInv' /\ \A u \in Thread : CallInv(u)'
    BY <1>1, <2>2, <2>3, CallRest
  <2>5. ASSUME NEW j \in Inst PROVE WordsInv(j)'
    <3>1. Owners(j)' = Owners(j)
      BY <1>1, <2>2 DEF Owners, Thread, Claimed
    <3> QED BY <1>1, <2>3, <3>1 DEF IInv, WordsInv, DepthInv, OwnerInv, Queued
  <2> QED BY <2>4, <2>5 DEF IInv
<1> QED BY <1>3, <1>4

\* instance_turnoff_complete on the way out of a claim.
LEMMA Unclaims ==
    ASSUME IInv, NEW t \in Thread, call[t].at \in Claimed, call[t].how # "forced",
           Complete(call[t].ip), call' \in [Thread -> Calls],
           UNCHANGED <<ins, init_running, handoff, link, queue, rendering, perf, event>>,
           \A u \in Thread : u # t => call'[u] = call[u],
           \/ call'[t].at = "none" /\ call'[t].how = "none"
           \/ /\ call'[t].at = "reschedule"
              /\ call'[t].ip = call[t].ip /\ call'[t].how = call[t].how
    PROVE  IInv'
<1>i. PICK i \in Inst : call[t].ip = i
  BY DEF IInv, CallInv, Claimed
<1>1. Types /\ call[t].at # "none" /\ call[t].ip = i
  BY <1>i DEF IInv, Claimed
<1>2. turnoff_pending \in [Inst -> {"none", "requested", "finalizing"}]
  BY <1>1 DEF Types
<1>3. turnoff_pending[i] = "finalizing" /\ Owners(i) = 1
  BY <1>1, OwnerParts
<1>4. turnoff_pending' = [turnoff_pending EXCEPT ![i] = "none"]
  BY <1>1, <1>2, <1>3 DEF Complete
<1>5. Types' /\ ControlInv' /\ \A u \in Thread : CallInv(u)'
  BY <1>1, <1>2, <1>4, CallRest
<1>6. ASSUME NEW j \in Inst, j # i PROVE WordsInv(j)'
  <2>1. Owners(j)' = Owners(j)
    BY <1>1, <1>6 DEF Owners, Thread, Claimed
  <2>2. Quiet(j)
    BY <1>2, <1>4, <1>6, <2>1 DEF Quiet, Queued
  <2> QED BY <2>2, QuietKeeps DEF IInv
<1>7. WordsInv(i)'
  <2>1. Owners(i)' = Owners(i) - 1
    <3>1. perf.batch[i] \in Nat /\ handoff[i] \in Nat
      BY <1>1, OwnerParts
    <3>2. CASE t = "perf"
      BY <1>1, <3>1, <3>2 DEF Owners, Thread, Claimed
    <3>3. CASE t = "event"
      BY <1>1, <3>1, <3>3 DEF Owners, Thread, Claimed
    <3> QED BY <3>2, <3>3 DEF Thread
  <2> QED BY <1>1, <1>2, <1>3, <1>4, <2>1 DEF IInv, WordsInv, OwnerInv, DepthInv, Queued
<1> QED BY <1>5, <1>6, <1>7 DEF IInv

\* The claim is given back, before sched_off_time or at the end of the call.
LEMMA ReturnStep == ASSUME IInv, NEW t \in Thread, GiveBack(t) \/ Return(t) PROVE IInv'
<1>1. Types /\ CallInv(t)
  BY DEF IInv
<1>2. CASE GiveBack(t)
  <2>1. /\ call[t].at = "giveback" /\ Complete(call[t].ip) /\ Goes(t, "reschedule")
        /\ UNCHANGED <<ins, init_running, handoff, link, queue, rendering, perf, event>>
    BY <1>2 DEF GiveBack
  <2> QED BY <1>1, <2>1, CallGoes, Unclaims DEF CallInv, Claimed, CallAt
<1>3. CASE Return(t)
  <2>1. /\ call[t].at = "complete" /\ call' = [call EXCEPT ![t] = NoCall]
        /\ UNCHANGED <<ins, init_running, handoff, link, queue, rendering, perf, event>>
    BY <1>3 DEF Return
  <2>2. CASE call[t].how # "forced"
    <3>1. Complete(call[t].ip)
      BY <1>3, <2>2 DEF Return
    <3> QED BY <1>1, <2>1, <2>2, <3>1, CallEnds, Unclaims DEF Claimed
  <2>3. CASE call[t].how = "forced"
    <3>1. UNCHANGED turnoff_pending /\ t = "perf"
      BY <1>1, <1>3, <2>3 DEF Return, CallInv
    <3>2. /\ call' \in [Thread -> Calls]
          /\ \A u \in Thread : u # t => call'[u] = call[u]
          /\ call'[t].at = "none" /\ call'[t].how = "none"
      BY <1>1, <2>1, CallEnds
    <3>3. Types' /\ ControlInv' /\ \A u \in Thread : CallInv(u)'
      BY <1>1, <2>1, <3>1, <3>2, CallRest DEF Types
    <3>4. ASSUME NEW j \in Inst PROVE WordsInv(j)'
      <4>1. Owners(j)' = Owners(j)
        BY <2>1, <2>3, <3>1, <3>2 DEF Owners, Thread, Claimed
      <4>2. Quiet(j)
        BY <2>1, <3>1, <4>1 DEF Quiet, Queued
      <4> QED BY <4>2, QuietKeeps DEF IInv
    <3> QED BY <3>3, <3>4 DEF IInv
  <2> QED BY <2>2, <2>3
<1> QED BY <1>2, <1>3

-----------------------------------------------------------------------------
(* The hand-off.                                                           *)

\* A list gets one more, or loses one.
LEMMA Counts ==
    ASSUME NEW f \in [Inst -> Nat], NEW i \in Inst, f[i] <= 1
    PROVE  /\ Count(f, i, 1) \in [Inst -> Nat] /\ Count(f, i, -1) \in [Inst -> Nat]
           /\ Count(f, i, 1)[i] = f[i] + 1
           /\ f[i] = 1 => Count(f, i, -1)[i] = 0
           /\ \A j \in Inst : j # i => Count(f, i, 1)[j] = f[j] /\ Count(f, i, -1)[j] = f[j]
  BY DEF Count

\* The performance thread takes the whole list.
LEMMA TakeHandoffStep == ASSUME IInv, TakeHandoff PROVE IInv'
<1>1. /\ Types /\ ControlInv /\ perf \in Perfs /\ handoff \in [Inst -> Nat]
  BY DEF IInv, Types
<1>2. /\ UNCHANGED <<ins, init_running, turnoff_pending, link, queue, rendering, call, event>>
      /\ perf.pc = "pending" /\ perf' = [perf EXCEPT !.pc = "batch", !.batch = handoff]
      /\ handoff' = [i \in Inst |-> 0]
  BY DEF TakeHandoff
<1>3. /\ perf' \in Perfs /\ perf'.pc = "batch" /\ perf'.batch = handoff /\ perf'.cur = perf.cur
  BY <1>1, <1>2 DEF Perfs, PerfPc
<1>4. Types'
  BY <1>1, <1>2, <1>3 DEF Types
<1>5. ControlInv'
  BY <1>1, <1>2, <1>3 DEF ControlInv, Clear
<1>6. ASSUME NEW t \in Thread PROVE CallInv(t)'
  BY <1>2, <1>3 DEF IInv, CallInv
<1>7. ASSUME NEW j \in Inst PROVE WordsInv(j)'
  <2>1. Owners(j)' = Owners(j)
    <3>1. perf.batch[j] = 0 /\ handoff[j] \in Nat
      BY <1>1, <1>2 DEF ControlInv
    <3> QED BY <1>2, <1>3, <3>1 DEF Owners
  <2>2. Quiet(j)
    BY <1>2, <1>3, <2>1 DEF Quiet, Queued, Reiniting
  <2> QED BY <2>2, QuietKeeps DEF IInv
<1> QED BY <1>4, <1>5, <1>6, <1>7 DEF IInv

\* One of the batch is turned off, unless it need not be any more.
LEMMA HandoffTurnoffStep == ASSUME IInv, NEW i \in Inst, HandoffTurnoff(i) PROVE IInv'
<1>1. /\ Types /\ ControlInv /\ perf \in Perfs /\ perf.batch \in [Inst -> Nat]
      /\ call \in [Thread -> Calls]
  BY DEF IInv, Types, Perfs
<1>2. /\ UNCHANGED <<ins, init_running, turnoff_pending, handoff, link, queue, rendering, event>>
      /\ perf.pc = "batch" /\ perf.batch[i] > 0
      /\ perf' = [perf EXCEPT !.pc = "batched", !.cur = i, !.batch = Count(perf.batch, i, -1)]
  BY DEF HandoffTurnoff
<1>3. /\ perf.batch[i] = 1 /\ Owners(i) = 1
      /\ Count(perf.batch, i, -1) \in [Inst -> Nat] /\ Count(perf.batch, i, -1)[i] = 0
      /\ \A j \in Inst : j # i => Count(perf.batch, i, -1)[j] = perf.batch[j]
  <2>1. perf.batch[i] = 1 /\ Owners(i) = 1 /\ \A j \in Inst : perf.batch[j] \in Nat
    BY <1>2, OwnerParts
  <2> QED BY <1>1, <2>1, Counts
<1>4. /\ perf' \in Perfs /\ perf'.pc = "batched" /\ perf'.cur = i
      /\ perf'.batch = Count(perf.batch, i, -1)
  <2> DEFINE b == Count(perf.batch, i, -1)
  <2>1. b \in [Inst -> Nat] /\ perf' = [perf EXCEPT !.pc = "batched", !.cur = i, !.batch = b]
    BY <1>2, <1>3
  <2> HIDE DEF b
  <2>2. perf' \in Perfs /\ perf'.pc = "batched" /\ perf'.cur = i /\ perf'.batch = b
    BY <1>1, <2>1 DEF Perfs, PerfPc
  <2> QED BY <2>2 DEF b
<1>5. call["perf"].at = "none" /\ "perf" \in Thread /\ call["perf"].how # "forced"
  BY <1>1, <1>2 DEF ControlInv, Clear, Thread, IInv, CallInv
<1>6. /\ call' \in [Thread -> Calls] /\ call'["event"] = call["event"]
      /\ \/ call' = call
         \/ call'["perf"].at = "revive" /\ call'["perf"].ip = i /\ call'["perf"].how = "forced"
  <2> DEFINE c == [NoCall EXCEPT !.at = "revive", !.ip = i, !.how = "forced"]
  <2>1. call' = call \/ call' = [call EXCEPT !["perf"] = c]
    BY DEF HandoffTurnoff, TurnOff
  <2>2. c \in Calls /\ c.at = "revive" /\ c.ip = i /\ c.how = "forced"
    BY DEF NoCall, Calls, CallAt
  <2> HIDE DEF c
  <2> QED BY <1>1, <2>1, <2>2 DEF Thread
<1>7. Types'
  BY <1>1, <1>2, <1>4, <1>6 DEF Types
<1>8. ControlInv'
  BY <1>1, <1>2, <1>4 DEF ControlInv, Clear
<1>9. ASSUME NEW t \in Thread PROVE CallInv(t)'
  <2>1. CallInv(t)
    BY DEF IInv
  <2> QED BY <1>2, <1>4, <1>5, <1>6, <2>1 DEF CallInv, Thread
<1>10. ASSUME NEW j \in Inst PROVE WordsInv(j)'
  <2>1. Owners(j)' = Owners(j)
    <3>1. handoff[j] \in Nat /\ perf.batch[j] \in Nat
      BY OwnerParts
    <3>2. CASE j = i
      BY <1>2, <1>3, <1>4, <1>5, <1>6, <3>1, <3>2 DEF Owners, Claimed
    <3>3. CASE j # i
      BY <1>2, <1>3, <1>4, <1>5, <1>6, <3>1, <3>3 DEF Owners, Claimed
    <3> QED BY <3>2, <3>3
  <2>2. Quiet(j)
    BY <1>2, <1>4, <2>1 DEF Quiet, Queued, Reiniting
  <2> QED BY <2>2, QuietKeeps DEF IInv
<1> QED BY <1>7, <1>8, <1>9, <1>10 DEF IInv

\* It is done with, and its turnoff is completed.
LEMMA HandoffDoneStep == ASSUME IInv, HandoffDone PROVE IInv'
<1>i. PICK i \in Inst : perf.cur = i
  BY DEF HandoffDone, IInv, ControlInv
<1>1. /\ Types /\ ControlInv /\ perf \in Perfs
      /\ turnoff_pending \in [Inst -> {"none", "requested", "finalizing"}]
  BY DEF IInv, Types
<1>2. /\ UNCHANGED <<ins, init_running, handoff, link, queue, rendering, call, event>>
      /\ perf.pc = "batched" /\ perf.cur = i /\ call["perf"].at = "none" /\ Complete(i)
      /\ perf' = [perf EXCEPT !.pc = "batch", !.cur = Nobody]
  BY <1>i DEF HandoffDone, CallFree
<1>3. perf' \in Perfs /\ perf'.pc = "batch" /\ perf'.cur = Nobody /\ perf'.batch = perf.batch
  BY <1>1, <1>2 DEF Perfs, PerfPc
<1>4. turnoff_pending[i] = "finalizing" /\ Owners(i) = 1
  BY <1>2, OwnerParts
<1>5. turnoff_pending' = [turnoff_pending EXCEPT ![i] = "none"]
  BY <1>1, <1>2, <1>4 DEF Complete
<1>6. Types'
  BY <1>1, <1>2, <1>3, <1>5 DEF Types
<1>7. ControlInv'
  BY <1>1, <1>2, <1>3 DEF ControlInv, Clear
<1>8. ASSUME NEW t \in Thread PROVE CallInv(t)'
  <2>1. CallInv(t)
    BY DEF IInv
  <2> QED BY <1>2, <1>3, <2>1 DEF CallInv
<1>9. ASSUME NEW j \in Inst PROVE WordsInv(j)'
  <2>1. handoff[j] \in Nat /\ perf.batch[j] \in Nat
    BY OwnerParts
  <2>2. CASE j # i
    <3>1. Owners(j)' = Owners(j)
      BY <1>2, <1>3, <2>2 DEF Owners
    <3>2. Quiet(j)
      BY <1>1, <1>2, <1>3, <1>5, <2>2, <3>1 DEF Quiet, Queued, Reiniting
    <3> QED BY <3>2, QuietKeeps DEF IInv
  <2>3. CASE j = i
    <3>1. Owners(j)' = Owners(j) - 1
      BY <1>2, <1>3, <2>1, <2>3, NamesAssumption DEF Owners, Claimed
    <3> QED BY <1>1, <1>2, <1>3, <1>4, <1>5, <2>3, <3>1
            DEF IInv, WordsInv, OwnerInv, DepthInv, Queued, Reiniting
  <2> QED BY <2>2, <2>3
<1> QED BY <1>6, <1>7, <1>8, <1>9 DEF IInv

-----------------------------------------------------------------------------
(* The reinits of the performance thread.                                  *)

\* A finish of a pass that leaves the turnoff with the instance, or hands it over.
LEMMA Finishes ==
    ASSUME IInv, NEW i \in Inst, InitFinish(i), init_running[i] > 0
    PROVE  /\ init_running' \in [Inst -> Nat] /\ handoff' \in [Inst -> Nat]
           /\ turnoff_pending' \in [Inst -> {"none", "requested", "finalizing"}]
           /\ init_running'[i] = init_running[i] - 1
           /\ FinishTurnsOff(i) => /\ turnoff_pending'[i] = "finalizing"
                                   /\ init_running'[i] = 0
                                   /\ handoff'[i] = handoff[i] + 1
           /\ ~FinishTurnsOff(i) => /\ turnoff_pending'[i] = turnoff_pending[i]
                                    /\ handoff' = handoff
           /\ \A j \in Inst : j # i => /\ init_running'[j] = init_running[j]
                                       /\ handoff'[j] = handoff[j]
                                       /\ turnoff_pending'[j] = turnoff_pending[j]
<1>1. /\ init_running \in [Inst -> Nat] /\ handoff \in [Inst -> Nat]
      /\ turnoff_pending \in [Inst -> {"none", "requested", "finalizing"}]
  BY DEF IInv, Types
<1>2. handoff[i] <= 1
  BY OwnerParts
<1>3. /\ Count(handoff, i, 1) \in [Inst -> Nat]
      /\ Count(handoff, i, 1)[i] = handoff[i] + 1
      /\ \A j \in Inst : j # i => Count(handoff, i, 1)[j] = handoff[j]
  BY <1>1, <1>2, Counts
<1> QED BY <1>1, <1>3 DEF InitFinish, FinishTurnsOff

\* The performance thread begins a pass of its own instance.
LEMMA BeginReinitStep == ASSUME IInv, BeginReinit PROVE IInv'
<1>i. PICK i \in Inst : perf.cur = i
  BY DEF BeginReinit, IInv, ControlInv
<1>1. /\ Types /\ ControlInv /\ perf \in Perfs /\ init_running \in [Inst -> Nat]
  BY DEF IInv, Types
<1>2. /\ UNCHANGED <<ins, turnoff_pending, handoff, link, queue, rendering, call, event>>
      /\ perf.pc = "rebegin" /\ perf.cur = i
  BY <1>i DEF BeginReinit
<1>3. CASE ~CanBegin(i)
  <2>1. UNCHANGED init_running /\ perf' = [perf EXCEPT !.pc = "error"]
    BY <1>2, <1>3 DEF BeginReinit, PerfGoes
  <2>2. /\ perf' \in Perfs /\ perf'.pc = "error" /\ perf'.cur = i /\ perf'.batch = perf.batch
    BY <1>1, <1>2, <2>1 DEF Perfs, PerfPc
  <2> QED BY <1>1, <1>2, <2>1, <2>2, PerfFrame DEF Types, ControlInv, Clear, Reiniting
<1>4. CASE CanBegin(i)
  <2>1. /\ init_running' = [init_running EXCEPT ![i] = @ + 1]
        /\ perf' = [perf EXCEPT !.pc = "undone"]
    BY <1>2, <1>4 DEF BeginReinit, PerfGoes
  <2>2. /\ perf' \in Perfs /\ perf'.pc = "undone" /\ perf'.cur = i /\ perf'.batch = perf.batch
    BY <1>1, <1>2, <2>1 DEF Perfs, PerfPc
  <2>3. Types'
    BY <1>1, <1>2, <2>1, <2>2 DEF Types
  <2>4. ControlInv'
    BY <1>1, <1>2, <2>2 DEF ControlInv, Clear
  <2>5. ASSUME NEW t \in Thread PROVE CallInv(t)'
    BY <1>2, <2>2 DEF IInv, CallInv
  <2>6. ASSUME NEW j \in Inst PROVE WordsInv(j)'
    <3>1. Owners(j)' = Owners(j) /\ Queued(j)' = Queued(j) /\ Queued(j) \in Nat
      BY <1>1, <1>2, <2>2, QueuedType DEF Owners, Queued, Types
    <3>2. CASE j # i
      <4>1. Quiet(j)
        BY <1>1, <1>2, <2>1, <2>2, <3>1, <3>2 DEF Quiet, Reiniting
      <4> QED BY <4>1, QuietKeeps DEF IInv
    <3>3. CASE j = i
      <4>1. turnoff_pending[i] # "finalizing" /\ DepthInv(i) /\ OwnerInv(i)
        BY <1>4 DEF CanBegin, IInv, WordsInv
      <4>2. init_running'[i] = init_running[i] + 1
        BY <1>1, <2>1
      <4>3. perf.pc \notin Reiniting /\ perf'.pc \in Reiniting
        BY <1>2, <2>2 DEF Reiniting
      <4>4. DepthInv(i)'
        BY <1>1, <1>2, <2>2, <3>1, <3>3, <4>1, <4>2, <4>3 DEF DepthInv
      <4>5. OwnerInv(i)'
        BY <1>2, <3>1, <3>3, <4>1 DEF OwnerInv
      <4> QED BY <3>3, <4>4, <4>5 DEF WordsInv
    <3> QED BY <3>2, <3>3
  <2> QED BY <2>3, <2>4, <2>5, <2>6 DEF IInv
<1> QED BY <1>3, <1>4

\* The reinit joins the queue, or is refused.
LEMMA PostReinitStep == ASSUME IInv, PostReinit PROVE IInv'
<1>i. PICK i \in Inst : perf.cur = i
  BY DEF PostReinit, IInv, ControlInv
<1>1. /\ Types /\ ControlInv /\ perf \in Perfs /\ queue \in Seq(Some) /\ ins \in [Inst -> Fields]
      /\ rendering \in BOOLEAN
  BY DEF IInv, Types
<1>2. /\ UNCHANGED <<ins, init_running, turnoff_pending, handoff, link, rendering, call, event>>
      /\ perf.pc = "enqueue" /\ perf.cur = i
  BY <1>i DEF PostReinit
<1>3. CASE Len(queue) >= QueueSize
  <2>1. UNCHANGED queue /\ perf' = [perf EXCEPT !.pc = "refused"]
    <3>1. Len(queue) \in Nat /\ QueueSize \in Nat
      BY <1>1, BoundsAssumption
    <3> QED BY <1>3, <3>1 DEF PostReinit, PerfGoes
  <2>2. /\ perf' \in Perfs /\ perf'.pc = "refused" /\ perf'.cur = i /\ perf'.batch = perf.batch
    BY <1>1, <1>2, <2>1 DEF Perfs, PerfPc
  <2> QED BY <1>1, <1>2, <2>1, <2>2, PerfFrame DEF ControlInv, Clear, Reiniting
<1>4. CASE Len(queue) < QueueSize
  <2>1. queue' = Append(queue, i) /\ perf' = [perf EXCEPT !.pc = "step", !.kept = Flags]
    BY <1>2, <1>4 DEF PostReinit
  <2>2. /\ perf' \in Perfs /\ perf'.pc = "step" /\ perf'.cur = i /\ perf'.batch = perf.batch
    BY <1>1, <1>2, <2>1 DEF Perfs, PerfPc, Flags
  <2>3. Types'
    BY <1>1, <1>2, <2>1, <2>2 DEF Types
  <2>4. ControlInv'
    BY <1>1, <1>2, <2>2 DEF ControlInv, Clear
  <2>5. ASSUME NEW t \in Thread PROVE CallInv(t)'
    BY <1>2, <2>2 DEF IInv, CallInv
  <2>6. ASSUME NEW j \in Inst PROVE WordsInv(j)'
    <3>1. Owners(j)' = Owners(j) /\ Queued(j) \in Nat
      BY <1>1, <1>2, <2>2, QueuedType DEF Owners
    <3>2. /\ j = i => Queued(j)' = Queued(j) + 1
          /\ j # i => Queued(j)' = Queued(j)
      BY <1>1, <2>1, QueueAppend
    <3>3. perf.pc \in Reiniting /\ perf'.pc \notin Reiniting
      BY <1>2, <2>2 DEF Reiniting
    <3>4. DepthInv(j) /\ OwnerInv(j)
      BY DEF IInv, WordsInv
    <3>5. DepthInv(j)'
      BY <1>2, <2>2, <3>1, <3>2, <3>3, <3>4 DEF DepthInv
    <3>6. OwnerInv(j)'
      BY <1>2, <3>1, <3>4 DEF OwnerInv
    <3> QED BY <3>5, <3>6 DEF WordsInv
  <2> QED BY <2>3, <2>4, <2>5, <2>6 DEF IInv
<1>5. Len(queue) \in Nat /\ QueueSize \in Nat
  BY <1>1, BoundsAssumption
<1> QED BY <1>3, <1>4, <1>5

\* The refused reinit is taken back, with the turnoff that came in between.
LEMMA UndoReinitStep == ASSUME IInv, UndoReinit PROVE IInv'
<1>i. PICK i \in Inst : perf.cur = i
  BY DEF UndoReinit, IInv, ControlInv
<1>1. /\ Types /\ ControlInv /\ perf \in Perfs /\ ins \in [Inst -> Fields]
  BY DEF IInv, Types
<1>2. /\ UNCHANGED <<link, queue, rendering, call, event>>
      /\ perf.pc = "refused" /\ perf.cur = i /\ InitFinish(i)
  BY <1>i DEF UndoReinit
<1>3. init_running[i] > 0 /\ turnoff_pending[i] # "finalizing" /\ Owners(i) = 0
  BY <1>2, OwnedIsIdle DEF Reiniting
<1>4. /\ init_running' \in [Inst -> Nat] /\ handoff' \in [Inst -> Nat]
      /\ turnoff_pending' \in [Inst -> {"none", "requested", "finalizing"}]
      /\ init_running'[i] = init_running[i] - 1
      /\ FinishTurnsOff(i) => /\ turnoff_pending'[i] = "finalizing"
                              /\ init_running'[i] = 0
                              /\ handoff'[i] = handoff[i] + 1
      /\ ~FinishTurnsOff(i) => /\ turnoff_pending'[i] = turnoff_pending[i]
                               /\ handoff' = handoff
      /\ \A j \in Inst : j # i => /\ init_running'[j] = init_running[j]
                                  /\ handoff'[j] = handoff[j]
                                  /\ turnoff_pending'[j] = turnoff_pending[j]
  BY <1>2, <1>3, Finishes
<1>5. ins' \in [Inst -> Fields] /\ \A j \in Inst : ins'[j].xtratim = ins[j].xtratim
  <2>1. [ins[i] EXCEPT !.init_done = FALSE] \in Fields
        /\ [ins[i] EXCEPT !.init_done = FALSE].xtratim = ins[i].xtratim
    BY <1>1, Stores
  <2>2. ins' = ins \/ ins' = [ins EXCEPT ![i] = [ins[i] EXCEPT !.init_done = FALSE]]
    BY <1>i DEF UndoReinit
  <2> QED BY <1>1, <2>1, <2>2, Updates
<1>6. /\ perf' \in Perfs /\ perf'.pc \in {"error", "redone"} /\ perf'.cur = i
      /\ perf'.batch = perf.batch
  <2>1. \E pc \in {"error", "redone"} : perf' = [perf EXCEPT !.pc = pc]
    BY DEF UndoReinit, PerfGoes
  <2> QED BY <1>1, <1>2, <2>1 DEF Perfs, PerfPc
<1>7. Types'
  BY <1>1, <1>2, <1>4, <1>5, <1>6 DEF Types
<1>8. ControlInv'
  BY <1>1, <1>2, <1>6 DEF ControlInv, Clear
<1>9. ASSUME NEW t \in Thread PROVE CallInv(t)'
  BY <1>2, <1>5, <1>6 DEF IInv, CallInv
<1>10. ASSUME NEW j \in Inst PROVE WordsInv(j)'
  <2>1. Queued(j)' = Queued(j) /\ Queued(j) \in Nat /\ DepthInv(j) /\ OwnerInv(j)
    BY <1>1, <1>2, QueuedType DEF Queued, IInv, WordsInv, Types
  <2>2. CASE j # i
    <3>1. Owners(j)' = Owners(j)
      BY <1>2, <1>4, <1>6, <2>2 DEF Owners
    <3>2. Quiet(j)
      BY <1>2, <1>4, <1>6, <2>1, <2>2, <3>1 DEF Quiet, Reiniting
    <3> QED BY <3>2, QuietKeeps DEF IInv
  <2>3. CASE j = i
    <3>1. perf.pc \in Reiniting /\ perf'.pc \notin Reiniting
      BY <1>2, <1>6 DEF Reiniting
    <3>2. DepthInv(i)'
      BY <1>1, <1>2, <1>4, <1>6, <2>1, <2>3, <3>1 DEF DepthInv, Types
    <3>3. handoff[i] \in Nat /\ perf.batch[i] \in Nat
      BY OwnerParts
    <3>4. Owners(i)' = Owners(i) + (handoff'[i] - handoff[i])
      BY <1>2, <1>4, <1>6, <3>3 DEF Owners
    <3>5. OwnerInv(i)'
      BY <1>3, <1>4, <2>1, <2>3, <3>3, <3>4 DEF OwnerInv
    <3> QED BY <2>3, <3>2, <3>5 DEF WordsInv
  <2> QED BY <2>2, <2>3
<1> QED BY <1>7, <1>8, <1>9, <1>10 DEF IInv

-----------------------------------------------------------------------------
(* The event thread.                                                       *)

\* Its steps that concern no word.
EventMoves ==
    \/ SpliceStep \/ LockForNote \/ Room \/ NoMemory \/ Relock \/ Publish \/ EventDone
    \/ EventExpireEnd \/ Reactivate \/ Ready
    \/ \E i \in Inst : FindTie(i) \/ TakeNote(i) \/ DrainReader(i)
    \/ \E finite \in BOOLEAN : SetFields(finite)
    \/ \E error \in BOOLEAN, open \in {"none", "file", "async"}, xtra \in BOOLEAN : EndPass(error, open, xtra)
    \/ \E late \in BOOLEAN : Schedule(late)

\* What they may make of the fields of the instances.
EventFields ==
    /\ ins' \in [Inst -> Fields]
    /\ \A j \in Inst : ins'[j].xtratim =>
                          ins[j].xtratim \/ (event.pc \in Passing /\ event.ip = j)

\* One store or several, into the fields of one instance.
LEMMA EventStores ==
    ASSUME NEW f \in Fields, NEW b \in BOOLEAN, NEW c \in BOOLEAN, NEW d \in BOOLEAN,
           NEW a \in {"none", "held", "stopped"}
    PROVE  /\ [f EXCEPT !.actflg = b, !.xtratim = FALSE, !.relesing = FALSE, !.finite = c] \in Fields
           /\ [f EXCEPT !.actflg = b, !.xtratim = FALSE, !.relesing = FALSE, !.finite = c].xtratim = FALSE
           /\ [f EXCEPT !.xtratim = b, !.fdchp = c, !.async = a] \in Fields
           /\ [f EXCEPT !.init_done = b, !.fdchp = c] \in Fields
           /\ [f EXCEPT !.init_done = b, !.fdchp = c].xtratim = f.xtratim
           /\ [f EXCEPT !.async = "none", !.fdchp = c] \in Fields
           /\ [f EXCEPT !.async = "none", !.fdchp = c].xtratim = f.xtratim
  BY DEF Fields

\* The stores of a pass and of the marks around it.
LEMMA EventMovesFields == ASSUME IInv, EventMoves PROVE EventFields
<1>1. /\ ins \in [Inst -> Fields] /\ event \in Events /\ ControlInv
      /\ init_running \in [Inst -> Nat]
  BY DEF IInv, Types
<1>2. CASE UNCHANGED ins
  BY <1>1, <1>2 DEF EventFields
<1>3. ASSUME NEW i \in Inst, NEW r \in Fields, ins' = [ins EXCEPT ![i] = r],
             r.xtratim => ins[i].xtratim \/ (event.pc \in Passing /\ event.ip = i)
      PROVE  EventFields
  BY <1>1, <1>3, Updates DEF EventFields
<1>4. ASSUME NEW i \in Inst, TakeNote(i) PROVE EventFields
  <2> DEFINE r == IF ins[i].alloc THEN [ins[i] EXCEPT !.init_done = FALSE, !.fdchp = FALSE] ELSE Blank
  <2>1. ins' = [ins EXCEPT ![i] = r]
    BY <1>4 DEF TakeNote
  <2>2. Blank \in Fields /\ ~Blank.xtratim
    BY DEF Blank, Fields
  <2>3. r \in Fields /\ (r.xtratim => ins[i].xtratim)
    BY <1>1, <2>2, EventStores
  <2> HIDE DEF r
  <2> QED BY <1>3, <2>1, <2>3
<1>5. ASSUME NEW i \in Inst, DrainReader(i) PROVE EventFields
  <2> DEFINE r == [ins[i] EXCEPT !.async = "none", !.fdchp = ins[i].fdchp /\ ins[i].actflg]
  <2>1. ins' = [ins EXCEPT ![i] = r]
    BY <1>5 DEF DrainReader
  <2>2. (ins[i].fdchp /\ ins[i].actflg) \in BOOLEAN
    OBVIOUS
  <2>3. r \in Fields /\ r.xtratim = ins[i].xtratim
    BY <1>1, <2>2, EventStores
  <2> HIDE DEF r
  <2> QED BY <1>3, <2>1, <2>3
<1>6. ASSUME NEW finite \in BOOLEAN, SetFields(finite) PROVE EventFields
  <2>i. PICK i \in Inst : event.ip = i
    BY <1>1, <1>6 DEF SetFields, EventAt, ControlInv
  <2> DEFINE b == ins[i].actflg \/ event.pc = "activate"
             r == [ins[i] EXCEPT !.actflg = b, !.xtratim = FALSE, !.relesing = FALSE, !.finite = finite]
  <2>1. ins' = [ins EXCEPT ![i] = r]
    BY <1>6, <2>i DEF SetFields
  <2>2. b \in BOOLEAN
    OBVIOUS
  <2> HIDE DEF b
  <2>3. r \in Fields /\ ~r.xtratim
    BY <1>1, <2>2, EventStores
  <2> HIDE DEF r
  <2> QED BY <1>3, <2>1, <2>3
<1>7. ASSUME NEW error \in BOOLEAN, NEW open \in {"none", "file", "async"}, NEW xtra \in BOOLEAN,
             EndPass(error, open, xtra)
      PROVE  EventFields
  <2>i. PICK i \in Inst : event.ip = i
    BY <1>1, <1>7 DEF EndPass, EventAt, ControlInv
  <2> DEFINE b == ins[i].xtratim \/ xtra
             c == ins[i].fdchp \/ open # "none"
             a == IF open = "async" THEN "held" ELSE ins[i].async
             r == [ins[i] EXCEPT !.xtratim = b, !.fdchp = c, !.async = a]
  <2>1. ins' = [ins EXCEPT ![i] = r] /\ event.pc \in {"pass", "repass"}
    BY <1>7, <2>i DEF EndPass, EventAt
  <2>2. b \in BOOLEAN /\ c \in BOOLEAN /\ a \in {"none", "held", "stopped"}
    BY <1>1 DEF Fields
  <2> HIDE DEF a, b, c
  <2>3. r \in Fields
    BY <1>1, <2>2, EventStores
  <2> HIDE DEF r
  <2> QED BY <1>3, <2>i, <2>1, <2>3 DEF Passing
<1>8. ASSUME NEW late \in BOOLEAN, Schedule(late) PROVE EventFields
  <2>1. CASE event.finite
    BY <1>2, <1>8, <2>1 DEF Schedule
  <2>2. CASE ~event.finite
    <3>1. event.ip \in Inst /\ ins' = [ins EXCEPT ![event.ip].finite = FALSE]
      BY <1>1, <1>8, <2>2 DEF Schedule, EventAt, ControlInv
    <3> QED BY <1>1, <1>3, <3>1, Stores
  <2> QED BY <2>1, <2>2
<1>9. CASE Reactivate \/ Ready
  <2>1. event.ip \in Inst
    BY <1>1, <1>9 DEF Reactivate, Ready, EventAt, ControlInv
  <2>2. CASE Reactivate
    BY <1>1, <1>3, <2>1, <2>2, Stores DEF Reactivate
  <2>3. CASE Ready
    BY <1>1, <1>3, <2>1, <2>3, Stores DEF Ready
  <2> QED BY <1>9, <2>2, <2>3
<1>10. CASE Publish
  <2>i. PICK i \in Inst : event.ip = i
    BY <1>1, <1>10 DEF Publish, EventAt, ControlInv
  <2> DEFINE b == ins[i].init_done \/ (/\ event.complete /\ ins[i].actflg
                                       /\ turnoff_pending[i] = "none" /\ init_running[i] = 0)
             r == [ins[i] EXCEPT !.init_done = b]
  <2>1. ins' = [ins EXCEPT ![i] = r]
    BY <1>10, <2>i DEF Publish
  <2>2. b \in BOOLEAN
    OBVIOUS
  <2> HIDE DEF b
  <2>3. r \in Fields /\ r.xtratim = ins[i].xtratim
    BY <1>1, <2>2, Stores
  <2> HIDE DEF r
  <2> QED BY <1>3, <2>1, <2>3
<1> QED BY <1>2, <1>4, <1>5, <1>6, <1>7, <1>8, <1>9, <1>10
        DEF EventMoves, SpliceStep, PassBy, Place, SpliceBehind, OwnLinks, SpliceAhead,
            LockForNote, Room, NoMemory, Relock, EventDone, EventExpireEnd, FindTie

\* The splice keeps the links what they are.
LEMMA SpliceLinks == ASSUME IInv, EventMoves PROVE link' \in Links
<1>1. link \in Links /\ event \in Events /\ ControlInv
  BY DEF IInv, Types
<1>2. CASE SpliceBehind
  BY <1>1, <1>2 DEF SpliceBehind, EventAt, ControlInv, Links, Events
<1>3. CASE OwnLinks
  BY <1>1, <1>3 DEF OwnLinks, EventAt, ControlInv, Links, Events
<1>4. CASE SpliceAhead
  BY <1>1, <1>4 DEF SpliceAhead, EventAt, ControlInv, Links, Events
<1> QED BY <1>1, <1>2, <1>3, <1>4
        DEF EventMoves, SpliceStep, PassBy, Place, LockForNote, Room, NoMemory, Relock, Publish,
            EventDone, EventExpireEnd, Reactivate, Ready, FindTie, TakeNote, DrainReader,
            SetFields, EndPass, Schedule

\* Where the event thread goes next: it stays inside a pass, or outside.
EventGoesOn ==
    /\ event' \in Events
    /\ event'.pc \in Passing <=> event.pc \in Passing
    /\ event.pc \in Passing => event'.ip = event.ip
    /\ event'.pc \notin {"idle", "lock", "room", "find", "done"} => event'.ip \in Inst
    /\ event'.pc \in {"place", "behind", "own", "ahead"} => event'.prvp # Nobody
    /\ event'.pc = "behind" => event'.nxtp # Nobody

LEMMA EventMovesOn == ASSUME IInv, EventMoves PROVE EventGoesOn
<1>1. event \in Events /\ ControlInv /\ link \in Links
  BY DEF IInv, Types
<1>2. CASE PassBy \/ Place
  <2>1. event.pc = "place" /\ event.prvp \in Inst \cup {Anchor} /\ event.ip \in Inst
        /\ link.nxt[event.prvp] \in Some
    BY <1>1, <1>2 DEF PassBy, Place, EventAt, ControlInv, Events, Links
  <2>2. CASE PassBy
    <3> DEFINE n == link.nxt[event.prvp]
    <3>1. n # Nobody /\ n \in Node /\ event' = [event EXCEPT !.prvp = n]
      BY <2>1, <2>2 DEF PassBy
    <3> HIDE DEF n
    <3>2. event' \in Events /\ event'.prvp = n /\ event'.pc = "place" /\ event'.ip = event.ip
      BY <1>1, <2>1, <3>1 DEF Events
    <3> QED BY <2>1, <3>1, <3>2 DEF EventGoesOn, Passing
  <2>3. CASE Place
    <3> DEFINE n == link.nxt[event.prvp]
               pc == IF n = Nobody THEN "own" ELSE "behind"
    <3>1. n \in Some /\ event' = [event EXCEPT !.pc = pc, !.nxtp = n]
      BY <2>1, <2>3 DEF Place
    <3>2. pc \in {"own", "behind"} /\ (pc = "behind" => n # Nobody)
      OBVIOUS
    <3> HIDE DEF n, pc
    <3>3. /\ event' \in Events /\ event'.pc = pc /\ event'.nxtp = n
          /\ event'.ip = event.ip /\ event'.prvp = event.prvp
      BY <1>1, <2>1, <3>1, <3>2 DEF Events, EventPc
    <3> QED BY <2>1, <3>2, <3>3, NamesAssumption DEF EventGoesOn, Passing
  <2> QED BY <1>2, <2>2, <2>3
<1>3. CASE SpliceBehind \/ OwnLinks \/ SpliceAhead
  BY <1>1, <1>3 DEF SpliceBehind, OwnLinks, SpliceAhead, EventAt, EventGoes, EventGoesOn,
                    ControlInv, Events, EventPc, Passing
<1>4. CASE LockForNote \/ Room \/ NoMemory \/ Relock
  BY <1>1, <1>4 DEF LockForNote, Room, NoMemory, Relock, EventAt, EventGoes, EventGoesOn,
                    ControlInv, Events, EventPc, Passing
<1>5. CASE Publish \/ EventDone \/ EventExpireEnd \/ Reactivate \/ Ready
  BY <1>1, <1>5 DEF Publish, EventDone, EventExpireEnd, Reactivate, Ready, EventAt, EventGoes,
                    EventGoesOn, ControlInv, Events, EventPc, Passing
<1>6. ASSUME NEW i \in Inst, FindTie(i) \/ TakeNote(i) \/ DrainReader(i) PROVE EventGoesOn
  BY <1>1, <1>6 DEF FindTie, TakeNote, DrainReader, EventAt, EventGoesOn, ControlInv, Events,
                    EventPc, Passing
<1>7. ASSUME NEW finite \in BOOLEAN, SetFields(finite) PROVE EventGoesOn
  BY <1>1, <1>7 DEF SetFields, EventAt, EventGoesOn, ControlInv, Events, EventPc, Passing
<1>8. ASSUME NEW error \in BOOLEAN, NEW open, NEW xtra, EndPass(error, open, xtra)
      PROVE  EventGoesOn
  BY <1>1, <1>8 DEF EndPass, EventAt, EventGoesOn, ControlInv, Events, EventPc, Passing
<1>9. ASSUME NEW late \in BOOLEAN, Schedule(late) PROVE EventGoesOn
  BY <1>1, <1>9 DEF Schedule, EventAt, EventGoes, EventGoesOn, ControlInv, Events, EventPc, Passing
<1> QED BY <1>2, <1>3, <1>4, <1>5, <1>6, <1>7, <1>8, <1>9 DEF EventMoves, SpliceStep

\* None of them disturbs the invariant.
LEMMA EventMovesStep == ASSUME IInv, EventMoves PROVE IInv'
<1>1. UNCHANGED <<init_running, turnoff_pending, handoff, queue, call, perf, rendering>>
  BY DEF EventMoves, SpliceStep, PassBy, Place, SpliceBehind, OwnLinks, SpliceAhead,
         LockForNote, Room, NoMemory, Relock, Publish, EventDone, EventExpireEnd, Reactivate,
         Ready, FindTie, TakeNote, DrainReader, SetFields, EndPass, Schedule
<1>2. EventFields /\ link' \in Links /\ EventGoesOn
  BY EventMovesFields, SpliceLinks, EventMovesOn
<1> QED BY <1>1, <1>2, EventFrame DEF EventFields, EventGoesOn

\* A request from the queue: a note, or a reinit that begins.
LEMMA DequeueStep == ASSUME IInv, Dequeue PROVE IInv'
<1>1. /\ Types /\ ControlInv /\ event \in Events /\ queue \in Seq(Some) /\ queue # <<>>
      /\ UNCHANGED <<ins, init_running, turnoff_pending, handoff, link, rendering, call, perf>>
      /\ event.pc = "idle" /\ queue' = Tail(queue)
  BY DEF Dequeue, EventAt, IInv, Types
<1> DEFINE x == Head(queue)
<1>2. x \in Some
  BY <1>1
<1>3. event' = [event EXCEPT !.pc = IF x = Nobody THEN "lock" ELSE "repass", !.ip = x]
  BY DEF Dequeue
<1>4. queue' \in Seq(Some)
  BY <1>1
<1> HIDE DEF x
<1>5. /\ event' \in Events /\ event'.ip = x
      /\ event'.pc = IF x = Nobody THEN "lock" ELSE "repass"
  BY <1>1, <1>2, <1>3 DEF Events, EventPc
<1>6. Types'
  BY <1>1, <1>4, <1>5 DEF Types
<1>7. ControlInv'
  BY <1>1, <1>2, <1>5 DEF ControlInv
<1>8. ASSUME NEW t \in Thread PROVE CallInv(t)'
  BY <1>1 DEF IInv, CallInv
<1>9. ASSUME NEW j \in Inst PROVE WordsInv(j)'
  <2>1. /\ x = j => Queued(j) = Queued(j)' + 1
        /\ x # j => Queued(j) = Queued(j)'
        /\ Queued(j)' \in Nat
    BY <1>1, QueueTail DEF x
  <2>2. Owners(j)' = Owners(j) /\ Queued(j) \in Nat
    BY <1>1, QueuedType DEF Owners
  <2>3. DepthInv(j) /\ OwnerInv(j)
    BY DEF IInv, WordsInv
  <2>4. /\ event.pc \notin Passing
        /\ event'.pc \in Passing /\ event'.ip = j <=> x = j
    BY <1>1, <1>5, NamesAssumption DEF Passing
  <2>5. DepthInv(j)'
    BY <1>1, <2>1, <2>2, <2>3, <2>4 DEF DepthInv
  <2>6. OwnerInv(j)'
    BY <1>1, <2>2, <2>3 DEF OwnerInv
  <2> QED BY <2>5, <2>6 DEF WordsInv
<1> QED BY <1>6, <1>7, <1>8, <1>9 DEF IInv

\* instance_init_begin on the event thread.
LEMMA EventBegins ==
    ASSUME IInv, NEW i \in Inst, CanBegin(i), init_running' = [init_running EXCEPT ![i] = @ + 1],
           UNCHANGED <<turnoff_pending, handoff, link, queue, rendering, call, perf>>,
           ins' \in [Inst -> Fields], \A j \in Inst : ins'[j].xtratim = ins[j].xtratim,
           event' \in Events, event.pc \notin Passing,
           event'.pc \in {"place", "fields"}, event'.ip = i,
           event'.pc = "place" => event'.prvp # Nobody
    PROVE  IInv'
<1>1. Types /\ ControlInv /\ init_running \in [Inst -> Nat]
  BY DEF IInv, Types
<1>2. Types'
  BY <1>1 DEF Types
<1>3. ControlInv'
  BY <1>1 DEF ControlInv
<1>4. ASSUME NEW t \in Thread PROVE CallInv(t)'
  BY DEF IInv, CallInv
<1>5. ASSUME NEW j \in Inst PROVE WordsInv(j)'
  <2>1. Owners(j)' = Owners(j) /\ Queued(j)' = Queued(j) /\ Queued(j) \in Nat
    BY <1>1, QueuedType DEF Owners, Queued, Types
  <2>2. event'.pc \in Passing
    BY DEF Passing
  <2>3. CASE j # i
    <3>1. Quiet(j)
      BY <1>1, <2>1, <2>2, <2>3 DEF Quiet
    <3> QED BY <3>1, QuietKeeps DEF IInv
  <2>4. CASE j = i
    <3>1. turnoff_pending[i] # "finalizing" /\ DepthInv(i) /\ OwnerInv(i)
      BY DEF CanBegin, IInv, WordsInv
    <3>2. init_running'[i] = init_running[i] + 1
      BY <1>1
    <3>3. DepthInv(i)'
      BY <1>1, <2>1, <2>2, <2>4, <3>1, <3>2 DEF DepthInv
    <3>4. OwnerInv(i)'
      BY <2>1, <2>4, <3>1 DEF OwnerInv
    <3> QED BY <2>4, <3>3, <3>4 DEF WordsInv
  <2> QED BY <2>3, <2>4
<1> QED BY <1>2, <1>3, <1>4, <1>5 DEF IInv

\* A new note, and a tied one.
LEMMA BeginStep == ASSUME IInv, BeginNote \/ BeginTie PROVE IInv'
<1>i. PICK i \in Inst : event.ip = i
  BY DEF BeginNote, BeginTie, EventAt, IInv, ControlInv
<1>1. /\ Types /\ ControlInv /\ event \in Events /\ ins \in [Inst -> Fields] /\ link \in Links
      /\ event.pc \in {"begin", "tie"} /\ event.ip = i
  BY <1>i DEF IInv, Types, BeginNote, BeginTie, EventAt
<1>2. /\ UNCHANGED <<turnoff_pending, handoff, link, queue, rendering, call, perf>>
  BY DEF BeginNote, BeginTie
<1>3. ins' \in [Inst -> Fields] /\ \A j \in Inst : ins'[j].xtratim = ins[j].xtratim
  <2>1. CASE UNCHANGED ins
    BY <1>1, <2>1
  <2>2. CASE ins' = [ins EXCEPT ![i].init_done = FALSE]
    <3>1. ins' = [ins EXCEPT ![i] = [ins[i] EXCEPT !.init_done = FALSE]]
      BY <2>2
    <3>2. [ins[i] EXCEPT !.init_done = FALSE] \in Fields
          /\ [ins[i] EXCEPT !.init_done = FALSE].xtratim = ins[i].xtratim
      BY <1>1, Stores
    <3> QED BY <1>1, <3>1, <3>2, Updates
  <2> QED BY <1>i, <2>1, <2>2 DEF BeginNote, BeginTie
<1>4. CASE ~CanBegin(i)
  <2>1. UNCHANGED init_running /\ event' = [event EXCEPT !.pc = "done"]
    BY <1>i, <1>4 DEF BeginNote, BeginTie, EventGoes
  <2>2. event' \in Events /\ event'.pc = "done" /\ event'.ip = i
    BY <1>1, <2>1 DEF Events, EventPc
  <2> QED BY <1>1, <1>2, <1>3, <2>1, <2>2, EventFrame DEF Passing
<1>5. CASE CanBegin(i)
  <2>1. /\ init_running' = [init_running EXCEPT ![i] = @ + 1]
        /\ \/ event' = [event EXCEPT !.pc = "place", !.prvp = Anchor]
           \/ event' = [event EXCEPT !.pc = "fields"]
    BY <1>i, <1>5 DEF BeginNote, BeginTie, EventGoes
  <2>2. /\ event' \in Events /\ event'.pc \in {"place", "fields"} /\ event'.ip = i
        /\ event'.pc = "place" => event'.prvp # Nobody
    <3>1. Anchor \in Node /\ Anchor # Nobody
      BY NamesAssumption
    <3>2. CASE event' = [event EXCEPT !.pc = "place", !.prvp = Anchor]
      BY <1>1, <3>1, <3>2 DEF Events, EventPc
    <3>3. CASE event' = [event EXCEPT !.pc = "fields"]
      BY <1>1, <3>3 DEF Events, EventPc
    <3> QED BY <2>1, <3>2, <3>3
  <2>3. event.pc \notin Passing
    BY <1>1 DEF Passing
  <2> QED BY <1>2, <1>3, <1>5, <2>1, <2>2, <2>3, EventBegins
<1> QED BY <1>4, <1>5

\* The end of a pass: the turnoff that it kept waiting is handed over.
LEMMA FinishStep == ASSUME IInv, FinishNote \/ FinishReinit PROVE IInv'
<1>i. PICK i \in Inst : event.ip = i
  BY DEF FinishNote, FinishReinit, EventAt, IInv, ControlInv
<1>1. /\ Types /\ ControlInv /\ event \in Events /\ ins \in [Inst -> Fields]
  BY DEF IInv, Types
<1>2. /\ UNCHANGED <<link, queue, rendering, call, perf>>
      /\ event.pc \in {"finish", "refinish"} /\ event.ip = i /\ InitFinish(i)
  BY <1>i DEF FinishNote, FinishReinit, EventAt
<1>3. init_running[i] > 0 /\ turnoff_pending[i] # "finalizing" /\ Owners(i) = 0
  BY <1>2, OwnedIsIdle DEF Passing
<1>4. /\ init_running' \in [Inst -> Nat] /\ handoff' \in [Inst -> Nat]
      /\ turnoff_pending' \in [Inst -> {"none", "requested", "finalizing"}]
      /\ init_running'[i] = init_running[i] - 1
      /\ FinishTurnsOff(i) => /\ turnoff_pending'[i] = "finalizing"
                              /\ init_running'[i] = 0
                              /\ handoff'[i] = handoff[i] + 1
      /\ ~FinishTurnsOff(i) => /\ turnoff_pending'[i] = turnoff_pending[i]
                               /\ handoff' = handoff
      /\ \A j \in Inst : j # i => /\ init_running'[j] = init_running[j]
                                  /\ handoff'[j] = handoff[j]
                                  /\ turnoff_pending'[j] = turnoff_pending[j]
  BY <1>2, <1>3, Finishes
<1>5. ins' \in [Inst -> Fields] /\ \A j \in Inst : ins'[j].xtratim = ins[j].xtratim
  <2>1. [ins[i] EXCEPT !.init_done = FALSE] \in Fields
        /\ [ins[i] EXCEPT !.init_done = FALSE].xtratim = ins[i].xtratim
    BY <1>1, Stores
  <2>2. ins' = ins \/ ins' = [ins EXCEPT ![i] = [ins[i] EXCEPT !.init_done = FALSE]]
    BY <1>i DEF FinishNote, FinishReinit
  <2> QED BY <1>1, <2>1, <2>2, Updates
<1>6. /\ event' \in Events /\ event'.pc \in {"done", "request", "sched", "reactivate"}
      /\ event'.ip = i
  <2>1. FinishCompletes(i) \in BOOLEAN
    BY DEF FinishCompletes
  <2>2. \E pc \in {"done", "request", "sched", "reactivate"} :
            event' = [event EXCEPT !.pc = pc, !.error = FALSE, !.complete = FinishCompletes(i)]
    BY <1>i DEF FinishNote, FinishReinit
  <2> QED BY <1>1, <1>2, <2>1, <2>2 DEF Events, EventPc
<1>7. Types'
  BY <1>1, <1>2, <1>4, <1>5, <1>6 DEF Types
<1>8. ControlInv'
  BY <1>1, <1>2, <1>6 DEF ControlInv
<1>9. ASSUME NEW t \in Thread PROVE CallInv(t)'
  BY <1>2, <1>5 DEF IInv, CallInv
<1>10. ASSUME NEW j \in Inst PROVE WordsInv(j)'
  <2>1. Queued(j)' = Queued(j) /\ Queued(j) \in Nat /\ DepthInv(j) /\ OwnerInv(j)
    BY <1>1, <1>2, QueuedType DEF Queued, IInv, WordsInv, Types
  <2>2. event.pc \in Passing /\ event'.pc \notin Passing
    BY <1>2, <1>6 DEF Passing
  <2>3. CASE j # i
    <3>1. Owners(j)' = Owners(j)
      BY <1>2, <1>4, <2>3 DEF Owners
    <3>2. Quiet(j)
      BY <1>2, <1>4, <1>6, <2>1, <2>2, <2>3, <3>1 DEF Quiet
    <3> QED BY <3>2, QuietKeeps DEF IInv
  <2>4. CASE j = i
    <3>1. DepthInv(i)'
      BY <1>1, <1>2, <1>4, <1>6, <2>1, <2>2, <2>4 DEF DepthInv, Types
    <3>2. handoff[i] \in Nat /\ perf.batch[i] \in Nat
      BY OwnerParts
    <3>3. Owners(i)' = Owners(i) + (handoff'[i] - handoff[i])
      BY <1>2, <1>4, <3>2 DEF Owners
    <3>4. OwnerInv(i)'
      BY <1>3, <1>4, <2>1, <2>4, <3>2, <3>3 DEF OwnerInv
    <3> QED BY <2>4, <3>1, <3>4 DEF WordsInv
  <2> QED BY <2>3, <2>4
<1> QED BY <1>7, <1>8, <1>9, <1>10 DEF IInv

\* instance_init_request_turnoff after a pass that failed.
LEMMA RequestTurnoffStep == ASSUME IInv, Request PROVE IInv'
<1>i. PICK i \in Inst : event.ip = i
  BY DEF Request, EventAt, IInv, ControlInv
<1>1. /\ Types /\ ControlInv /\ event \in Events /\ ins \in [Inst -> Fields]
      /\ handoff \in [Inst -> Nat]
      /\ turnoff_pending \in [Inst -> {"none", "requested", "finalizing"}]
      /\ init_running \in [Inst -> Nat]
  BY DEF IInv, Types
<1>2. /\ UNCHANGED <<init_running, link, queue, rendering, call, perf>>
      /\ event.pc = "request" /\ RequestTurnoff(i) /\ event' = [event EXCEPT !.pc = "done"]
      /\ ins' = [ins EXCEPT ![i] = [ins[i] EXCEPT !.init_done = FALSE]]
  BY <1>i DEF Request, RequestTurnoff, EventAt, EventGoes
<1>3. event' \in Events /\ event'.pc = "done" /\ event'.ip = i
  BY <1>1, <1>2, <1>i DEF Events, EventPc
<1>4. ins' \in [Inst -> Fields] /\ \A j \in Inst : ins'[j].xtratim = ins[j].xtratim
  BY <1>1, <1>2, Stores, Updates
<1>5. handoff[i] \in Nat /\ handoff[i] <= 1 /\ perf.batch[i] \in Nat
  BY OwnerParts
<1>6. /\ Count(handoff, i, 1) \in [Inst -> Nat]
      /\ Count(handoff, i, 1)[i] = handoff[i] + 1
      /\ \A j \in Inst : j # i => Count(handoff, i, 1)[j] = handoff[j]
  BY <1>1, <1>5, Counts
<1> DEFINE Handed == turnoff_pending[i] # "finalizing" /\ init_running[i] = 0
<1>7. /\ handoff' \in [Inst -> Nat]
      /\ turnoff_pending' \in [Inst -> {"none", "requested", "finalizing"}]
      /\ \A j \in Inst : j # i => /\ handoff'[j] = handoff[j]
                                  /\ turnoff_pending'[j] = turnoff_pending[j]
      /\ Handed => turnoff_pending'[i] = "finalizing" /\ handoff'[i] = handoff[i] + 1
      /\ ~Handed => /\ handoff'[i] = handoff[i]
                    /\ turnoff_pending'[i] = "finalizing" <=> turnoff_pending[i] = "finalizing"
  BY <1>1, <1>2, <1>6 DEF RequestTurnoff
<1>8. Types'
  BY <1>1, <1>2, <1>3, <1>4, <1>7 DEF Types
<1>9. ControlInv'
  BY <1>1, <1>2, <1>3 DEF ControlInv
<1>10. ASSUME NEW t \in Thread PROVE CallInv(t)'
  BY <1>2, <1>4 DEF IInv, CallInv
<1>11. ASSUME NEW j \in Inst PROVE WordsInv(j)'
  <2>1. Queued(j)' = Queued(j) /\ DepthInv(j) /\ OwnerInv(j)
    BY <1>2 DEF Queued, IInv, WordsInv
  <2>2. DepthInv(j)'
    BY <1>2, <1>3, <2>1 DEF DepthInv, Passing
  <2>3. CASE j # i
    <3>1. Owners(j)' = Owners(j)
      BY <1>2, <1>7, <2>3 DEF Owners
    <3> QED BY <1>2, <1>7, <2>1, <2>2, <2>3, <3>1 DEF WordsInv, OwnerInv
  <2>4. CASE j = i
    <3>1. Owners(i)' = Owners(i) + (handoff'[i] - handoff[i])
      BY <1>2, <1>5, <1>7 DEF Owners
    <3>2. OwnerInv(i)'
      BY <1>2, <1>5, <1>7, <2>1, <2>4, <3>1 DEF OwnerInv
    <3> QED BY <2>2, <2>4, <3>2 DEF WordsInv
  <2> QED BY <2>3, <2>4
<1> QED BY <1>8, <1>9, <1>10, <1>11 DEF IInv

-----------------------------------------------------------------------------
(* The invariant, and what follows from it.                                *)

\* At the start no instance has memory, and no thread has one.
LEMMA InitIInv == ASSUME Init PROVE IInv
<1>1. Types
  <2>1. ins \in [Inst -> Fields]
    BY DEF Init, Blank, Fields
  <2>2. /\ init_running \in [Inst -> Nat] /\ handoff \in [Inst -> Nat] /\ rendering \in BOOLEAN
        /\ turnoff_pending \in [Inst -> {"none", "requested", "finalizing"}]
    BY DEF Init
  <2>3. queue \in Seq(Some)
    <3>1. queue = <<>>
      BY DEF Init
    <3> QED BY <3>1
  <2>4. link \in Links /\ call \in [Thread -> Calls]
    BY DEF Init, Links, NoCall, Calls, CallAt
  <2>5. perf \in Perfs
    BY DEF Init, Perfs, PerfPc, Flags
  <2>6. event \in Events
    BY DEF Init, Events, EventPc
  <2> QED BY <2>1, <2>2, <2>3, <2>4, <2>5, <2>6 DEF Types
<1>2. ControlInv
  BY DEF Init, ControlInv, NoCall, Thread
<1>3. ASSUME NEW t \in Thread PROVE CallInv(t)
  BY DEF Init, CallInv, NoCall
<1>4. ASSUME NEW i \in Inst PROVE WordsInv(i)
  <2>1. Queued(i) = 0
    <3>1. {k \in 1..Len(queue) : queue[k] = i} = {}
      BY DEF Init
    <3> QED BY <3>1, FS_EmptySet DEF Queued
  <2>2. Owners(i) = 0
    BY DEF Init, Owners, NoCall, Thread, Claimed
  <2> QED BY <2>1, <2>2 DEF Init, WordsInv, DepthInv, OwnerInv, Passing, Reiniting
<1> QED BY <1>1, <1>2, <1>3, <1>4 DEF IInv

\* Every step of either thread keeps the invariant.
LEMMA NextIInv == ASSUME IInv, [Next]_vars PROVE IInv'
<1>1. CASE PerfStep
  <2>1. "perf" \in Thread
    BY DEF Thread
  <2>2. CASE CallStep("perf")
    BY <2>1, <2>2, ClaimStep, CallMoves, ReturnStep DEF CallStep
  <2>3. CASE PerfMoves
    BY <2>3, PerfMovesStep
  <2>4. CASE TakeHandoff \/ HandoffDone \/ PostNote
    BY <2>4, TakeHandoffStep, HandoffDoneStep, PostNoteStep
  <2>5. CASE BeginReinit \/ PostReinit \/ UndoReinit
    BY <2>5, BeginReinitStep, PostReinitStep, UndoReinitStep
  <2>6. CASE ReinitError
    <3>1. PICK i \in Inst : perf.cur = i
      BY <2>6 DEF ReinitError, IInv, ControlInv
    <3> QED BY <2>6, <3>1, RequestStep
  <2>7. ASSUME NEW i \in Inst, NEW how \in {"release", "now"},
               \/ HandoffTurnoff(i) \/ ExpireDue(i) \/ NoteOff(i)
               \/ SectionTurnoff(i) \/ OpTurnoff(i, how)
        PROVE  IInv'
    BY <2>7, HandoffTurnoffStep, RequestStep
  <2> QED BY <1>1, <2>2, <2>3, <2>4, <2>5, <2>6, <2>7 DEF PerfStep, PerfMoves, ReinitStep
<1>2. CASE EventStep
  <2>1. "event" \in Thread
    BY DEF Thread
  <2>2. CASE CallStep("event")
    BY <2>1, <2>2, ClaimStep, CallMoves, ReturnStep DEF CallStep
  <2>3. CASE EventMoves
    BY <2>3, EventMovesStep
  <2>4. CASE Dequeue \/ BeginTie \/ BeginNote \/ FinishNote \/ FinishReinit \/ Request
    BY <2>4, DequeueStep, BeginStep, FinishStep, RequestTurnoffStep
  <2>5. ASSUME NEW i \in Inst, NEW how \in {"release", "now"},
               MakeRoom(i) \/ InitTurnoff(i, how) \/ EventExpire(i)
        PROVE  IInv'
    BY <2>5, RequestStep
  <2> QED BY <1>2, <2>2, <2>3, <2>4, <2>5 DEF EventStep, EventMoves
<1>3. CASE UNCHANGED vars
  <2>1. Types' /\ ControlInv'
    BY <1>3 DEF vars, IInv, Types, ControlInv
  <2>2. ASSUME NEW t \in Thread PROVE CallInv(t)'
    BY <1>3 DEF vars, IInv, CallInv
  <2>3. ASSUME NEW j \in Inst PROVE WordsInv(j)'
    <3>1. Owners(j)' = Owners(j) /\ Queued(j)' = Queued(j)
      BY <1>3 DEF vars, Owners, Queued
    <3>2. Quiet(j)
      BY <1>3, <3>1 DEF vars, Quiet
    <3> QED BY <3>2, QuietKeeps DEF IInv
  <2> QED BY <2>1, <2>2, <2>3 DEF IInv
<1> QED BY <1>1, <1>2, <1>3 DEF Next

\* The two words of every instance always say what the threads are doing with
\* it (insert.c, instance_init_begin, instance_init_finish,
\* instance_turnoff_claim, instance_turnoff_complete): init_running is the
\* number of reinits queued or about to be and of passes running, and a turnoff
\* that is "finalizing" has one owner.
THEOREM Invariance == Spec => []IInv
<1>1. Init => IInv
  BY InitIInv
<1>2. IInv /\ [Next]_vars => IInv'
  BY NextIInv
<1> QED BY <1>1, <1>2, PTL DEF Spec

\* Both threads cannot own the turnoff of i.
LEMMA OneOwner ==
    ASSUME IInv, NEW i \in Inst,
           call["perf"].at \in Claimed, call["perf"].ip = i,
           call["event"].at \in Claimed, call["event"].ip = i
    PROVE  FALSE
<1>1. handoff[i] \in Nat /\ perf.batch[i] \in Nat /\ Owners(i) <= 1
  BY OwnerParts
<1>2. call["perf"].how = "forced" => perf.pc = "batched" /\ perf.cur = i
  BY DEF IInv, CallInv, Thread
<1> QED BY <1>1, <1>2 DEF Owners

\* For any number of instances: an init or reinit pass of an instance and its
\* deinit pass never overlap, nor do two deinit passes (instance_init_begin
\* against instance_turnoff_claim, and the hand-off between the threads).
THEOREM PassesExclude == Spec => []PassesExclusive
<1>1. IInv => PassesExclusive
  <2> SUFFICES ASSUME IInv, NEW i \in Inst
               PROVE  /\ InPass(i) => \A t \in Thread : ~InDeinit(t, i)
                      /\ ~(InDeinit("perf", i) /\ InDeinit("event", i))
    BY DEF PassesExclusive
  <2>1. ASSUME InPass(i), NEW t \in Thread, InDeinit(t, i) PROVE FALSE
    <3>1. Owners(i) = 0
      BY <2>1, OwnedIsIdle DEF InPass, Passing
    <3>2. Owners(i) = 1
      BY <2>1, OwnerParts DEF InDeinit, Claimed
    <3> QED BY <3>1, <3>2
  <2>2. ~(InDeinit("perf", i) /\ InDeinit("event", i))
    BY OneOwner DEF InDeinit, Claimed
  <2> QED BY <2>1, <2>2
<1> QED BY <1>1, Invariance, PTL

\* For any number of instances: none is on the hand-off list and in the batch
\* at once, or twice on either (instance_init_finish and
\* instance_init_request_turnoff, which link it through init_turnoff_next,
\* against instance_process_pending_turnoffs).
THEOREM HandedOverOnce == Spec => []HandoffOnce
<1>1. IInv => HandoffOnce
  <2> SUFFICES ASSUME IInv, NEW i \in Inst PROVE handoff[i] + perf.batch[i] <= 1
    BY DEF HandoffOnce
  <2> QED BY OwnerParts
<1> QED BY <1>1, Invariance, PTL

-----------------------------------------------------------------------------
(* The off-time list, when every turnoff is made under alloc_spinlock.     *)

\* Neither turnoffs that never look at alloc_spinlock nor reinits: the turnoffs
\* left are those of realtime events, of the off-time list, of section ends, of
\* maxalloc and of the hand-off.
Serial == Uses \cap {"turnoff", "reinit"} = {}

\* Where the threads hold the lock.
PerfHolds  == {"batch", "batched", "expiring", "rtevents", "section"}
EventHolds == {"room", "find", "tie", "begin", "place", "behind", "own", "ahead", "activate",
               "fields", "finish", "request", "sched", "expiring", "publish", "done"}

LockInv ==
    /\ \A t \in Thread : call[t].at # "none" => alloc_spinlock = t
    /\ call["event"].at # "none" => event.pc \in {"room", "expiring"}
    /\ perf.pc \in PerfHolds => alloc_spinlock = "perf"
    /\ event.pc \in EventHolds => alloc_spinlock = "event"
    /\ perf.pc \in PerfHolds \cup {"pending", "expire", "events", "purge", "walk", "run", "step"}
    /\ event.pc \in EventHolds \cup {"idle", "lock", "pass", "relock"}
    /\ \A k \in 1..Len(queue) : queue[k] = Nobody

\* A note on the list is active and has an end.
NoteInv(i) ==
    /\ offs[i] = 1 => ins[i].actflg /\ ins[i].finite
    /\ ~ins[i].alloc => ~ins[i].actflg /\ init_running[i] = 0 /\ turnoff_pending[i] = "none"

\* Where a turnoff has its note off the list, and where it goes back.
Unlisted == {"extend", "giveback", "reschedule", "deinit", "unlink", "ahead", "back", "retire", "close"}

\* Where the event thread has a note that is to be scheduled.
Pledged == {"tie", "begin", "place", "behind", "own", "ahead", "activate", "fields", "pass",
            "relock", "finish", "sched"}

TurnInv(t) ==
    LET i == call[t].ip IN
    /\ call[t].at \notin {"none", "revive", "list", "complete"} => ins[i].actflg
    /\ call[t].at \in Unlisted \/ (call[t].at = "claim" /\ call[t].how = "deact") => offs[i] = 0
    /\ call[t].at \in {"giveback", "reschedule"} => ins[i].finite
    /\ call[t].at = "reschedule" => ~(event.pc \in Pledged /\ event.ip = i)

PledgeInv ==
    LET i == event.ip IN
    /\ event.pc \in Pledged => offs[i] = 0
    /\ event.pc \in {"tie", "fields", "pass", "relock", "finish", "sched"} => ins[i].actflg
    /\ event.pc \in {"pass", "relock", "finish", "sched"} /\ event.finite => ins[i].finite
    /\ event.pc \in {"begin", "request"} => ins[i].alloc

SInv ==
    /\ offs \in [Inst -> {0, 1}]
    /\ LockInv /\ PledgeInv
    /\ \A i \in Inst : NoteInv(i)
    /\ \A t \in Thread : TurnInv(t)

\* What SInv says of an instance does not change.
Same(j) ==
    /\ ins'[j].actflg = ins[j].actflg /\ ins'[j].finite = ins[j].finite
    /\ ins'[j].alloc = ins[j].alloc

\* The list gets a note, or loses it.
LEMMA OffCounts ==
    ASSUME offs \in [Inst -> {0, 1}], NEW i \in Inst
    PROVE  /\ Count(offs, i, -1) \in [Inst -> {0, 1}] /\ Count(offs, i, -1)[i] = 0
           /\ offs[i] = 0 => /\ Count(offs, i, 1) \in [Inst -> {0, 1}]
                             /\ Count(offs, i, 1)[i] = 1
           /\ \A j \in Inst : j # i => /\ Count(offs, i, -1)[j] = offs[j]
                                       /\ Count(offs, i, 1)[j] = offs[j]
  BY DEF Count

\* A thread that holds the lock is alone with its turnoff ...
LEMMA Alone ==
    ASSUME SInv, NEW t \in Thread, alloc_spinlock = t \/ alloc_spinlock = "free"
    PROVE  \A u \in Thread : u # t => call[u].at = "none"
  BY DEF SInv, LockInv, Thread

\* ... and its note is not the one that the event thread is starting.
LEMMA Apart ==
    ASSUME IInv, SInv, NEW t \in Thread, NEW i \in Inst, call[t].ip = i,
           call[t].at \notin {"none", "claim"}
    PROVE  ~(event.pc \in Pledged /\ event.ip = i)
<1>1. LockInv /\ TurnInv(t) /\ CallInv(t)
  BY DEF IInv, SInv
<1>2. CASE t = "event"
  BY <1>1, <1>2 DEF LockInv, Pledged
<1>3. CASE t = "perf"
  <2>1. event.pc \notin EventHolds
    BY <1>1, <1>3 DEF LockInv, Thread
  <2>2. event.pc \in Pledged => event.pc \in Passing
    BY <2>1 DEF EventHolds, Pledged, Passing
  <2>3. CASE call[t].at = "reschedule"
    BY <1>1, <2>3 DEF TurnInv
  <2>4. CASE call[t].at = "revive"
    <3>1. perf.pc = "batched" /\ perf.cur = i
      BY <1>1, <2>4 DEF CallInv
    <3>2. Owners(i) = 1
      BY <3>1, OwnerParts
    <3> QED BY <2>2, <3>2, OwnedIsIdle
  <2>5. CASE call[t].at \in Claimed
    <3>1. Owners(i) = 1
      BY <2>5, OwnerParts
    <3> QED BY <2>2, <3>1, OwnedIsIdle
  <2>6. call[t].at \in CallAt
    BY DEF IInv, Types, Calls
  <2> QED BY <2>3, <2>4, <2>5, <2>6 DEF CallAt, Claimed
<1> QED BY <1>2, <1>3 DEF Thread

\* A step that leaves the lists, the turnoffs and the notes alone.
LEMMA StaysListed ==
    ASSUME IInv, SInv, LockInv', PledgeInv', UNCHANGED <<offs, call>>,
           \A j \in Inst : Same(j),
           \A j \in Inst : ~ins[j].alloc => init_running'[j] = 0 /\ turnoff_pending'[j] = "none",
           \A t \in Thread : call[t].at = "reschedule" =>
                                ~(event'.pc \in Pledged /\ event'.ip = call[t].ip)
    PROVE  SInv'
<1>1. ASSUME NEW i \in Inst PROVE NoteInv(i)'
  BY <1>1 DEF SInv, NoteInv, Same
<1>2. ASSUME NEW t \in Thread PROVE TurnInv(t)'
  <2>1. CallInv(t) /\ TurnInv(t)
    BY DEF IInv, SInv
  <2> QED BY <2>1 DEF CallInv, TurnInv, Same
<1> QED BY <1>1, <1>2 DEF SInv

\* The performance thread: nothing but the lock is concerned.
PerfPlain ==
    \/ SkipHandoff \/ HandoffEnd \/ TryExpire \/ ExpireEnd \/ TakeEvents \/ EndEvents
    \/ BeginSection \/ EndTurnoffs \/ BeginRender \/ Visit \/ OpsEnd \/ NextInstance \/ EndRender
    \/ TakeHandoff \/ HandoffDone \/ PostNote

LEMMA PerfPlainStep == ASSUME IInv, SInv, PerfPlain PROVE SInv'
<1>1. /\ LockInv /\ PledgeInv /\ Types /\ perf \in Perfs /\ ins \in [Inst -> Fields]
      /\ queue \in Seq(Some) /\ turnoff_pending \in [Inst -> {"none", "requested", "finalizing"}]
  BY DEF IInv, SInv, Types
<1>2. UNCHANGED <<offs, call, event, init_running>>
  BY DEF PerfPlain, SkipHandoff, HandoffEnd, TryExpire, ExpireEnd, TakeEvents, EndEvents,
         BeginSection, EndTurnoffs, BeginRender, Visit, OpsEnd, NextInstance, EndRender,
         TakeHandoff, HandoffDone, PostNote
<1>3. \A j \in Inst : Same(j)
  <2>1. CASE EndRender
    BY <1>1, <2>1 DEF EndRender, Same, Fields
  <2>2. CASE UNCHANGED ins
    BY <2>2 DEF Same
  <2> QED BY <2>1, <2>2
          DEF PerfPlain, SkipHandoff, HandoffEnd, TryExpire, ExpireEnd, TakeEvents, EndEvents,
              BeginSection, EndTurnoffs, BeginRender, Visit, OpsEnd, NextInstance,
              TakeHandoff, HandoffDone, PostNote
<1>4. PledgeInv'
  <2>1. event.pc \in Pledged \cup {"request"} => event.ip \in Inst
    BY DEF IInv, ControlInv, Pledged
  <2> QED BY <1>1, <1>2, <1>3, <2>1 DEF PledgeInv, Same, Pledged
<1>5. \A j \in Inst : ~ins[j].alloc => init_running'[j] = 0 /\ turnoff_pending'[j] = "none"
  <2>1. \A j \in Inst : turnoff_pending[j] = "none" => turnoff_pending'[j] = "none"
    BY <1>1 DEF PerfPlain, SkipHandoff, HandoffEnd, TryExpire, ExpireEnd, TakeEvents, EndEvents,
         BeginSection, EndTurnoffs, BeginRender, Visit, OpsEnd, NextInstance, EndRender,
         TakeHandoff, HandoffDone, PostNote, Complete
  <2> QED BY <1>2, <2>1 DEF SInv, NoteInv
<1>6. LockInv'
  <2>1. CASE SkipHandoff \/ HandoffEnd \/ TakeHandoff \/ HandoffDone
    BY <1>1, <2>1 DEF SkipHandoff, HandoffEnd, TakeHandoff, HandoffDone, LockInv, Perfs,
                      PerfHolds, EventHolds, Thread, IInv, ControlInv, Clear
  <2>2. CASE TryExpire \/ ExpireEnd \/ TakeEvents \/ EndEvents
    BY <1>1, <2>2 DEF TryExpire, ExpireEnd, TakeEvents, EndEvents, CallFree, LockInv, Perfs,
                      PerfHolds, EventHolds, Thread
  <2>3. CASE BeginSection \/ EndTurnoffs
    BY <1>1, <2>3 DEF BeginSection, EndTurnoffs, CallFree, LockInv, Perfs, PerfHolds, EventHolds, Thread
  <2>4. CASE BeginRender \/ Visit \/ OpsEnd \/ NextInstance \/ EndRender
    BY <1>1, <2>4 DEF BeginRender, Visit, OpsEnd, NextInstance, EndRender, LockInv, Perfs,
                      PerfHolds, EventHolds, Thread
  <2>5. CASE PostNote
    BY <1>1, <2>5 DEF PostNote, LockInv
  <2> QED BY <2>1, <2>2, <2>3, <2>4, <2>5 DEF PerfPlain
<1>7. \A t \in Thread : call[t].at = "reschedule" =>
                           ~(event'.pc \in Pledged /\ event'.ip = call[t].ip)
  BY <1>2 DEF SInv, TurnInv
<1> QED BY <1>2, <1>3, <1>4, <1>5, <1>6, <1>7, StaysListed

\* A section end frees what is on no list.
LEMMA EndSectionStep == ASSUME IInv, SInv, EndSection PROVE SInv'
<1>1. /\ LockInv /\ PledgeInv /\ Types /\ perf \in Perfs /\ ins \in [Inst -> Fields]
  BY DEF IInv, SInv, Types
<1>2. UNCHANGED <<init_running, turnoff_pending, offs, alloc_spinlock, queue, call, event>>
  BY DEF EndSection
<1>3. LockInv'
  <2>1. perf' = perf \/ (perf.pc = "purge" /\ perf' = [perf EXCEPT !.pc = "events"])
    BY DEF EndSection
  <2> QED BY <1>1, <1>2, <2>1 DEF LockInv, Perfs, PerfHolds
<1>4. ASSUME NEW j \in Inst
      PROVE  \/ Same(j)
             \/ /\ alloc_spinlock = "free" /\ ~ins[j].actflg
                /\ init_running[j] = 0 /\ turnoff_pending[j] = "none"
                /\ ~ins'[j].alloc /\ ~ins'[j].actflg
  <2>1. CASE UNCHANGED ins
    BY <2>1 DEF Same
  <2>2. CASE ~UNCHANGED ins
    <3>1. /\ alloc_spinlock = "free"
          /\ ins' = [i \in Inst |-> IF ins[i].alloc /\ Reclaimable(i)
                                    THEN [Blank EXCEPT !.alloc = FALSE] ELSE ins[i]]
      BY <2>2 DEF EndSection, FreeInactive
    <3>2. CASE ins[j].alloc /\ Reclaimable(j)
      <4>1. ins'[j] = [Blank EXCEPT !.alloc = FALSE]
        BY <3>1, <3>2
      <4> QED BY <3>1, <3>2, <4>1 DEF Reclaimable, Blank
    <3>3. CASE ~(ins[j].alloc /\ Reclaimable(j))
      BY <3>1, <3>3 DEF Same
    <3> QED BY <3>2, <3>3
  <2> QED BY <2>1, <2>2
<1>5. ASSUME NEW j \in Inst PROVE NoteInv(j)'
  BY <1>2, <1>4 DEF SInv, NoteInv, Same
<1>6. ASSUME NEW t \in Thread PROVE TurnInv(t)'
  <2>1. CallInv(t) /\ TurnInv(t) /\ (call[t].at # "none" => alloc_spinlock # "free")
    BY <1>1 DEF IInv, SInv, LockInv, Thread
  <2>2. call[t].at # "none" => Same(call[t].ip)
    BY <1>4, <2>1 DEF CallInv
  <2> QED BY <1>2, <2>1, <2>2 DEF TurnInv, Same, Unlisted
<1>7. PledgeInv'
  <2>1. event.pc \in Pledged \cup {"request"} => event.ip \in Inst
    BY DEF IInv, ControlInv, Pledged
  <2>2. event.pc \in Pledged \cup {"request"} => Same(event.ip)
    <3>1. CASE event.pc \in Passing
      <4>1. event.ip \in Inst
        BY <3>1 DEF IInv, ControlInv, Passing
      <4>2. init_running[event.ip] > 0
        BY <3>1, <4>1, OwnedIsIdle
      <4> QED BY <1>4, <4>1, <4>2
    <3>2. CASE event.pc \notin Passing
      BY <1>1, <1>4, <2>1, <3>2 DEF LockInv, EventHolds, Passing, Pledged, Thread
    <3> QED BY <3>1, <3>2
  <2> QED BY <1>1, <1>2, <2>2 DEF PledgeInv, Same, Pledged
<1> QED BY <1>2, <1>3, <1>5, <1>6, <1>7 DEF SInv

\* A request for a turnoff: the list is left as it is, or the note is taken off.
LEMMA Requested ==
    ASSUME IInv, SInv, NEW t \in Thread, NEW i \in Inst, NEW how \in {"release", "now", "deact"},
           TurnOff(t, i, how), call[t].at = "none",
           t = "perf" => perf.pc \in {"expiring", "rtevents", "section"},
           t = "event" => event'.pc \in {"room", "expiring"} /\ event'.pc \in EventHolds,
           alloc_spinlock = t \/ alloc_spinlock = "free",
           alloc_spinlock' = t, UNCHANGED <<ins, init_running, turnoff_pending, queue, perf>>,
           event' = event \/ (t = "event" /\ event.pc = "lock"),
           how = "deact" => offs'[i] = 0, offs' \in [Inst -> {0, 1}],
           offs'[i] = 0 \/ offs'[i] = offs[i], \A j \in Inst : j # i => offs'[j] = offs[j]
    PROVE  SInv'
<1>1. Types /\ LockInv /\ PledgeInv
  BY DEF IInv, SInv
<1>2. /\ call' \in [Thread -> Calls]
      /\ \A u \in Thread : u # t => call'[u] = call[u] /\ call[u].at = "none"
      /\ \/ call'[t].at = "none"
         \/ call'[t].at = "claim" /\ call'[t].ip = i /\ call'[t].how = how /\ ins[i].actflg
  <2>1. \A u \in Thread : u # t => call'[u] = call[u]
    BY <1>1, TurnOffCall
  <2>2. \A u \in Thread : u # t => call[u].at = "none"
    BY Alone
  <2>3. call' = call \/ ins[i].actflg
    BY DEF TurnOff
  <2> QED BY <1>1, <2>1, <2>2, <2>3, TurnOffCall
<1>3. LockInv'
  BY <1>1, <1>2 DEF LockInv, Thread, PerfHolds, EventHolds
<1>4. ASSUME NEW j \in Inst PROVE NoteInv(j)'
  BY DEF SInv, NoteInv
<1>5. ASSUME NEW u \in Thread PROVE TurnInv(u)'
  <2>1. CASE u # t
    BY <1>2, <2>1 DEF TurnInv, Unlisted
  <2>2. CASE u = t
    BY <1>2, <2>2 DEF TurnInv, Unlisted
  <2> QED BY <2>1, <2>2
<1>6. PledgeInv'
  <2>1. CASE t = "event"
    BY <2>1 DEF PledgeInv, Pledged
  <2>2. CASE t = "perf"
    <3>1. event' = event /\ (event.pc \in Pledged => event.ip \in Inst)
      BY <2>2 DEF IInv, ControlInv, Pledged
    <3> QED BY <1>1, <3>1 DEF PledgeInv
  <2> QED BY <2>1, <2>2 DEF Thread
<1> QED BY <1>3, <1>4, <1>5, <1>6 DEF SInv

\* The end of a note's time; its release stage keeps it on the list.
LEMMA ExpireListed ==
    ASSUME IInv, SInv, NEW t \in Thread, NEW i \in Inst, Expire(t, i),
           t = "perf" => perf.pc = "expiring", t = "event" => event.pc = "expiring"
    PROVE  SInv'
<1>1. /\ Types /\ LockInv /\ PledgeInv /\ NoteInv(i) /\ ins \in [Inst -> Fields]
      /\ offs[i] = 1 /\ offs[i] > 0
  <2>1. offs[i] > 0 /\ offs[i] \in {0, 1}
    BY DEF Expire, SInv
  <2> QED BY <2>1 DEF IInv, SInv, Types
<1>2. /\ UNCHANGED <<init_running, turnoff_pending, queue, perf, event, alloc_spinlock>>
      /\ call[t].at = "none" /\ alloc_spinlock = t
  BY <1>1 DEF Expire, CallFree, LockInv, PerfHolds, EventHolds, Thread
<1>3. CASE ~ins[i].relesing /\ ins[i].xtratim
  <2>1. /\ UNCHANGED <<call, offs>>
        /\ ins' = [ins EXCEPT ![i] = Released(ins[i])]
    BY <1>3 DEF Expire, Released
  <2>2. /\ Released(ins[i]).actflg = ins[i].actflg /\ Released(ins[i]).finite
        /\ Released(ins[i]).alloc = ins[i].alloc
    BY <1>1 DEF Released, Fields
  <2>3. \A j \in Inst : Same(j)
    BY <1>1, <2>1, <2>2 DEF Same, NoteInv, Fields
  <2>4. LockInv'
    BY <1>1, <1>2, <2>1 DEF LockInv
  <2>5. PledgeInv'
    <3>1. event.pc \in Pledged \cup {"request"} => event.ip \in Inst
      BY DEF IInv, ControlInv, Pledged
    <3> QED BY <1>1, <1>2, <2>1, <2>3, <3>1 DEF PledgeInv, Same, Pledged
  <2>6. \A u \in Thread : call[u].at = "reschedule" =>
                             ~(event'.pc \in Pledged /\ event'.ip = call[u].ip)
    BY <1>2 DEF SInv, TurnInv
  <2>7. \A j \in Inst : ~ins[j].alloc => init_running'[j] = 0 /\ turnoff_pending'[j] = "none"
    BY <1>2 DEF SInv, NoteInv
  <2> QED BY <2>1, <2>3, <2>4, <2>5, <2>6, <2>7, StaysListed
<1>4. CASE ~(~ins[i].relesing /\ ins[i].xtratim)
  <2>1. /\ TurnOff(t, i, "deact") /\ UNCHANGED ins /\ offs' = Count(offs, i, -1)
    BY <1>4 DEF Expire
  <2>2. /\ offs' \in [Inst -> {0, 1}] /\ offs'[i] = 0
        /\ \A j \in Inst : j # i => offs'[j] = offs[j]
    BY <2>1, OffCounts DEF SInv
  <2> QED BY <1>2, <2>1, <2>2, Requested DEF EventHolds
<1> QED BY <1>3, <1>4

\* Every place a thread asks for a turnoff.
LEMMA RequestListed ==
    ASSUME IInv, SInv, Serial, NEW i \in Inst, NEW how \in {"release", "now"},
           \/ NoteOff(i) \/ SectionTurnoff(i) \/ OpTurnoff(i, how) \/ ExpireDue(i) \/ ReinitError
           \/ MakeRoom(i) \/ InitTurnoff(i, how) \/ EventExpire(i)
    PROVE  SInv'
<1>1. /\ "perf" \in Thread /\ "event" \in Thread /\ LockInv /\ event \in Events
      /\ offs \in [Inst -> {0, 1}] /\ "turnoff" \notin Uses
  BY DEF IInv, SInv, Types, Thread, Serial
<1>2. CASE ExpireDue(i) \/ EventExpire(i)
  BY <1>1, <1>2, ExpireListed DEF ExpireDue, EventExpire
<1>3. CASE NoteOff(i)
  <2>1. /\ TurnOff("perf", i, "release") /\ call["perf"].at = "none" /\ perf.pc = "rtevents"
        /\ UNCHANGED <<ins, init_running, turnoff_pending, offs, alloc_spinlock, queue, perf, event>>
    BY <1>1, <1>3 DEF NoteOff, CallFree
  <2>2. alloc_spinlock = "perf"
    BY <1>1, <2>1 DEF LockInv, PerfHolds
  <2> QED BY <1>1, <2>1, <2>2, Requested
<1>4. CASE SectionTurnoff(i)
  <2>1. /\ TurnOff("perf", i, "now") /\ call["perf"].at = "none" /\ perf.pc = "section"
        /\ UNCHANGED <<ins, init_running, turnoff_pending, alloc_spinlock, queue, perf, event>>
        /\ offs' = [offs EXCEPT ![i] = 0]
    BY <1>4 DEF SectionTurnoff, CallFree
  <2>2. alloc_spinlock = "perf"
    BY <1>1, <2>1 DEF LockInv, PerfHolds
  <2>3. offs' \in [Inst -> {0, 1}] /\ offs'[i] = 0 /\ \A j \in Inst : j # i => offs'[j] = offs[j]
    BY <1>1, <2>1
  <2> QED BY <1>1, <2>1, <2>2, <2>3, Requested
<1>5. CASE MakeRoom(i)
  <2>1. /\ TurnOff("event", i, "now") /\ call["event"].at = "none" /\ event.pc = "lock"
        /\ UNCHANGED <<ins, init_running, turnoff_pending, offs, queue, perf>>
        /\ event' = [event EXCEPT !.pc = "room"]
        /\ alloc_spinlock = "free" /\ alloc_spinlock' = "event"
    BY <1>5 DEF MakeRoom, EventAt, EventGoes, EventLock, CallFree
  <2>2. event'.pc = "room"
    BY <1>1, <2>1 DEF Events
  <2> QED BY <1>1, <2>1, <2>2, Requested DEF EventHolds
<1>6. ~(OpTurnoff(i, how) \/ ReinitError \/ InitTurnoff(i, how))
  BY <1>1 DEF OpTurnoff, ReinitError, InitTurnoff, LockInv, PerfHolds
<1> QED BY <1>2, <1>3, <1>4, <1>5, <1>6

\* The hand-off turns a note off, unless it need not any more.
LEMMA HandoffListed == ASSUME IInv, SInv, NEW i \in Inst, HandoffTurnoff(i) PROVE SInv'
<1>1. /\ Types /\ ControlInv /\ LockInv /\ PledgeInv /\ perf \in Perfs /\ call \in [Thread -> Calls]
      /\ UNCHANGED <<ins, init_running, turnoff_pending, offs, alloc_spinlock, queue, event>>
      /\ perf.pc = "batch" /\ call["perf"].at = "none" /\ alloc_spinlock = "perf"
  BY DEF HandoffTurnoff, IInv, SInv, Types, ControlInv, Clear, LockInv, PerfHolds
<1>2. perf'.pc = "batched"
  <2> DEFINE b == Count(perf.batch, i, -1)
  <2>1. perf' = [perf EXCEPT !.pc = "batched", !.cur = i, !.batch = b]
    BY DEF HandoffTurnoff
  <2> HIDE DEF b
  <2> QED BY <1>1, <2>1 DEF Perfs
<1>3. /\ call'["event"] = call["event"] /\ call["event"].at = "none"
      /\ call'["perf"].at \in {"none", "revive"}
  <2> DEFINE c == [NoCall EXCEPT !.at = "revive", !.ip = i, !.how = "forced"]
  <2>1. call' = call \/ call' = [call EXCEPT !["perf"] = c]
    BY DEF HandoffTurnoff, TurnOff
  <2>2. c.at = "revive"
    BY DEF NoCall
  <2>3. call["event"].at = "none"
    BY <1>1 DEF LockInv, Thread
  <2> HIDE DEF c
  <2> QED BY <1>1, <2>1, <2>2, <2>3 DEF Thread
<1>4. LockInv'
  BY <1>1, <1>2, <1>3 DEF LockInv, Thread, PerfHolds, EventHolds
<1>5. ASSUME NEW j \in Inst PROVE NoteInv(j)'
  BY <1>1 DEF SInv, NoteInv
<1>6. ASSUME NEW t \in Thread PROVE TurnInv(t)'
  BY <1>1, <1>3 DEF TurnInv, Unlisted, Thread
<1>7. PledgeInv'
  BY <1>1 DEF PledgeInv
<1> QED BY <1>1, <1>4, <1>5, <1>6, <1>7 DEF SInv

\* A step of a turnoff concerns its own note, which is nobody else's.
LEMMA CallListed ==
    ASSUME IInv, SInv, NEW t \in Thread, NEW i \in Inst, call[t].ip = i, call[t].at # "none",
           UNCHANGED <<init_running, alloc_spinlock, queue, perf, event>>,
           \A u \in Thread : u # t => call'[u] = call[u],
           \A j \in Inst : j # i => /\ Same(j) /\ offs'[j] = offs[j]
                                    /\ turnoff_pending'[j] = turnoff_pending[j],
           call[t].at = "claim" => Same(i) /\ offs'[i] = offs[i],
           ins'[i].alloc = ins[i].alloc, offs' \in [Inst -> {0, 1}],
           NoteInv(i)', TurnInv(t)'
    PROVE  SInv'
<1>1. LockInv /\ PledgeInv /\ alloc_spinlock = t
  BY DEF SInv, LockInv
<1>2. \A u \in Thread : u # t => call'[u] = call[u] /\ call[u].at = "none"
  BY <1>1, Alone
<1>3. LockInv'
  BY <1>1, <1>2 DEF LockInv, Thread
<1>4. ASSUME NEW j \in Inst PROVE NoteInv(j)'
  <2>1. CASE j # i
    BY <2>1 DEF SInv, NoteInv, Same
  <2> QED BY <2>1
<1>5. ASSUME NEW u \in Thread PROVE TurnInv(u)'
  <2>1. CASE u # t
    BY <1>2, <2>1 DEF TurnInv, Unlisted
  <2> QED BY <2>1
<1>6. PledgeInv'
  <2>1. event.pc \in Pledged \cup {"request"} => event.ip \in Inst
    BY DEF IInv, ControlInv, Pledged
  <2>2. CASE event.pc \notin Pledged \cup {"request"}
    BY <2>2 DEF PledgeInv, Pledged
  <2>3. CASE event.pc \in Pledged \cup {"request"} /\ event.ip # i
    BY <1>1, <2>1, <2>3 DEF PledgeInv, Same, Pledged
  <2>4. CASE event.pc = "request" /\ event.ip = i
    BY <1>1, <2>4 DEF PledgeInv, Pledged
  <2>5. CASE event.pc \in Pledged /\ event.ip = i
    <3>1. call[t].at = "claim"
      BY <2>5, Apart
    <3> QED BY <1>1, <2>5, <3>1 DEF PledgeInv, Same, Pledged
  <2> QED BY <2>2, <2>3, <2>4, <2>5
<1> QED BY <1>3, <1>4, <1>5, <1>6 DEF SInv

\* The claim, and the steps that give it back.
LEMMA WordsListed ==
    ASSUME IInv, SInv, NEW t \in Thread, ClaimNote(t) \/ GiveBack(t) \/ Return(t)
    PROVE  SInv'
<1>i. PICK i \in Inst : call[t].ip = i
  BY DEF IInv, CallInv, ClaimNote, GiveBack, Return
<1>1. /\ Types /\ CallInv(t) /\ TurnInv(t) /\ NoteInv(i) /\ offs \in [Inst -> {0, 1}]
      /\ UNCHANGED <<ins, offs, init_running, alloc_spinlock, queue, perf, event>>
      /\ call[t].at \in {"claim", "giveback", "complete"} /\ call[t].ip = i
      /\ turnoff_pending \in [Inst -> {"none", "requested", "finalizing"}]
  BY <1>i DEF IInv, SInv, Types, ClaimNote, GiveBack, Return
<1>2. \A j \in Inst : Same(j)
  BY <1>1 DEF Same
<1>3. /\ \A u \in Thread : u # t => call'[u] = call[u]
      /\ \/ call'[t].at = "none"
         \/ /\ call[t].at = "claim" /\ call'[t].ip = i
            /\ \/ call'[t].at \in {"unschedule", "now"}
               \/ call'[t].at = "deinit" /\ call[t].how = "deact"
         \/ /\ call[t].at = "giveback" /\ call'[t].ip = i /\ call'[t].at = "reschedule"
  <2>1. CASE ClaimNote(t)
    <3>1. CASE Claims(i)
      <4>1. \E at \in {"unschedule", "now", "deinit"} :
                Goes(t, at) /\ (at = "deinit" => call[t].how = "deact")
        BY <1>i, <1>1, <2>1, <3>1 DEF ClaimNote, CallInv
      <4>2. PICK at \in {"unschedule", "now", "deinit"} :
                Goes(t, at) /\ (at = "deinit" => call[t].how = "deact")
        BY <4>1
      <4>3. at \in CallAt
        BY DEF CallAt
      <4>4. /\ \A u \in Thread : u # t => call'[u] = call[u]
            /\ call'[t].at = at /\ call'[t].ip = i
        BY <1>1, <4>2, <4>3, CallGoes
      <4>5. call[t].at = "claim"
        BY <2>1 DEF ClaimNote
      <4> QED BY <4>2, <4>4, <4>5
    <3>2. CASE ~Claims(i)
      BY <1>i, <1>1, <2>1, <3>2, CallEnds DEF ClaimNote
    <3> QED BY <3>1, <3>2
  <2>2. CASE GiveBack(t)
    <3>1. Goes(t, "reschedule") /\ "reschedule" \in CallAt /\ call[t].at = "giveback"
      BY <2>2 DEF GiveBack, CallAt
    <3> QED BY <1>1, <3>1, CallGoes
  <2>3. CASE Return(t)
    BY <1>1, <2>3, CallEnds DEF Return
  <2> QED BY <2>1, <2>2, <2>3
<1>4. /\ \A j \in Inst : j # i => turnoff_pending'[j] = turnoff_pending[j]
      /\ turnoff_pending'[i] = turnoff_pending[i] \/ call[t].at = "claim" \/ turnoff_pending'[i] = "none"
  BY <1>i, <1>1 DEF ClaimNote, GiveBack, Return, Claim, Complete
<1>5. NoteInv(i)'
  BY <1>1, <1>4 DEF NoteInv, TurnInv
<1>6. TurnInv(t)'
  <2>1. CASE call'[t].at = "none"
    BY <2>1 DEF TurnInv, Unlisted
  <2>2. CASE call'[t].at \in {"unschedule", "now"}
    BY <1>1, <1>3, <2>2 DEF TurnInv, Unlisted
  <2>3. CASE call'[t].at = "deinit"
    BY <1>1, <1>3, <2>3 DEF TurnInv, Unlisted
  <2>4. CASE call'[t].at = "reschedule"
    <3>1. call[t].at = "giveback" /\ call'[t].ip = i
      BY <1>3, <2>4
    <3>2. ~(event.pc \in Pledged /\ event.ip = i)
      BY <1>1, <3>1, Apart
    <3> QED BY <1>1, <2>4, <3>1, <3>2 DEF TurnInv, Unlisted
  <2> QED BY <1>3, <2>1, <2>2, <2>3, <2>4
<1> QED BY <1>1, <1>2, <1>3, <1>4, <1>5, <1>6, CallListed

\* The steps between.
LEMMA TurnListed ==
    ASSUME IInv, SInv, NEW t \in Thread,
           \/ Revive(t) \/ NoRelease(t) \/ Unschedule(t) \/ Extend(t) \/ Reschedule(t)
           \/ Deinit(t) \/ Unlink(t) \/ LinkAhead(t) \/ LinkBack(t) \/ Retire(t)
           \/ Close(t) \/ List(t)
    PROVE  SInv'
<1>i. PICK i \in Inst : call[t].ip = i
  BY DEF IInv, CallInv, Revive, NoRelease, Unschedule, Extend, Reschedule, Deinit, Unlink,
         LinkAhead, LinkBack, Retire, Close, List
<1>1. /\ Types /\ CallInv(t) /\ TurnInv(t) /\ NoteInv(i) /\ offs \in [Inst -> {0, 1}]
      /\ ins \in [Inst -> Fields] /\ ins[i] \in Fields /\ call \in [Thread -> Calls]
      /\ call[t].at # "none"
      /\ call[t].ip = i
  BY <1>i DEF IInv, SInv, Types, Revive, NoRelease, Unschedule, Extend, Reschedule, Deinit,
         Unlink, LinkAhead, LinkBack, Retire, Close, List
<1>2. UNCHANGED <<init_running, turnoff_pending, alloc_spinlock, queue, perf, event>>
  BY DEF Revive, NoRelease, Unschedule, Extend, Reschedule, Deinit, Unlink, LinkAhead,
         LinkBack, Retire, Close, List
<1>3. \A u \in Thread : u # t => call'[u] = call[u]
  BY <1>1 DEF Revive, NoRelease, Unschedule, Extend, Reschedule, Deinit, Unlink, LinkAhead,
         LinkBack, Retire, Close, List, Goes
<1>4. /\ \A j \in Inst : j # i => Same(j) /\ offs'[j] = offs[j]
      /\ ins'[i].alloc = ins[i].alloc /\ offs' \in [Inst -> {0, 1}]
      /\ NoteInv(i)' /\ TurnInv(t)'
  <2>1. CASE Revive(t)
    <3>1. /\ ins' = [ins EXCEPT ![i] = [ins[i] EXCEPT !.actflg = TRUE]] /\ UNCHANGED offs
          /\ call[t].at = "revive" /\ Goes(t, "now")
      BY <1>i, <2>1 DEF Revive
    <3>2. /\ ins'[i].actflg /\ ins'[i].finite = ins[i].finite /\ ins'[i].alloc = ins[i].alloc
          /\ \A j \in Inst : j # i => Same(j)
      BY <1>1, <3>1 DEF Fields, Same
    <3>3. ins[i].alloc
      <4>1. perf.pc = "batched" /\ perf.cur = i
        BY <1>1, <3>1 DEF CallInv
      <4>2. turnoff_pending[i] = "finalizing"
        BY <4>1, OwnerParts
      <4> QED BY <1>1, <4>2 DEF NoteInv
    <3>4. call'[t].at = "now" /\ call'[t].ip = i
      BY <1>1, <3>1, CallGoes DEF CallAt
    <3> QED BY <1>1, <1>2, <3>1, <3>2, <3>3, <3>4 DEF NoteInv, TurnInv, Unlisted
  <2>2. CASE NoRelease(t)
    <3>1. /\ ins' = [ins EXCEPT ![i] = Unreleased(ins[i])] /\ UNCHANGED offs
          /\ call[t].at = "now" /\ Goes(t, "unschedule")
      BY <1>i, <2>2 DEF NoRelease, Unreleased
    <3>2. \A j \in Inst : Same(j)
      BY <1>1, <3>1 DEF Fields, Same, Unreleased
    <3>3. call'[t].at = "unschedule" /\ call'[t].ip = i
      BY <1>1, <3>1, CallGoes DEF CallAt
    <3> QED BY <1>1, <1>2, <3>1, <3>2, <3>3 DEF NoteInv, TurnInv, Unlisted, Same
  <2>3. CASE Unschedule(t)
    <3>1. /\ UNCHANGED ins /\ call[t].at = "unschedule"
          /\ \/ Goes(t, "complete") /\ UNCHANGED offs
             \/ /\ \E at \in {"extend", "deinit"} : Goes(t, at)
                /\ offs' = IF ins[i].finite THEN Count(offs, i, -1) ELSE offs
      BY <1>i, <2>3 DEF Unschedule, OffTaken
    <3>2. CASE Goes(t, "complete") /\ UNCHANGED offs
      <4>1. call'[t].at = "complete" /\ call'[t].ip = i
        BY <1>1, <3>2, CallGoes DEF CallAt
      <4> QED BY <1>1, <1>2, <3>1, <3>2, <4>1 DEF NoteInv, TurnInv, Unlisted, Same
    <3>3. ASSUME NEW at \in {"extend", "deinit"}, Goes(t, at),
                 offs' = IF ins[i].finite THEN Count(offs, i, -1) ELSE offs
          PROVE  /\ \A j \in Inst : j # i => Same(j) /\ offs'[j] = offs[j]
                 /\ ins'[i].alloc = ins[i].alloc /\ offs' \in [Inst -> {0, 1}]
                 /\ NoteInv(i)' /\ TurnInv(t)'
      <4>1. call'[t].at = at /\ call'[t].ip = i
        BY <1>1, <3>3, CallGoes DEF CallAt
      <4>2. /\ offs' \in [Inst -> {0, 1}] /\ \A j \in Inst : j # i => offs'[j] = offs[j]
            /\ offs'[i] = 0
        <5>1. CASE ins[i].finite
          BY <1>1, <3>3, <5>1, OffCounts
        <5>2. CASE ~ins[i].finite
          <6>1. offs[i] = 0
            BY <1>1, <5>2 DEF NoteInv
          <6> QED BY <1>1, <3>3, <5>2, <6>1
        <5> QED BY <5>1, <5>2
      <4> QED BY <1>1, <1>2, <3>1, <4>1, <4>2 DEF NoteInv, TurnInv, Unlisted, Same
    <3> QED BY <3>1, <3>2, <3>3
  <2>4. CASE Extend(t)
    <3>1. /\ ins' = [ins EXCEPT ![i] = Released(ins[i])] /\ UNCHANGED offs
          /\ call[t].at = "extend" /\ Goes(t, "giveback")
      BY <1>i, <2>4 DEF Extend, Released
    <3>2. /\ ins'[i].actflg = ins[i].actflg /\ ins'[i].finite /\ ins'[i].alloc = ins[i].alloc
          /\ \A j \in Inst : j # i => Same(j)
      BY <1>1, <3>1 DEF Fields, Same, Released
    <3>3. call'[t].at = "giveback" /\ call'[t].ip = i
      BY <1>1, <3>1, CallGoes DEF CallAt
    <3> QED BY <1>1, <1>2, <3>1, <3>2, <3>3 DEF NoteInv, TurnInv, Unlisted
  <2>5. CASE Reschedule(t)
    <3>1. /\ offs' = Count(offs, i, 1) /\ UNCHANGED ins /\ call[t].at = "reschedule"
          /\ call' = [call EXCEPT ![t] = NoCall]
      BY <1>i, <2>5 DEF Reschedule
    <3>2. offs[i] = 0 /\ ins[i].actflg /\ ins[i].finite
      BY <1>1, <3>1 DEF TurnInv, Unlisted
    <3>3. offs' \in [Inst -> {0, 1}] /\ \A j \in Inst : j # i => offs'[j] = offs[j]
      BY <1>1, <3>1, <3>2, OffCounts
    <3>4. call'[t].at = "none"
      BY <1>1, <3>1, CallEnds
    <3> QED BY <1>1, <1>2, <3>1, <3>2, <3>3, <3>4 DEF NoteInv, TurnInv, Unlisted, Same
  <2>6. CASE Deinit(t) \/ Retire(t)
    <3>1. /\ \/ ins' = [ins EXCEPT ![i] = Stopped(ins[i])]
             \/ ins' = [ins EXCEPT ![i] = [ins[i] EXCEPT !.retired = rendering]]
          /\ call[t].at \in {"deinit", "retire"} /\ UNCHANGED offs
          /\ \E at \in {"unlink", "close"} : Goes(t, at)
      BY <1>i, <2>6 DEF Deinit, Retire, Stopped
    <3>2. \A j \in Inst : Same(j)
      BY <1>1, <3>1 DEF Fields, Same, Stopped
    <3>3. call'[t].at \in {"unlink", "close"} /\ call'[t].ip = i
      BY <1>1, <3>1, CallGoes DEF CallAt
    <3> QED BY <1>1, <1>2, <3>1, <3>2, <3>3 DEF NoteInv, TurnInv, Unlisted, Same
  <2>7. CASE Unlink(t) \/ LinkAhead(t) \/ LinkBack(t)
    <3>1. UNCHANGED <<ins, offs>> /\ call[t].at \in {"unlink", "ahead", "back"}
      BY <2>7 DEF Unlink, LinkAhead, LinkBack
    <3>2. call'[t].at \in {"complete", "retire", "ahead", "back"} /\ call'[t].ip = i
      <4>1. CASE LinkBack(t)
        <5>1. Goes(t, "retire")
          BY <4>1 DEF LinkBack
        <5> QED BY <1>1, <5>1, CallGoes DEF CallAt
      <4>2. ASSUME NEW at, NEW p, NEW n,
                   \/ call' = [call EXCEPT ![t].at = at, ![t].p = p]
                   \/ call' = [call EXCEPT ![t].at = at, ![t].n = n]
            PROVE  call'[t].at = at /\ call'[t].ip = i
        BY <1>1, <4>2 DEF Calls
      <4>3. CASE Unlink(t)
        BY <4>2, <4>3 DEF Unlink
      <4>4. CASE LinkAhead(t)
        BY <4>2, <4>4 DEF LinkAhead
      <4> QED BY <2>7, <4>1, <4>3, <4>4
    <3> QED BY <1>1, <1>2, <3>1, <3>2 DEF NoteInv, TurnInv, Unlisted, Same
  <2>8. CASE Close(t)
    <3>1. /\ ins' = [ins EXCEPT ![i] = Closed(ins[i])] /\ UNCHANGED offs
          /\ call[t].at = "close" /\ Goes(t, "list")
      BY <1>i, <2>8 DEF Close, Closed
    <3>2. /\ ~ins'[i].actflg /\ ins'[i].alloc = ins[i].alloc
          /\ \A j \in Inst : j # i => Same(j)
      BY <1>1, <3>1 DEF Fields, Same, Closed
    <3>3. call'[t].at = "list" /\ offs[i] = 0
      BY <1>1, <3>1, CallGoes DEF CallAt, TurnInv, Unlisted
    <3> QED BY <1>1, <1>2, <3>1, <3>2, <3>3 DEF NoteInv, TurnInv, Unlisted
  <2>9. CASE List(t)
    <3>1. UNCHANGED <<ins, offs>> /\ Goes(t, "complete")
      BY <2>9 DEF List
    <3>2. call'[t].at = "complete"
      BY <1>1, <3>1, CallGoes DEF CallAt
    <3> QED BY <1>1, <1>2, <3>1, <3>2 DEF NoteInv, TurnInv, Unlisted, Same
  <2> QED BY <2>1, <2>2, <2>3, <2>4, <2>5, <2>6, <2>7, <2>8, <2>9
<1>5. call[t].at # "claim"
  BY DEF Revive, NoRelease, Unschedule, Extend, Reschedule, Deinit, Unlink, LinkAhead,
         LinkBack, Retire, Close, List
<1> QED BY <1>1, <1>2, <1>3, <1>4, <1>5, CallListed

\* The steps of the event thread that change neither the list nor what the list
\* is made of.
EventPlain ==
    \/ SpliceStep \/ Dequeue \/ LockForNote \/ Room \/ NoMemory \/ BeginTie \/ BeginNote \/ Relock
    \/ FinishNote \/ Request \/ Publish \/ EventDone \/ EventExpireEnd
    \/ \E i \in Inst : FindTie(i) \/ DrainReader(i)
    \/ \E error \in BOOLEAN, open \in {"none", "file", "async"}, xtra \in BOOLEAN : EndPass(error, open, xtra)

\* They leave the marks alone that SInv is about.
LEMMA EventPlainSame == ASSUME IInv, SInv, EventPlain PROVE \A j \in Inst : Same(j)
<1>1. ins \in [Inst -> Fields] /\ ControlInv /\ event \in Events
  BY DEF IInv, Types
<1>2. CASE UNCHANGED ins
  BY <1>2 DEF Same
<1>3. ASSUME NEW i \in Inst, NEW b, ins' = [ins EXCEPT ![i].init_done = b] PROVE \A j \in Inst : Same(j)
  BY <1>1, <1>3 DEF Same, Fields
<1>4. ASSUME NEW i \in Inst, DrainReader(i) PROVE \A j \in Inst : Same(j)
  BY <1>1, <1>4 DEF DrainReader, Same, Fields
<1>5. ASSUME NEW error, NEW open, NEW xtra, EndPass(error, open, xtra)
      PROVE  \A j \in Inst : Same(j)
  <2> DEFINE b == ins[event.ip].xtratim \/ xtra
             c == ins[event.ip].fdchp \/ open # "none"
             a == IF open = "async" THEN "held" ELSE ins[event.ip].async
  <2>1. ins' = [ins EXCEPT ![event.ip].xtratim = b, ![event.ip].fdchp = c, ![event.ip].async = a]
    BY <1>5 DEF EndPass
  <2> HIDE DEF a, b, c
  <2> QED BY <1>1, <2>1 DEF Same, Fields
<1>6. CASE BeginTie \/ FinishNote \/ Request \/ Publish
  <2>1. event.ip \in Inst
    BY <1>1, <1>6 DEF BeginTie, FinishNote, Request, Publish, EventAt, ControlInv
  <2>2. \E b : ins' = [ins EXCEPT ![event.ip].init_done = b]
    BY <1>6 DEF BeginTie, FinishNote, Request, Publish
  <2> QED BY <1>3, <2>1, <2>2
<1> QED BY <1>2, <1>4, <1>5, <1>6
        DEF EventPlain, SpliceStep, PassBy, Place, SpliceBehind, OwnLinks, SpliceAhead, Dequeue,
            LockForNote, Room, NoMemory, BeginNote, Relock, EventDone, EventExpireEnd, FindTie

\* Where they lead.
LEMMA EventPlainGoes ==
    ASSUME IInv, SInv, EventPlain
    PROVE  /\ LockInv'
           /\ event'.pc \in Pledged =>
                 \/ event.pc \in Pledged /\ event'.ip = event.ip
                 \/ /\ event.pc = "find" /\ event'.pc = "tie" /\ event'.ip \in Inst
                    /\ ins[event'.ip].actflg /\ ~ins[event'.ip].finite
           /\ event'.pc \in {"fields", "pass", "relock", "finish", "sched"} =>
                 event.pc \in {"tie", "fields", "pass", "relock", "finish", "sched"}
           /\ event'.pc \in {"pass", "relock", "finish", "sched"} =>
                 /\ event.pc \in {"pass", "relock", "finish", "sched"}
                 /\ event'.finite = event.finite
           /\ event'.pc = "tie" => event.pc = "find"
           /\ event'.pc = "begin" => event.pc = "begin"
           /\ event'.pc = "request" => event.pc = "finish" /\ event'.ip = event.ip
<1>1. LockInv /\ event \in Events /\ queue \in Seq(Some) /\ ControlInv
  BY DEF IInv, SInv, Types
<1>2. CASE SpliceStep
  <2>1. CASE PassBy \/ Place
    <3>1. /\ event.pc = "place" /\ UNCHANGED <<alloc_spinlock, queue, call, perf>>
          /\ event'.pc \in {"place", "own", "behind"} /\ event'.ip = event.ip
      BY <1>1, <2>1 DEF PassBy, Place, EventAt, Events
    <3> QED BY <1>1, <3>1 DEF LockInv, EventHolds, Pledged
  <2>2. CASE SpliceBehind \/ OwnLinks \/ SpliceAhead
    <3>1. /\ event.pc \in {"behind", "own", "ahead"} /\ UNCHANGED <<alloc_spinlock, queue, call, perf>>
          /\ event'.pc \in {"own", "ahead", "activate"} /\ event'.ip = event.ip
      BY <1>1, <2>2 DEF SpliceBehind, OwnLinks, SpliceAhead, EventAt, EventGoes, Events
    <3> QED BY <1>1, <3>1 DEF LockInv, EventHolds, Pledged
  <2> QED BY <1>2, <2>1, <2>2 DEF SpliceStep
<1>3. CASE Dequeue
  <2>1. /\ event.pc = "idle" /\ UNCHANGED <<alloc_spinlock, call, perf>>
        /\ call["event"].at = "none" /\ queue # <<>> /\ queue' = Tail(queue)
    BY <1>3 DEF Dequeue, EventAt, CallFree
  <2>2. Head(queue) = Nobody /\ \A k \in 1..Len(queue') : queue'[k] = Nobody
    BY <1>1, <2>1 DEF LockInv
  <2>3. event'.pc = "lock"
    BY <1>1, <1>3, <2>2 DEF Dequeue, Events
  <2> QED BY <1>1, <2>1, <2>2, <2>3 DEF LockInv, EventHolds, Pledged
<1>4. CASE LockForNote \/ Relock
  <2>1. /\ event.pc \in {"lock", "relock"} /\ UNCHANGED <<queue, call, perf>>
        /\ call["event"].at = "none" /\ alloc_spinlock = "free" /\ alloc_spinlock' = "event"
        /\ event'.ip = event.ip /\ event'.finite = event.finite
        /\ \/ event.pc = "lock" /\ event'.pc = "find"
           \/ event.pc = "relock" /\ event'.pc = "finish"
    BY <1>1, <1>4 DEF LockForNote, Relock, EventAt, EventGoes, EventLock, CallFree, Events, LockInv, EventHolds
  <2> QED BY <1>1, <2>1 DEF LockInv, EventHolds, PerfHolds, Pledged, Thread
<1>5. CASE Room \/ NoMemory \/ Publish \/ EventExpireEnd \/ Request
  <2>1. /\ event.pc \in EventHolds /\ UNCHANGED <<alloc_spinlock, queue, call, perf>>
        /\ call["event"].at = "none" /\ event'.pc \in {"find", "done", "publish"}
    BY <1>1, <1>5 DEF Room, NoMemory, Publish, EventExpireEnd, Request, EventAt, EventGoes, CallFree,
                      Events, EventHolds
  <2> QED BY <1>1, <2>1 DEF LockInv, EventHolds, Pledged
<1>6. CASE BeginTie \/ BeginNote
  <2>1. /\ event.pc \in {"tie", "begin"} /\ UNCHANGED <<alloc_spinlock, queue, call, perf>>
        /\ call["event"].at = "none" /\ event'.ip = event.ip
        /\ \/ event'.pc \in {"place", "done"}
           \/ event.pc = "tie" /\ event'.pc = "fields"
    BY <1>1, <1>6 DEF BeginTie, BeginNote, EventAt, EventGoes, CallFree, Events
  <2> QED BY <1>1, <2>1 DEF LockInv, EventHolds, Pledged
<1>7. CASE FinishNote
  <2>1. /\ event.pc = "finish" /\ UNCHANGED <<alloc_spinlock, queue, call, perf>>
        /\ call["event"].at = "none" /\ event'.ip = event.ip /\ event'.finite = event.finite
        /\ event'.pc \in {"done", "request", "sched"}
    BY <1>1, <1>7 DEF FinishNote, EventAt, CallFree, Events
  <2> QED BY <1>1, <2>1 DEF LockInv, EventHolds, Pledged
<1>8. CASE EventDone
  <2>1. /\ event.pc = "done" /\ UNCHANGED <<queue, call, perf>> /\ alloc_spinlock' = "free"
        /\ call["event"].at = "none" /\ event'.pc = "idle"
    BY <1>1, <1>8 DEF EventDone, EventAt, CallFree, Events
  <2>2. alloc_spinlock = "event" /\ call["perf"].at = "none" /\ perf.pc \notin PerfHolds
    BY <1>1, <2>1 DEF LockInv, EventHolds, Thread
  <2> QED BY <1>1, <2>1, <2>2 DEF LockInv, EventHolds, Pledged, Thread
<1>9. ASSUME NEW i \in Inst, FindTie(i) \/ DrainReader(i)
      PROVE  /\ UNCHANGED <<alloc_spinlock, queue, call, perf>>
             /\ call["event"].at = "none"
             /\ \/ /\ event.pc = "find" /\ event'.pc = "tie" /\ event'.ip = i
                   /\ ins[i].actflg /\ ~ins[i].finite
                \/ UNCHANGED event /\ event.pc = "idle"
  BY <1>1, <1>9 DEF FindTie, DrainReader, EventAt, CallFree, Events
<1>10. CASE \E i \in Inst : FindTie(i) \/ DrainReader(i)
  BY <1>1, <1>9, <1>10 DEF LockInv, EventHolds, Pledged
<1>11. ASSUME NEW error, NEW open, NEW xtra, EndPass(error, open, xtra)
       PROVE  /\ UNCHANGED <<alloc_spinlock, queue, call, perf>>
              /\ call["event"].at = "none"
              /\ event.pc = "pass" /\ event'.pc = "relock"
              /\ event'.ip = event.ip /\ event'.finite = event.finite
  BY <1>1, <1>11 DEF EndPass, EventAt, CallFree, Events, LockInv, EventHolds
<1>12. CASE \E error \in BOOLEAN, open \in {"none", "file", "async"}, xtra \in BOOLEAN : EndPass(error, open, xtra)
  BY <1>1, <1>11, <1>12 DEF LockInv, EventHolds, Pledged
<1> QED BY <1>2, <1>3, <1>4, <1>5, <1>6, <1>7, <1>8, <1>10, <1>12 DEF EventPlain

\* They keep the invariant.
LEMMA EventPlainStep == ASSUME IInv, SInv, EventPlain PROVE SInv'
<1>1. /\ LockInv /\ PledgeInv /\ ControlInv /\ ins \in [Inst -> Fields]
      /\ init_running \in [Inst -> Nat]
      /\ turnoff_pending \in [Inst -> {"none", "requested", "finalizing"}]
  BY DEF IInv, SInv, Types
<1>2. UNCHANGED <<offs, call>>
  BY DEF EventPlain, SpliceStep, PassBy, Place, SpliceBehind, OwnLinks, SpliceAhead, Dequeue,
         LockForNote, Room, NoMemory, BeginTie, BeginNote, Relock, FinishNote, Request, Publish,
         EventDone, EventExpireEnd, FindTie, DrainReader, EndPass
<1>3. \A j \in Inst : Same(j)
  BY EventPlainSame
<1>4. \A t \in Thread : event.pc \in EventHolds /\ call[t].at # "none" =>
                            event.pc \in {"room", "expiring"}
  BY <1>1 DEF LockInv, Thread
<1>5. PledgeInv'
  <2>1. event'.pc \in Pledged => event'.ip \in Inst /\ offs[event'.ip] = 0
    <3>1. CASE event.pc \in Pledged /\ event'.ip = event.ip
      BY <1>1, <3>1 DEF PledgeInv, ControlInv, Pledged
    <3>2. ASSUME event'.ip \in Inst, ~ins[event'.ip].finite PROVE offs[event'.ip] = 0
      BY <3>2 DEF SInv, NoteInv
    <3> QED BY <3>1, <3>2, EventPlainGoes
  <2>2. event'.pc \in {"tie", "fields", "pass", "relock", "finish", "sched"} =>
            ins[event'.ip].actflg
    BY <1>1, EventPlainGoes DEF PledgeInv, Pledged
  <2>3. event'.pc \in {"pass", "relock", "finish", "sched"} /\ event'.finite =>
            ins[event'.ip].finite
    BY <1>1, EventPlainGoes DEF PledgeInv, Pledged
  <2>4. event'.pc \in {"begin", "request"} => event'.ip \in Inst /\ ins[event'.ip].alloc
    <3>1. ASSUME event'.pc = "begin" PROVE event'.ip \in Inst /\ ins[event'.ip].alloc
      BY <1>1, <3>1, EventPlainGoes DEF PledgeInv, Pledged, ControlInv
    <3>2. ASSUME event'.pc = "request" PROVE event'.ip \in Inst /\ ins[event'.ip].alloc
      <4>1. event.pc = "finish" /\ event'.ip = event.ip /\ event.ip \in Inst
        BY <1>1, <3>2, EventPlainGoes DEF ControlInv
      <4>2. init_running[event.ip] > 0
        BY <4>1, OwnedIsIdle DEF Passing
      <4> QED BY <4>1, <4>2 DEF SInv, NoteInv
    <3> QED BY <3>1, <3>2
  <2> QED BY <1>2, <1>3, <2>1, <2>2, <2>3, <2>4 DEF PledgeInv, Same, Pledged
<1>6. \A j \in Inst : ~ins[j].alloc => init_running'[j] = 0 /\ turnoff_pending'[j] = "none"
  <2> SUFFICES ASSUME NEW j \in Inst, ~ins[j].alloc
               PROVE  init_running'[j] = init_running[j] /\ turnoff_pending'[j] = turnoff_pending[j]
    BY DEF SInv, NoteInv
  <2>1. CASE BeginTie \/ BeginNote \/ Request \/ FinishNote
    <3>1. event.ip \in Inst /\ event.pc \in {"tie", "begin", "request", "finish"}
      BY <1>1, <2>1 DEF BeginTie, BeginNote, Request, FinishNote, EventAt, ControlInv
    <3>2. ins[event.ip].alloc
      <4>1. CASE event.pc = "finish"
        <5>1. init_running[event.ip] > 0
          BY <3>1, <4>1, OwnedIsIdle DEF Passing
        <5> QED BY <3>1, <5>1 DEF SInv, NoteInv
      <4>2. CASE event.pc # "finish"
        BY <1>1, <3>1, <4>2 DEF PledgeInv, SInv, NoteInv
      <4> QED BY <4>1, <4>2
    <3> QED BY <1>1, <2>1, <3>1, <3>2
            DEF BeginTie, BeginNote, Request, FinishNote, RequestTurnoff, InitFinish
  <2>2. CASE UNCHANGED <<init_running, turnoff_pending>>
    BY <2>2
  <2> QED BY <2>1, <2>2
          DEF EventPlain, SpliceStep, PassBy, Place, SpliceBehind, OwnLinks, SpliceAhead, Dequeue,
              LockForNote, Room, NoMemory, Relock, Publish, EventDone, EventExpireEnd,
              FindTie, DrainReader, EndPass
<1>7. ASSUME NEW t \in Thread, call[t].at = "reschedule", event'.pc \in Pledged,
             event'.ip = call[t].ip
      PROVE  FALSE
  <2>1. CASE event.pc \in Pledged /\ event'.ip = event.ip
    BY <1>7, <2>1 DEF SInv, TurnInv
  <2>2. CASE event.pc = "find"
    BY <1>4, <1>7, <2>2 DEF EventHolds
  <2> QED BY <1>7, <2>1, <2>2, EventPlainGoes
<1> QED BY <1>2, <1>3, <1>5, <1>6, <1>7, EventPlainGoes, StaysListed

\* A note is taken, gets its fields, and is scheduled: under the lock, beside no
\* turnoff.
LEMMA NoteListed ==
    ASSUME IInv, SInv,
           \/ \E i \in Inst : TakeNote(i)
           \/ \E finite \in BOOLEAN : SetFields(finite)
           \/ \E late \in BOOLEAN : Schedule(late)
    PROVE  SInv'
<1>1. /\ Types /\ LockInv /\ PledgeInv /\ ControlInv /\ event \in Events /\ ins \in [Inst -> Fields]
      /\ offs \in [Inst -> {0, 1}]
      /\ UNCHANGED <<init_running, turnoff_pending, queue, call, perf>>
  BY DEF IInv, SInv, Types, TakeNote, SetFields, Schedule
<1>2. event.pc \in EventHolds /\ alloc_spinlock = "event" /\ \A t \in Thread : call[t].at = "none"
  <2>1. event.pc \in EventHolds /\ call["event"].at = "none"
    BY DEF TakeNote, SetFields, Schedule, EventAt, CallFree, EventHolds
  <2> QED BY <1>1, <2>1 DEF LockInv, Thread
<1>3. ASSUME NEW t \in Thread PROVE TurnInv(t)'
  BY <1>1, <1>2 DEF TurnInv, Unlisted
<1>4. ASSUME NEW i \in Inst, TakeNote(i) PROVE SInv'
  <2>1. /\ event.pc = "find" /\ Takes(i) /\ UNCHANGED <<offs, alloc_spinlock>>
        /\ event' = [event EXCEPT !.pc = "begin", !.ip = i]
    BY <1>4 DEF TakeNote, EventAt
  <2>2. event'.pc = "begin" /\ event'.ip = i
    BY <1>1, <2>1 DEF Events
  <2>3. /\ ~ins[i].alloc => ins'[i] = Blank
        /\ ins[i].alloc => ins'[i] = [ins[i] EXCEPT !.init_done = FALSE, !.fdchp = FALSE]
        /\ \A j \in Inst : j # i => ins'[j] = ins[j]
    BY <1>1, <1>4 DEF TakeNote
  <2>4. offs[i] = 0
    <3>1. ~ins[i].actflg
      BY <2>1 DEF Takes, Reclaimable, SInv, NoteInv
    <3> QED BY <1>1, <3>1 DEF SInv, NoteInv
  <2>5. ins'[i].alloc
    <3>1. CASE ins[i].alloc
      BY <1>1, <2>3, <3>1 DEF Fields
    <3>2. CASE ~ins[i].alloc
      BY <2>3, <3>2 DEF Blank
    <3> QED BY <3>1, <3>2
  <2>6. LockInv'
    BY <1>1, <1>2, <2>1, <2>2 DEF LockInv, EventHolds
  <2>7. PledgeInv'
    BY <2>1, <2>2, <2>4, <2>5 DEF PledgeInv
  <2>8. ASSUME NEW j \in Inst PROVE NoteInv(j)'
    BY <1>1, <2>1, <2>3, <2>4, <2>5 DEF SInv, NoteInv
  <2> QED BY <1>1, <1>3, <2>1, <2>6, <2>7, <2>8 DEF SInv
<1>5. ASSUME NEW finite \in BOOLEAN, SetFields(finite) PROVE SInv'
  <2>i. PICK i \in Inst : event.ip = i
    BY <1>1, <1>5 DEF SetFields, EventAt, ControlInv
  <2>1. /\ event.pc \in {"activate", "fields"} /\ UNCHANGED offs /\ alloc_spinlock' = "free"
        /\ event' = [event EXCEPT !.pc = "pass", !.finite = finite]
    BY <1>5 DEF SetFields, EventAt
  <2>2. event'.pc = "pass" /\ event'.ip = i /\ event'.finite = finite
    BY <1>1, <2>i, <2>1 DEF Events
  <2>3. /\ ins'[i].actflg = (ins[i].actflg \/ event.pc = "activate")
        /\ ins'[i].finite = finite /\ ins'[i].alloc = ins[i].alloc
        /\ \A j \in Inst : j # i => ins'[j] = ins[j]
    <3> DEFINE b == ins[i].actflg \/ event.pc = "activate"
    <3>1. ins' = [ins EXCEPT ![i].actflg = b, ![i].xtratim = FALSE, ![i].relesing = FALSE,
                             ![i].finite = finite]
      BY <1>5, <2>i DEF SetFields
    <3> HIDE DEF b
    <3>2. /\ ins'[i].actflg = b /\ ins'[i].finite = finite /\ ins'[i].alloc = ins[i].alloc
          /\ \A j \in Inst : j # i => ins'[j] = ins[j]
      BY <1>1, <3>1 DEF Fields
    <3> QED BY <3>2 DEF b
  <2>4. offs[i] = 0 /\ (event.pc = "fields" => ins[i].actflg) /\ ins[i].alloc
    <3>1. init_running[i] > 0
      BY <2>i, <2>1, OwnedIsIdle DEF Passing
    <3> QED BY <1>1, <2>i, <2>1, <3>1 DEF PledgeInv, Pledged, SInv, NoteInv
  <2>5. LockInv'
    <3>1. perf.pc \notin PerfHolds
      BY <1>1, <1>2 DEF LockInv
    <3> QED BY <1>1, <1>2, <2>1, <2>2, <3>1 DEF LockInv, EventHolds, Thread
  <2>6. PledgeInv'
    BY <2>1, <2>2, <2>3, <2>4 DEF PledgeInv
  <2>7. ASSUME NEW j \in Inst PROVE NoteInv(j)'
    <3>1. CASE j = i
      <4>1. offs'[i] = 0 /\ ins'[i].alloc
        BY <2>1, <2>3, <2>4
      <4> QED BY <3>1, <4>1 DEF NoteInv
    <3>2. CASE j # i
      BY <1>1, <2>1, <2>3, <3>2 DEF SInv, NoteInv
    <3> QED BY <3>1, <3>2
  <2> QED BY <1>1, <1>3, <2>1, <2>5, <2>6, <2>7 DEF SInv
<1>6. ASSUME NEW late \in BOOLEAN, Schedule(late) PROVE SInv'
  <2>i. PICK i \in Inst : event.ip = i
    BY <1>1, <1>6 DEF Schedule, EventAt, ControlInv
  <2>1. /\ event.pc = "sched" /\ UNCHANGED alloc_spinlock
        /\ \/ /\ event.finite /\ offs' = Count(offs, i, 1) /\ UNCHANGED ins
           \/ /\ ~event.finite /\ ins' = [ins EXCEPT ![i].finite = FALSE] /\ UNCHANGED offs
        /\ event'.pc \in {"expiring", "publish"}
    BY <1>1, <1>6, <2>i DEF Schedule, EventAt, EventGoes, Events
  <2>2. offs[i] = 0 /\ ins[i].actflg /\ (event.finite => ins[i].finite)
    BY <1>1, <2>i, <2>1 DEF PledgeInv, Pledged
  <2>3. LockInv'
    BY <1>1, <1>2, <2>1 DEF LockInv, EventHolds
  <2>4. PledgeInv'
    BY <2>1 DEF PledgeInv, Pledged
  <2>5. offs' \in [Inst -> {0, 1}] /\ \A j \in Inst : j # i => offs'[j] = offs[j]
    BY <1>1, <2>1, <2>2, OffCounts
  <2>6. ASSUME NEW j \in Inst PROVE NoteInv(j)'
    <3>1. /\ ins'[j].actflg = ins[j].actflg /\ ins'[j].alloc = ins[j].alloc
          /\ ins'[j].finite = ins[j].finite \/ (j = i /\ ~event.finite)
      BY <1>1, <2>1 DEF Fields
    <3>2. CASE j # i
      BY <1>1, <2>5, <3>1, <3>2 DEF SInv, NoteInv
    <3>3. CASE j = i
      BY <1>1, <2>1, <2>2, <3>1, <3>3 DEF SInv, NoteInv
    <3> QED BY <3>2, <3>3
  <2> QED BY <1>3, <2>3, <2>4, <2>5, <2>6 DEF SInv
<1> QED BY <1>4, <1>5, <1>6

\* The invariant of the list.
LEMMA NextSInv == ASSUME IInv, SInv, Serial, [Next]_vars PROVE SInv'
<1>1. LockInv /\ "perf" \in Thread /\ "event" \in Thread /\ "reinit" \notin Uses
  BY DEF SInv, Thread, Serial
<1>2. CASE PerfStep
  <2>1. CASE CallStep("perf")
    BY <1>1, <2>1, WordsListed, TurnListed DEF CallStep
  <2>2. CASE PerfPlain
    BY <2>2, PerfPlainStep
  <2>3. CASE EndSection
    BY <2>3, EndSectionStep
  <2>4. ASSUME NEW i \in Inst, NEW how \in {"release", "now"},
               \/ HandoffTurnoff(i) \/ ExpireDue(i) \/ NoteOff(i)
               \/ SectionTurnoff(i) \/ OpTurnoff(i, how)
        PROVE  SInv'
    BY <2>4, HandoffListed, RequestListed
  <2>5. ~ReinitStep /\ ~OpReinit
    BY <1>1 DEF LockInv, PerfHolds, ReinitStep, KeepFlags, BeginReinit, ClearDone, ClearActive,
                PostReinit, UndoReinit, RestoreDone, RestoreActive, ReinitError, OpReinit
  <2> QED BY <1>2, <2>1, <2>2, <2>3, <2>4, <2>5 DEF PerfStep, PerfPlain
<1>3. CASE EventStep
  <2>1. CASE CallStep("event")
    BY <1>1, <2>1, WordsListed, TurnListed DEF CallStep
  <2>2. CASE EventPlain
    BY <2>2, EventPlainStep
  <2>3. CASE \/ \E i \in Inst : TakeNote(i)
             \/ \E finite \in BOOLEAN : SetFields(finite)
             \/ \E late \in BOOLEAN : Schedule(late)
    BY <2>3, NoteListed
  <2>4. ASSUME NEW i \in Inst, NEW how \in {"release", "now"},
               MakeRoom(i) \/ InitTurnoff(i, how) \/ EventExpire(i)
        PROVE  SInv'
    BY <2>4, RequestListed
  <2>5. ~(FinishReinit \/ Reactivate \/ Ready)
    BY <1>1 DEF LockInv, EventHolds, FinishReinit, Reactivate, Ready, EventAt
  <2> QED BY <1>3, <2>1, <2>2, <2>3, <2>4, <2>5 DEF EventStep, EventPlain
<1>4. CASE UNCHANGED vars
  <2>1. LockInv' /\ PledgeInv' /\ offs' \in [Inst -> {0, 1}]
    BY <1>4 DEF vars, SInv, LockInv, PledgeInv
  <2>2. ASSUME NEW i \in Inst PROVE NoteInv(i)'
    BY <1>4 DEF vars, SInv, NoteInv
  <2>3. ASSUME NEW t \in Thread PROVE TurnInv(t)'
    BY <1>4 DEF vars, SInv, TurnInv
  <2> QED BY <2>1, <2>2, <2>3 DEF SInv
<1> QED BY <1>2, <1>3, <1>4 DEF Next

\* It holds at first.
LEMMA InitSInv == ASSUME Init PROVE SInv
<1>1. offs \in [Inst -> {0, 1}] /\ PledgeInv
  BY DEF Init, PledgeInv, Pledged
<1>2. \A t \in Thread : call[t].at = "none"
  BY DEF Init, NoCall
<1>3. \A t \in Thread : TurnInv(t)
  BY <1>2 DEF TurnInv, Unlisted
<1>4. LockInv
  <2>1. queue = <<>> /\ perf.pc = "pending" /\ event.pc = "idle"
    BY DEF Init
  <2> QED BY <1>2, <2>1 DEF LockInv, PerfHolds, EventHolds, Thread
<1>5. ASSUME NEW i \in Inst PROVE NoteInv(i)
  <2>1. ~ins[i].actflg /\ offs[i] = 0 /\ init_running[i] = 0 /\ turnoff_pending[i] = "none"
    BY DEF Init, Blank
  <2> QED BY <2>1 DEF NoteInv
<1> QED BY <1>1, <1>3, <1>4, <1>5 DEF SInv

\* For any number of instances and any queue, when the orchestra and the host use
\* neither reinit nor turnoffs that never look at alloc_spinlock (Serial): no
\* note is twice on the off-time list (insert.c, sched_off_time, time_expire,
\* xturnoff_internal, set_xtratim), although its release stage takes it off and
\* puts it back, and the hand-off may turn it off late.
THEOREM ListedOnce == Serial /\ Spec => []OffOnce
<1>1. Init => SInv
  BY InitSInv
<1>2. Serial /\ IInv /\ SInv /\ [Next]_vars => SInv'
  BY NextSInv
<1>3. SInv => OffOnce
  BY DEF SInv, OffOnce
<1>4. Serial => Serial'
  BY DEF Serial
<1> QED BY <1>1, <1>2, <1>3, <1>4, Invariance, PTL DEF Spec

-----------------------------------------------------------------------------
(* The files of a note.                                                    *)

Closing(i) == \E t \in Thread : call[t].at = "close" /\ call[t].ip = i

\* An active note is in the chain until the turnoff that has unlinked it marks it
\* inactive; an inactive one has files only for a reader; what is handed over is
\* active.
FileInv(i) ==
    /\ ins[i].actflg => InChain(i) \/ Closing(i)
    /\ ins[i].fdchp /\ ~ins[i].actflg => ins[i].async # "none"
    /\ handoff[i] > 0 \/ perf.batch[i] > 0 => ins[i].actflg

FInv ==
    /\ \A i \in Inst : FileInv(i)
    /\ call["perf"].at = "revive" => ins[call["perf"].ip].actflg
    /\ event.pc \in {"ahead", "activate"} => InChain(event.ip)
    /\ event.pc = "request" => ins[event.ip].actflg

\* What FInv says of an instance does not change, or is said no more.
Kept(j) ==
    /\ ins'[j].actflg <=> ins[j].actflg
    /\ ins'[j].fdchp => ins[j].fdchp
    /\ ins[j].async # "none" => ins'[j].async # "none"
    /\ InChain(j) => InChain(j)'
    /\ handoff'[j] > 0 \/ perf'.batch[j] > 0 => handoff[j] > 0 \/ perf.batch[j] > 0

LEMMA KeptFiles ==
    ASSUME FInv, NEW j \in Inst, Kept(j), Closing(j) => Closing(j)'
    PROVE  FileInv(j)'
  BY DEF FInv, FileInv, Kept

\* Stores that keep it.
LEMMA KeptStores ==
    ASSUME ins \in [Inst -> Fields], NEW i,
           \/ UNCHANGED ins
           \/ \E b : ins' = [ins EXCEPT ![i].init_done = b]
           \/ \E b : ins' = [ins EXCEPT ![i].finite = b]
           \/ \E b : ins' = [ins EXCEPT ![i].retired = b]
           \/ ins' = [ins EXCEPT ![i].relesing = TRUE, ![i].finite = TRUE]
           \/ ins' = [ins EXCEPT ![i].xtratim = FALSE, ![i].relesing = FALSE]
           \/ ins' = [ins EXCEPT ![i].async = IF @ = "held" THEN "stopped" ELSE @]
           \/ ins' = [j \in Inst |-> [ins[j] EXCEPT !.retired = FALSE]]
    PROVE  \A j \in Inst : /\ ins'[j].actflg = ins[j].actflg /\ ins'[j].fdchp = ins[j].fdchp
                           /\ ins[j].async # "none" => ins'[j].async # "none"
<1>1. CASE ins' = [ins EXCEPT ![i].async = IF @ = "held" THEN "stopped" ELSE @]
  BY <1>1 DEF Fields
<1>2. CASE ins' = [j \in Inst |-> [ins[j] EXCEPT !.retired = FALSE]]
  BY <1>2 DEF Fields
<1>3. CASE \/ \E b : ins' = [ins EXCEPT ![i].init_done = b]
           \/ \E b : ins' = [ins EXCEPT ![i].finite = b]
           \/ \E b : ins' = [ins EXCEPT ![i].retired = b]
  BY <1>3 DEF Fields
<1>4. CASE \/ ins' = [ins EXCEPT ![i].relesing = TRUE, ![i].finite = TRUE]
           \/ ins' = [ins EXCEPT ![i].xtratim = FALSE, ![i].relesing = FALSE]
  BY <1>4 DEF Fields
<1> QED BY <1>1, <1>2, <1>3, <1>4

\* The performance thread outside its turnoffs.
LEMMA PerfPlainFiles == ASSUME IInv, SInv, FInv, PerfPlain PROVE FInv'
<1>1. /\ ins \in [Inst -> Fields] /\ perf \in Perfs /\ handoff \in [Inst -> Nat]
  BY DEF IInv, Types
<1>2. UNCHANGED <<link, call, event>>
  BY DEF PerfPlain, SkipHandoff, HandoffEnd, TryExpire, ExpireEnd, TakeEvents, EndEvents,
         BeginSection, EndTurnoffs, BeginRender, Visit, OpsEnd, NextInstance, EndRender,
         TakeHandoff, HandoffDone, PostNote
<1>3. \A j \in Inst : /\ ins'[j].actflg = ins[j].actflg /\ ins'[j].fdchp = ins[j].fdchp
                      /\ ins[j].async # "none" => ins'[j].async # "none"
  <2>1. UNCHANGED ins \/ ins' = [j \in Inst |-> [ins[j] EXCEPT !.retired = FALSE]]
    BY DEF PerfPlain, SkipHandoff, HandoffEnd, TryExpire, ExpireEnd, TakeEvents, EndEvents,
         BeginSection, EndTurnoffs, BeginRender, Visit, OpsEnd, NextInstance, EndRender,
         TakeHandoff, HandoffDone, PostNote
  <2> QED BY <1>1, <2>1, KeptStores
<1>4. ASSUME NEW j \in Inst
      PROVE  handoff'[j] > 0 \/ perf'.batch[j] > 0 => handoff[j] > 0 \/ perf.batch[j] > 0
  <2>1. CASE TakeHandoff
    BY <1>1, <2>1 DEF TakeHandoff, Perfs
  <2>2. CASE ~TakeHandoff
    <3>1. UNCHANGED handoff /\ perf'.batch = perf.batch
      BY <1>1, <2>2
         DEF PerfPlain, SkipHandoff, HandoffEnd, TryExpire, ExpireEnd, TakeEvents, EndEvents,
             BeginSection, EndTurnoffs, BeginRender, Visit, OpsEnd, NextInstance, EndRender,
             HandoffDone, PostNote, Perfs
    <3> QED BY <3>1
  <2> QED BY <2>1, <2>2
<1>5. ASSUME NEW j \in Inst PROVE FileInv(j)'
  BY <1>2, <1>3, <1>4, KeptFiles DEF Kept, Closing, InChain
<1>6. call["perf"].at = "revive" => call["perf"].ip \in Inst
  BY DEF IInv, CallInv, Thread
<1>7. event.pc = "request" => event.ip \in Inst
  BY DEF IInv, ControlInv
<1> QED BY <1>2, <1>3, <1>5, <1>6, <1>7 DEF FInv, InChain

\* A section end.
LEMMA EndSectionFiles == ASSUME IInv, SInv, FInv, EndSection PROVE FInv'
<1>1. ins \in [Inst -> Fields] /\ perf \in Perfs /\ CallInv("perf") /\ ControlInv
  BY DEF IInv, Types, Thread
<1>2. UNCHANGED <<handoff, link, call, event>> /\ perf'.batch = perf.batch
  BY <1>1 DEF EndSection, Perfs
<1>3. ASSUME NEW j \in Inst
      PROVE  ins'[j] = ins[j] \/ (~ins[j].actflg /\ ~ins'[j].actflg /\ ~ins'[j].fdchp)
  <2>1. CASE UNCHANGED ins
    BY <2>1
  <2>2. CASE ~UNCHANGED ins
    <3>1. ins' = [i \in Inst |-> IF ins[i].alloc /\ Reclaimable(i)
                                 THEN [Blank EXCEPT !.alloc = FALSE] ELSE ins[i]]
      BY <2>2 DEF EndSection, FreeInactive
    <3>2. CASE ins[j].alloc /\ Reclaimable(j)
      <4>1. ins'[j] = [Blank EXCEPT !.alloc = FALSE]
        BY <3>1, <3>2
      <4> QED BY <3>2, <4>1 DEF Reclaimable, Blank
    <3>3. CASE ~(ins[j].alloc /\ Reclaimable(j))
      BY <3>1, <3>3
    <3> QED BY <3>2, <3>3
  <2> QED BY <2>1, <2>2
<1>4. ASSUME NEW j \in Inst PROVE FileInv(j)'
  BY <1>2, <1>3 DEF FInv, FileInv, InChain, Closing
<1> QED BY <1>1, <1>2, <1>3, <1>4 DEF FInv, InChain, CallInv, ControlInv

\* The requests: a turnoff begins, and the marks are left alone.
LEMMA RequestFiles ==
    ASSUME IInv, SInv, FInv, Serial, NEW i \in Inst, NEW how \in {"release", "now"},
           \/ NoteOff(i) \/ SectionTurnoff(i) \/ OpTurnoff(i, how) \/ ExpireDue(i)
           \/ MakeRoom(i) \/ InitTurnoff(i, how) \/ EventExpire(i) \/ HandoffTurnoff(i)
    PROVE  FInv'
<1>1. /\ Types /\ ins \in [Inst -> Fields] /\ perf \in Perfs /\ event \in Events
      /\ perf.batch \in [Inst -> Nat] /\ ControlInv
      /\ "perf" \in Thread /\ "event" \in Thread /\ "turnoff" \notin Uses
  BY DEF IInv, Types, Perfs, Thread, Serial
<1>2. ~OpTurnoff(i, how) /\ ~InitTurnoff(i, how)
  BY <1>1 DEF OpTurnoff, InitTurnoff
<1>3. UNCHANGED <<handoff, link>> /\ (UNCHANGED event \/ event'.pc = "room")
  BY <1>1, <1>2 DEF NoteOff, SectionTurnoff, ExpireDue, MakeRoom, EventExpire, HandoffTurnoff, Expire,
                    EventGoes, Events
<1>4. \A j \in Inst : /\ ins'[j].actflg = ins[j].actflg /\ ins'[j].fdchp = ins[j].fdchp
                      /\ ins[j].async # "none" => ins'[j].async # "none"
  <2>1. UNCHANGED ins \/ ins' = [ins EXCEPT ![i].relesing = TRUE, ![i].finite = TRUE]
    BY <1>2 DEF NoteOff, SectionTurnoff, ExpireDue, MakeRoom, EventExpire, HandoffTurnoff, Expire
  <2> QED BY <1>1, <2>1, KeptStores
<1>5. \A j \in Inst : perf'.batch[j] > 0 => perf.batch[j] > 0
  <2>1. CASE HandoffTurnoff(i)
    <3> DEFINE b == Count(perf.batch, i, -1)
    <3>1. \A j \in Inst : b[j] > 0 => perf.batch[j] > 0
      <4>1. perf.batch[i] <= 1 /\ perf.batch[i] > 0
        <5>1. perf.batch[i] > 0 /\ Owners(i) \in Nat /\ Owners(i) <= 1 /\ handoff[i] \in Nat
              /\ handoff[i] + perf.batch[i] <= Owners(i) /\ perf.batch[i] \in Nat
          BY <2>1, OwnerParts DEF HandoffTurnoff
        <5> QED BY <5>1
      <4> QED BY <1>1, <4>1, Counts
    <3>2. perf' = [perf EXCEPT !.pc = "batched", !.cur = i, !.batch = b]
      BY <2>1 DEF HandoffTurnoff
    <3> HIDE DEF b
    <3>3. perf'.batch = b
      BY <1>1, <3>2 DEF Perfs
    <3> QED BY <3>1, <3>3
  <2>2. CASE ~HandoffTurnoff(i)
    BY <1>2, <2>2 DEF NoteOff, SectionTurnoff, ExpireDue, MakeRoom, EventExpire, Expire
  <2> QED BY <2>1, <2>2
<1>6. \E t \in Thread :
          /\ call[t].at = "none" /\ \A u \in Thread : u # t => call'[u] = call[u]
          /\ \/ call'[t] = call[t]
             \/ call'[t].at = "claim"
             \/ call'[t].at = "revive" /\ call'[t].ip = i /\ HandoffTurnoff(i)
  <2>1. ASSUME NEW t \in Thread, NEW h \in {"release", "now", "deact"}, TurnOff(t, i, h)
        PROVE  /\ \A u \in Thread : u # t => call'[u] = call[u]
               /\ call'[t] = call[t] \/ call'[t].at = "claim"
    BY <1>1, <2>1, TurnOffCall
  <2>2. CASE NoteOff(i) \/ SectionTurnoff(i) \/ ExpireDue(i)
    BY <1>1, <2>1, <2>2 DEF NoteOff, SectionTurnoff, ExpireDue, Expire, CallFree
  <2>3. CASE MakeRoom(i) \/ EventExpire(i)
    BY <1>1, <2>1, <2>3 DEF MakeRoom, EventExpire, Expire, EventAt, CallFree
  <2>4. CASE HandoffTurnoff(i)
    <3>1. call["perf"].at = "none"
      BY <1>1, <2>4 DEF HandoffTurnoff, ControlInv, Clear
    <3> DEFINE c == [NoCall EXCEPT !.at = "revive", !.ip = i, !.how = "forced"]
    <3>2. call' = call \/ call' = [call EXCEPT !["perf"] = c]
      BY <2>4 DEF HandoffTurnoff, TurnOff
    <3>3. c.at = "revive" /\ c.ip = i
      BY DEF NoCall
    <3>4. call \in [Thread -> Calls]
      BY <1>1 DEF Types
    <3> HIDE DEF c
    <3> QED BY <1>1, <2>4, <3>1, <3>2, <3>3, <3>4
  <2> QED BY <1>2, <2>2, <2>3, <2>4
<1>7. ASSUME NEW j \in Inst PROVE FileInv(j)'
  <2>1. Closing(j) => Closing(j)'
    BY <1>6 DEF Closing
  <2> QED BY <1>3, <1>4, <1>5, <2>1, KeptFiles DEF Kept, InChain
<1>8. call'["perf"].at = "revive" => ins'[call'["perf"].ip].actflg
  <2>1. HandoffTurnoff(i) => ins[i].actflg
    BY DEF HandoffTurnoff, FInv, FileInv
  <2>2. call["perf"].at = "revive" => call["perf"].ip \in Inst /\ ins[call["perf"].ip].actflg
    BY DEF IInv, CallInv, Thread, FInv
  <2> QED BY <1>1, <1>4, <1>6, <2>1, <2>2 DEF Thread
<1>9. event.pc = "request" => event.ip \in Inst
  BY <1>1 DEF ControlInv
<1> QED BY <1>3, <1>4, <1>7, <1>8, <1>9 DEF FInv, InChain

\* A turnoff that has its claim is not handed over as well.
LEMMA NotHanded ==
    ASSUME IInv, NEW t \in Thread, NEW i \in Inst, call[t].at \in Claimed, call[t].ip = i
    PROVE  handoff[i] = 0 /\ perf.batch[i] = 0
<1>1. handoff[i] \in Nat /\ perf.batch[i] \in Nat /\ Owners(i) <= 1
  BY OwnerParts
<1>2. call["perf"].how = "forced" /\ call["perf"].at # "none" =>
          perf.pc = "batched" /\ perf.cur = call["perf"].ip
  BY DEF IInv, CallInv, Thread
<1> QED BY <1>1, <1>2 DEF Owners, Thread, Claimed

\* A step of a turnoff, with what it does to its own note.
LEMMA CallFiles ==
    ASSUME IInv, SInv, FInv, NEW t \in Thread, NEW i \in Inst, call[t].ip = i, call[t].at # "none",
           UNCHANGED <<handoff, perf, event>>,
           \A u \in Thread : u # t => call'[u] = call[u], call'[t].at # "revive",
           \A j \in Inst : j # i => Kept(j),
           FileInv(i)'
    PROVE  FInv'
<1>1. LockInv /\ alloc_spinlock = t
  BY DEF SInv, LockInv
<1>2. \A u \in Thread : u # t => call'[u] = call[u] /\ call[u].at = "none"
  BY <1>1, Alone
<1>3. event.pc \notin {"ahead", "activate", "request"}
  BY <1>1, <1>2 DEF LockInv, EventHolds, Thread
<1>4. ASSUME NEW j \in Inst PROVE FileInv(j)'
  <2>1. CASE j # i
    <3>1. ~Closing(j)
      BY <1>2, <2>1 DEF Closing
    <3> QED BY <2>1, <3>1, KeptFiles
  <2> QED BY <2>1
<1>5. call'["perf"].at # "revive"
  BY <1>2 DEF Thread
<1> QED BY <1>3, <1>4, <1>5 DEF FInv

\* Their marks, where nothing else is concerned.
LEMMA CallMarks ==
    ASSUME IInv, SInv, FInv, NEW t \in Thread, NEW i \in Inst, call[t].ip = i,
           \/ ClaimNote(t) \/ Revive(t) \/ NoRelease(t) \/ Unschedule(t) \/ Extend(t)
           \/ GiveBack(t) \/ Reschedule(t) \/ Deinit(t) \/ Unlink(t) \/ LinkAhead(t)
           \/ LinkBack(t) \/ List(t) \/ Return(t)
    PROVE  \A j \in Inst : Kept(j)
<1>1. /\ ins \in [Inst -> Fields] /\ link \in Links /\ CallInv(t) /\ TurnInv(t) /\ FileInv(i)
      /\ call[t] \in Calls
  BY DEF IInv, SInv, FInv, Types
<1>2. UNCHANGED <<handoff, perf>>
  BY DEF ClaimNote, Revive, NoRelease, Unschedule, Extend, GiveBack, Reschedule, Deinit,
         Unlink, LinkAhead, LinkBack, List, Return
<1>3. \A j \in Inst : /\ ins'[j].actflg = ins[j].actflg /\ ins'[j].fdchp = ins[j].fdchp
                      /\ ins[j].async # "none" => ins'[j].async # "none"
  <2>1. CASE Revive(t)
    <3>1. t = "perf" /\ call["perf"].at = "revive"
      BY <1>1, <2>1 DEF Revive, CallInv
    <3>2. ins[i].actflg
      BY <3>1 DEF FInv
    <3>3. ins' = [ins EXCEPT ![i].actflg = TRUE]
      BY <2>1 DEF Revive
    <3>4. ins[i].actflg = TRUE
      BY <1>1, <3>2 DEF Fields
    <3> QED BY <1>1, <3>3, <3>4 DEF Fields
  <2>2. CASE ~Revive(t)
    <3>1. \/ UNCHANGED ins
          \/ ins' = [ins EXCEPT ![i].relesing = TRUE, ![i].finite = TRUE]
          \/ ins' = [ins EXCEPT ![i].xtratim = FALSE, ![i].relesing = FALSE]
          \/ ins' = [ins EXCEPT ![i].async = IF @ = "held" THEN "stopped" ELSE @]
      BY <2>2 DEF ClaimNote, NoRelease, Unschedule, Extend, GiveBack, Reschedule, Deinit,
                  Unlink, LinkAhead, LinkBack, List, Return
    <3> QED BY <1>1, <3>1, KeptStores
  <2> QED BY <2>1, <2>2
<1>4. \A j \in Inst : InChain(j) => InChain(j)'
  <2>1. CASE LinkBack(t)
    <3>1. ins[i].actflg /\ call[t].at = "back" /\ call[t].p # Nobody /\ call[t].n \in Inst
      BY <1>1, <2>1 DEF LinkBack, TurnInv, CallInv, Calls
    <3>2. ~Closing(i)
      <4>1. alloc_spinlock = t
        BY <3>1 DEF SInv, LockInv
      <4> QED BY <3>1, <4>1, Alone DEF Closing
    <3>3. link.prv[i] # Nobody
      BY <1>1, <3>1, <3>2 DEF FileInv, InChain
    <3>4. \E p : p # Nobody /\ link' = [link EXCEPT !.prv[call[t].n] = p]
      BY <2>1, <3>1, <3>3 DEF LinkBack
    <3> QED BY <1>1, <3>1, <3>4 DEF InChain, Links
  <2>2. CASE LinkAhead(t)
    <3>1. link' = [link EXCEPT !.nxt[call[t].p] = link.nxt[i]]
      BY <2>2 DEF LinkAhead
    <3>2. link'.prv = link.prv
      BY <1>1, <3>1 DEF Links
    <3> QED BY <3>2 DEF InChain
  <2>3. CASE UNCHANGED link
    BY <2>3 DEF InChain
  <2> QED BY <2>1, <2>2, <2>3
          DEF ClaimNote, Revive, NoRelease, Unschedule, Extend, GiveBack, Reschedule, Deinit,
              Unlink, List, Return
<1> QED BY <1>2, <1>3, <1>4 DEF Kept

\* Where they lead.
LEMMA CallTurns ==
    ASSUME IInv, NEW t \in Thread, CallStep(t)
    PROVE  /\ call[t].at # "none" /\ call'[t].at # "revive"
           /\ \A u \in Thread : u # t => call'[u] = call[u]
<1>1. call \in [Thread -> Calls] /\ Types /\ CallInv(t)
  BY DEF IInv, Types
<1>2. CASE \/ Revive(t) \/ NoRelease(t) \/ Extend(t) \/ GiveBack(t) \/ Deinit(t) \/ LinkBack(t)
           \/ Retire(t) \/ Close(t) \/ List(t)
  <2>1. /\ \E at \in CallAt \ {"revive"} : Goes(t, at)
        /\ call[t].at # "none"
    BY <1>2 DEF Revive, NoRelease, Extend, GiveBack, Deinit, LinkBack, Retire, Close, List, CallAt
  <2> QED BY <1>1, <2>1, CallGoes
<1>3. CASE Reschedule(t) \/ Return(t)
  <2>1. call[t].at # "none" /\ call' = [call EXCEPT ![t] = NoCall]
    BY <1>3 DEF Reschedule, Return
  <2> QED BY <1>1, <2>1, CallEnds
<1>4. CASE ClaimNote(t)
  <2>1. call[t].at # "none" /\ call[t].how \in {"release", "now", "deact"}
    BY <1>1, <1>4 DEF ClaimNote, CallInv
  <2>2. CASE call' = [call EXCEPT ![t] = NoCall]
    BY <1>1, <2>1, <2>2, CallEnds
  <2>3. CASE \E at \in CallAt \ {"revive"} : Goes(t, at)
    BY <1>1, <2>1, <2>3, CallGoes
  <2> QED BY <1>4, <2>1, <2>2, <2>3 DEF ClaimNote, CallAt
<1>5. CASE Unschedule(t)
  <2>1. call[t].at # "none" /\ \E at \in CallAt \ {"revive"} : Goes(t, at)
    BY <1>5 DEF Unschedule, CallAt
  <2> QED BY <1>1, <2>1, CallGoes
<1>6. CASE Unlink(t) \/ LinkAhead(t)
  <2>1. ASSUME NEW at, NEW p, NEW n,
               \/ call' = [call EXCEPT ![t].at = at, ![t].p = p]
               \/ call' = [call EXCEPT ![t].at = at, ![t].n = n]
        PROVE  call'[t].at = at /\ \A u \in Thread : u # t => call'[u] = call[u]
    BY <1>1, <2>1 DEF Calls
  <2>2. CASE Unlink(t)
    <3> DEFINE a == IF ~ins[call[t].ip].actflg THEN "complete"
                    ELSE IF link.prv[call[t].ip] = Nobody THEN "retire" ELSE "ahead"
               p == IF ins[call[t].ip].actflg THEN link.prv[call[t].ip] ELSE Nobody
    <3>1. call' = [call EXCEPT ![t].at = a, ![t].p = p] /\ call[t].at = "unlink"
      BY <2>2 DEF Unlink
    <3>2. a # "revive"
      OBVIOUS
    <3> HIDE DEF a, p
    <3> QED BY <2>1, <3>1, <3>2
  <2>3. CASE LinkAhead(t)
    <3> DEFINE n == link.nxt[call[t].ip]
               a == IF n = Nobody THEN "retire" ELSE "back"
    <3>1. call' = [call EXCEPT ![t].at = a, ![t].n = n] /\ call[t].at = "ahead"
      BY <2>3 DEF LinkAhead
    <3>2. a # "revive"
      OBVIOUS
    <3> HIDE DEF a, n
    <3> QED BY <2>1, <3>1, <3>2
  <2> QED BY <1>6, <2>2, <2>3
<1> QED BY <1>2, <1>3, <1>4, <1>5, <1>6 DEF CallStep

\* The turnoffs keep the invariant.
LEMMA CallStepFiles == ASSUME IInv, SInv, FInv, NEW t \in Thread, CallStep(t) PROVE FInv'
<1>1. /\ call[t].at # "none" /\ call'[t].at # "revive" /\ call[t].ip \in Inst
      /\ \A u \in Thread : u # t => call'[u] = call[u]
  BY CallTurns DEF IInv, CallInv
<1>i. PICK i \in Inst : call[t].ip = i
  BY <1>1
<1>2. UNCHANGED <<handoff, perf, event>>
  BY DEF CallStep, ClaimNote, Revive, NoRelease, Unschedule, Extend, GiveBack, Reschedule, Deinit,
         Unlink, LinkAhead, LinkBack, Retire, Close, List, Return
<1>3. ~Closing(i) \/ call[t].at = "close"
  <2>1. alloc_spinlock = t
    BY <1>1 DEF SInv, LockInv
  <2> QED BY <2>1, Alone DEF Closing
<1>4. /\ ins \in [Inst -> Fields] /\ link \in Links /\ FileInv(i) /\ call \in [Thread -> Calls]
      /\ Types
  BY DEF IInv, FInv, Types
<1>5. CASE Retire(t)
  <2>1. /\ link' = [link EXCEPT !.prv[i] = Nobody] /\ call[t].at = "retire"
        /\ ins' = [ins EXCEPT ![i].retired = rendering] /\ Goes(t, "close")
    BY <1>i, <1>5 DEF Retire, LeftLinks
  <2>2. \A j \in Inst : /\ ins'[j].actflg = ins[j].actflg /\ ins'[j].fdchp = ins[j].fdchp
                        /\ ins[j].async # "none" => ins'[j].async # "none"
    BY <1>4, <2>1, KeptStores
  <2>3. \A j \in Inst : j # i => (InChain(j) => InChain(j)')
    BY <1>4, <2>1 DEF InChain, Links
  <2>4. Closing(i)'
    <3>1. call'[t].at = "close" /\ call'[t].ip = i
      BY <1>i, <1>4, <2>1, CallGoes DEF CallAt
    <3> QED BY <3>1 DEF Closing
  <2>5. FileInv(i)'
    BY <1>2, <1>4, <2>2, <2>4 DEF FileInv
  <2> QED BY <1>i, <1>1, <1>2, <2>2, <2>3, <2>5, CallFiles DEF Kept
<1>6. CASE Close(t)
  <2>1. /\ ins' = [ins EXCEPT ![i] = Closed(ins[i])] /\ UNCHANGED link /\ call[t].at = "close"
    BY <1>i, <1>6 DEF Close, Closed
  <2>2. /\ ~ins'[i].actflg /\ ins'[i].fdchp => ins'[i].async # "none"
        /\ \A j \in Inst : j # i => ins'[j] = ins[j]
    BY <1>4, <2>1 DEF Closed, Fields
  <2>3. ~ins'[i].actflg
    BY <1>4, <2>1 DEF Closed, Fields
  <2>4. handoff[i] = 0 /\ perf.batch[i] = 0
    BY <1>i, <2>1, NotHanded DEF Claimed
  <2>5. FileInv(i)'
    BY <1>2, <2>2, <2>3, <2>4 DEF FileInv
  <2> QED BY <1>i, <1>1, <1>2, <2>1, <2>2, <2>5, CallFiles DEF Kept, InChain
<1>7. CASE ~Retire(t) /\ ~Close(t)
  <2>1. \A j \in Inst : Kept(j)
    BY <1>i, <1>7, CallMarks DEF CallStep
  <2>2. call[t].at # "close"
    BY <1>7 DEF CallStep, ClaimNote, Revive, NoRelease, Unschedule, Extend, GiveBack, Reschedule,
                Deinit, Unlink, LinkAhead, LinkBack, List, Return
  <2>3. FileInv(i)'
    BY <1>3, <2>1, <2>2, KeptFiles
  <2> QED BY <1>i, <1>1, <1>2, <2>1, <2>3, CallFiles
<1> QED BY <1>5, <1>6, <1>7

\* The event thread before a pass, and after it.
LEMMA EventPlainFiles == ASSUME IInv, SInv, FInv, EventPlain PROVE FInv'
<1>1. /\ ins \in [Inst -> Fields] /\ link \in Links /\ event \in Events /\ ControlInv /\ LockInv /\ PledgeInv
      /\ handoff \in [Inst -> Nat]
  BY DEF IInv, SInv, Types
<1>2. UNCHANGED <<call, perf>>
  BY DEF EventPlain, SpliceStep, PassBy, Place, SpliceBehind, OwnLinks, SpliceAhead, Dequeue,
         LockForNote, Room, NoMemory, BeginTie, BeginNote, Relock, FinishNote, Request, Publish,
         EventDone, EventExpireEnd, FindTie, DrainReader, EndPass
<1>3. \A j \in Inst : ins'[j].actflg = ins[j].actflg
  BY EventPlainSame DEF Same
<1>4. \A j \in Inst : InChain(j) => InChain(j)'
  <2>1. CASE SpliceBehind \/ OwnLinks
    <3>1. PICK i \in Inst : \E p : p # Nobody /\ link'.prv = [link.prv EXCEPT ![i] = p]
      <4>1. CASE SpliceBehind
        <5>1. /\ event.ip \in Inst /\ event.nxtp \in Inst
              /\ link' = [link EXCEPT !.prv[event.nxtp] = event.ip]
          BY <1>1, <4>1 DEF SpliceBehind, EventAt, ControlInv, Events
        <5>2. event.ip # Nobody
          BY <5>1, NamesAssumption
        <5>3. link'.prv = [link.prv EXCEPT ![event.nxtp] = event.ip]
          BY <1>1, <5>1 DEF Links
        <5> QED BY <5>1, <5>2, <5>3
      <4>2. CASE OwnLinks
        <5>1. /\ event.ip \in Inst /\ event.prvp # Nobody
              /\ link' = [link EXCEPT !.nxt[event.ip] = event.nxtp, !.prv[event.ip] = event.prvp]
          BY <1>1, <4>2 DEF OwnLinks, EventAt, ControlInv
        <5>2. link'.prv = [link.prv EXCEPT ![event.ip] = event.prvp]
          BY <1>1, <5>1 DEF Links
        <5> QED BY <5>1, <5>2
      <4> QED BY <2>1, <4>1, <4>2
    <3> QED BY <1>1, <3>1 DEF InChain, Links
  <2>2. CASE SpliceAhead
    <3>1. link'.prv = link.prv
      BY <1>1, <2>2 DEF SpliceAhead, Links
    <3> QED BY <3>1 DEF InChain
  <2>3. CASE UNCHANGED link
    BY <2>3 DEF InChain
  <2> QED BY <2>1, <2>2, <2>3
          DEF EventPlain, SpliceStep, PassBy, Place, Dequeue, LockForNote, Room, NoMemory, BeginTie,
              BeginNote, Relock, FinishNote, Request, Publish, EventDone, EventExpireEnd, FindTie,
              DrainReader, EndPass
<1>5. ASSUME NEW j \in Inst, ins'[j].fdchp /\ ~ins[j].actflg => ins'[j].async # "none"
      PROVE  FileInv(j)'
  <2>1. handoff'[j] > 0 => handoff[j] > 0 \/ ins[j].actflg
    <3>1. CASE FinishNote \/ Request
      <4>1. event.ip \in Inst /\ ins[event.ip].actflg
        BY <1>1, <3>1 DEF FinishNote, Request, EventAt, ControlInv, PledgeInv, FInv
      <4>2. j # event.ip => handoff'[j] = handoff[j]
        BY <1>1, <3>1, <4>1 DEF FinishNote, Request, InitFinish, RequestTurnoff, Count
      <4> QED BY <4>1, <4>2
    <3>2. CASE UNCHANGED handoff
      BY <3>2
    <3> QED BY <3>1, <3>2
            DEF EventPlain, SpliceStep, PassBy, Place, SpliceBehind, OwnLinks, SpliceAhead, Dequeue,
                LockForNote, Room, NoMemory, BeginTie, BeginNote, Relock, Publish, EventDone,
                EventExpireEnd, FindTie, DrainReader, EndPass
  <2>2. FileInv(j) /\ (Closing(j) => Closing(j)')
    BY <1>2 DEF FInv, Closing
  <2> QED BY <1>2, <1>3, <1>4, <1>5, <2>1, <2>2 DEF FileInv
<1>6. ASSUME NEW j \in Inst PROVE ins'[j].fdchp /\ ~ins[j].actflg => ins'[j].async # "none"
  <2>1. FileInv(j)
    BY DEF FInv
  <2>2. ASSUME NEW i \in Inst, DrainReader(i)
        PROVE  ins'[j].fdchp /\ ~ins[j].actflg => ins'[j].async # "none"
    <3>1. ins' = [ins EXCEPT ![i].async = "none", ![i].fdchp = @ /\ ins[i].actflg]
      BY <2>2 DEF DrainReader
    <3>2. CASE j = i
      <4>1. ins'[i].fdchp = (ins[i].fdchp /\ ins[i].actflg)
        BY <1>1, <3>1 DEF Fields
      <4> QED BY <3>2, <4>1
    <3>3. CASE j # i
      BY <1>1, <2>1, <3>1, <3>3 DEF FileInv
    <3> QED BY <3>2, <3>3
  <2>3. ASSUME NEW error, NEW open, NEW xtra, EndPass(error, open, xtra)
        PROVE  ins'[j].fdchp /\ ~ins[j].actflg => ins'[j].async # "none"
    <3>1. event.pc = "pass" /\ event.ip \in Inst /\ ins[event.ip].actflg
      BY <1>1, <2>3 DEF EndPass, EventAt, LockInv, EventHolds, ControlInv, PledgeInv
    <3>2. j # event.ip => ins'[j] = ins[j]
      BY <1>1, <2>3, <3>1 DEF EndPass
    <3> QED BY <2>1, <3>1, <3>2 DEF FileInv
  <2>4. CASE UNCHANGED ins
    BY <2>1, <2>4 DEF FileInv
  <2>5. CASE BeginTie \/ FinishNote \/ Request \/ Publish
    <3>1. event.ip \in Inst
      BY <1>1, <2>5 DEF BeginTie, FinishNote, Request, Publish, EventAt, ControlInv
    <3>2. \E b : ins' = [ins EXCEPT ![event.ip].init_done = b]
      BY <2>5 DEF BeginTie, FinishNote, Request, Publish
    <3>3. ins'[j].fdchp = ins[j].fdchp /\ (ins[j].async # "none" => ins'[j].async # "none")
      BY <1>1, <3>1, <3>2, KeptStores
    <3> QED BY <2>1, <3>3 DEF FileInv
  <2> QED BY <2>2, <2>3, <2>4, <2>5
          DEF EventPlain, SpliceStep, PassBy, Place, SpliceBehind, OwnLinks, SpliceAhead, Dequeue,
              LockForNote, Room, NoMemory, BeginNote, Relock, EventDone, EventExpireEnd, FindTie
<1>7. event'.pc \in {"ahead", "activate"} => link'.prv[event'.ip] # Nobody
  <2>1. CASE OwnLinks
    <3>1. /\ event.ip \in Inst /\ event.prvp # Nobody /\ event'.ip = event.ip
          /\ link' = [link EXCEPT !.nxt[event.ip] = event.nxtp, !.prv[event.ip] = event.prvp]
      BY <1>1, <2>1 DEF OwnLinks, EventAt, EventGoes, ControlInv, Events
    <3>2. link'.prv = [link.prv EXCEPT ![event.ip] = event.prvp] /\ link.prv \in [Inst -> Node]
      BY <1>1, <3>1 DEF Links
    <3> QED BY <3>1, <3>2 DEF InChain
  <2>2. CASE SpliceAhead
    <3>1. event.pc = "ahead" /\ event.ip \in Inst /\ event'.ip = event.ip
      BY <1>1, <2>2 DEF SpliceAhead, EventAt, ControlInv, Events
    <3>2. InChain(event.ip)
      BY <3>1 DEF FInv
    <3>3. link'.prv = link.prv
      BY <1>1, <2>2 DEF SpliceAhead, Links
    <3> QED BY <3>1, <3>2, <3>3 DEF InChain
  <2>3. CASE ~OwnLinks /\ ~SpliceAhead /\ event' # event
    <3>1. event'.pc \notin {"ahead", "activate"}
      BY <1>1, <2>3
         DEF EventPlain, SpliceStep, PassBy, Place, SpliceBehind, Dequeue,
             LockForNote, Room, NoMemory, BeginTie, BeginNote, Relock, FinishNote, Request, Publish,
             EventDone, EventExpireEnd, FindTie, DrainReader, EndPass, EventAt, EventGoes, Events
    <3> QED BY <3>1
  <2>4. CASE event' = event
    <3>1. event.pc \in {"ahead", "activate"} => event.ip \in Inst /\ InChain(event.ip)
      BY <1>1 DEF FInv, ControlInv
    <3> QED BY <1>4, <2>4, <3>1 DEF InChain
  <2> QED BY <2>1, <2>2, <2>3, <2>4
<1>8. event'.pc = "request" => ins'[event'.ip].actflg
  <2>1. event'.pc = "request" => event.pc = "finish" /\ event'.ip = event.ip
    BY EventPlainGoes
  <2> QED BY <1>1, <1>3, <2>1 DEF PledgeInv, ControlInv
<1>9. call'["perf"].at = "revive" => ins'[call'["perf"].ip].actflg
  <2>1. call["perf"].at = "revive" => call["perf"].ip \in Inst /\ ins[call["perf"].ip].actflg
    BY DEF IInv, CallInv, Thread, FInv
  <2> QED BY <1>2, <1>3, <2>1
<1>10. \A j \in Inst : FileInv(j)'
  BY <1>5, <1>6
<1> QED BY <1>7, <1>8, <1>9, <1>10 DEF FInv, InChain

\* A note is taken, gets its fields, and is scheduled.
LEMMA NoteFiles ==
    ASSUME IInv, SInv, FInv,
           \/ \E i \in Inst : TakeNote(i)
           \/ \E finite \in BOOLEAN : SetFields(finite)
           \/ \E late \in BOOLEAN : Schedule(late)
    PROVE  FInv'
<1>1. /\ Types /\ LockInv /\ ControlInv /\ event \in Events /\ ins \in [Inst -> Fields]
      /\ UNCHANGED <<handoff, link, call, perf>>
  BY DEF IInv, SInv, Types, TakeNote, SetFields, Schedule
<1>2. \A t \in Thread : call[t].at = "none"
  <2>1. event.pc \in EventHolds /\ call["event"].at = "none"
    BY DEF TakeNote, SetFields, Schedule, EventAt, CallFree, EventHolds
  <2> QED BY <1>1, <2>1 DEF LockInv, Thread
<1>3. event'.pc \notin {"ahead", "activate", "request"}
  BY <1>1 DEF TakeNote, SetFields, Schedule, EventGoes, Events
<1>4. ASSUME NEW j \in Inst, NEW i \in Inst, TakeNote(i) PROVE FileInv(j)'
  <2>1. /\ ~ins[i].alloc => ins'[i] = Blank
        /\ ins[i].alloc => ins'[i] = [ins[i] EXCEPT !.init_done = FALSE, !.fdchp = FALSE]
        /\ \A k \in Inst : k # i => ins'[k] = ins[k]
    BY <1>1, <1>4 DEF TakeNote
  <2>2. ~ins[i].actflg
    BY <1>4 DEF TakeNote, Takes, Reclaimable, SInv, NoteInv
  <2>3. ~ins'[i].actflg /\ ~ins'[i].fdchp
    <3>1. CASE ins[i].alloc
      BY <1>1, <2>1, <2>2, <3>1 DEF Fields
    <3>2. CASE ~ins[i].alloc
      BY <2>1, <3>2 DEF Blank
    <3> QED BY <3>1, <3>2
  <2>4. FileInv(j)
    BY DEF FInv
  <2>5. CASE j = i
    BY <1>1, <2>2, <2>3, <2>4, <2>5 DEF FileInv
  <2>6. CASE j # i
    <3>1. ins'[j] = ins[j]
      BY <2>1, <2>6
    <3> QED BY <1>1, <2>4, <3>1 DEF FileInv, InChain, Closing
  <2> QED BY <2>5, <2>6
<1>5. ASSUME NEW j \in Inst, NEW finite \in BOOLEAN, SetFields(finite) PROVE FileInv(j)'
  <2>i. PICK i \in Inst : event.ip = i
    BY <1>1, <1>5 DEF SetFields, EventAt, ControlInv
  <2>1. /\ ins'[i].actflg = (ins[i].actflg \/ event.pc = "activate")
        /\ ins'[i].fdchp = ins[i].fdchp /\ ins'[i].async = ins[i].async
        /\ \A k \in Inst : k # i => ins'[k] = ins[k]
    <3> DEFINE b == ins[i].actflg \/ event.pc = "activate"
    <3>1. ins' = [ins EXCEPT ![i].actflg = b, ![i].xtratim = FALSE, ![i].relesing = FALSE,
                             ![i].finite = finite]
      BY <1>5, <2>i DEF SetFields
    <3> HIDE DEF b
    <3>2. /\ ins'[i].actflg = b /\ ins'[i].fdchp = ins[i].fdchp /\ ins'[i].async = ins[i].async
          /\ \A k \in Inst : k # i => ins'[k] = ins[k]
      BY <1>1, <3>1 DEF Fields
    <3> QED BY <3>2 DEF b
  <2>2. event.pc = "activate" => InChain(i)
    BY <2>i DEF FInv
  <2>3. FileInv(j)
    BY DEF FInv
  <2>4. CASE j = i
    BY <1>1, <2>1, <2>2, <2>3, <2>4 DEF FileInv, InChain, Closing
  <2>5. CASE j # i
    <3>1. ins'[j] = ins[j]
      BY <2>1, <2>5
    <3> QED BY <1>1, <2>3, <3>1 DEF FileInv, InChain, Closing
  <2> QED BY <2>4, <2>5
<1>6. ASSUME NEW j \in Inst, NEW late \in BOOLEAN, Schedule(late) PROVE FileInv(j)'
  <2>1. \/ UNCHANGED ins
        \/ ins' = [ins EXCEPT ![event.ip].finite = FALSE]
    BY <1>6 DEF Schedule
  <2>2. /\ ins'[j].actflg = ins[j].actflg /\ ins'[j].fdchp = ins[j].fdchp
        /\ ins[j].async # "none" => ins'[j].async # "none"
    BY <1>1, <2>1, KeptStores
  <2>3. Kept(j) /\ (Closing(j) => Closing(j)')
    BY <1>1, <2>2 DEF Kept, Closing, InChain
  <2> QED BY <2>3, KeptFiles
<1>7. ASSUME NEW j \in Inst PROVE FileInv(j)'
  BY <1>4, <1>5, <1>6
<1>8. call'["perf"].at # "revive"
  BY <1>1, <1>2 DEF Thread
<1> QED BY <1>3, <1>7, <1>8 DEF FInv

\* The invariant of the files.
LEMMA NextFInv == ASSUME IInv, SInv, FInv, Serial, [Next]_vars PROVE FInv'
<1>1. LockInv /\ "perf" \in Thread /\ "event" \in Thread /\ "reinit" \notin Uses
  BY DEF SInv, Thread, Serial
<1>2. CASE PerfStep
  <2>1. CASE CallStep("perf")
    BY <1>1, <2>1, CallStepFiles
  <2>2. CASE PerfPlain
    BY <2>2, PerfPlainFiles
  <2>3. CASE EndSection
    BY <2>3, EndSectionFiles
  <2>4. ASSUME NEW i \in Inst, NEW how \in {"release", "now"},
               \/ HandoffTurnoff(i) \/ ExpireDue(i) \/ NoteOff(i)
               \/ SectionTurnoff(i) \/ OpTurnoff(i, how)
        PROVE  FInv'
    BY <2>4, RequestFiles
  <2>5. ~ReinitStep /\ ~OpReinit
    BY <1>1 DEF LockInv, PerfHolds, ReinitStep, KeepFlags, BeginReinit, ClearDone, ClearActive,
                PostReinit, UndoReinit, RestoreDone, RestoreActive, ReinitError, OpReinit
  <2> QED BY <1>2, <2>1, <2>2, <2>3, <2>4, <2>5 DEF PerfStep, PerfPlain
<1>3. CASE EventStep
  <2>1. CASE CallStep("event")
    BY <1>1, <2>1, CallStepFiles
  <2>2. CASE EventPlain
    BY <2>2, EventPlainFiles
  <2>3. CASE \/ \E i \in Inst : TakeNote(i)
             \/ \E finite \in BOOLEAN : SetFields(finite)
             \/ \E late \in BOOLEAN : Schedule(late)
    BY <2>3, NoteFiles
  <2>4. ASSUME NEW i \in Inst, NEW how \in {"release", "now"},
               MakeRoom(i) \/ InitTurnoff(i, how) \/ EventExpire(i)
        PROVE  FInv'
    BY <2>4, RequestFiles
  <2>5. ~(FinishReinit \/ Reactivate \/ Ready)
    BY <1>1 DEF LockInv, EventHolds, FinishReinit, Reactivate, Ready, EventAt
  <2> QED BY <1>3, <2>1, <2>2, <2>3, <2>4, <2>5 DEF EventStep, EventPlain
<1>4. CASE UNCHANGED vars
  <2>1. ASSUME NEW i \in Inst PROVE FileInv(i)'
    BY <1>4 DEF vars, FInv, FileInv, InChain, Closing
  <2> QED BY <1>4, <2>1 DEF vars, FInv, InChain
<1> QED BY <1>2, <1>3, <1>4 DEF Next

\* Under the same hypothesis: the files of a note do not outlive it (insert.c,
\* deact_internal; diskin2.c, diskin2_async_drain_deferred), whether the turnoff
\* or the last asynchronous reader of the note comes last, and however often
\* the instance is taken, turned off late, released or freed in between.
THEOREM FilesClose == Serial /\ Spec => []FilesClosed
<1>1. Init => SInv /\ FInv
  <2> SUFFICES ASSUME Init PROVE SInv /\ FInv
    OBVIOUS
  <2>1. SInv
    BY InitSInv
  <2>2. call["perf"].at # "revive" /\ event.pc = "idle"
    BY DEF Init, NoCall, Thread
  <2>3. ASSUME NEW i \in Inst PROVE FileInv(i)
    <3>1. ~ins[i].actflg /\ ~ins[i].fdchp /\ handoff[i] = 0 /\ perf.batch[i] = 0
      BY DEF Init, Blank
    <3> QED BY <3>1 DEF FileInv
  <2> QED BY <2>1, <2>2, <2>3 DEF FInv
<1>2. Serial /\ IInv /\ SInv /\ FInv /\ [Next]_vars => SInv' /\ FInv'
  BY NextSInv, NextFInv
<1>3. FInv => FilesClosed
  <2> SUFFICES ASSUME FInv, NEW i \in Inst,
                      ins[i].fdchp, ~InChain(i), ins[i].async = "none"
               PROVE  \E t \in Thread : call[t].ip = i /\ call[t].at \notin {"list", "complete"}
    BY DEF FilesClosed
  <2>1. Closing(i)
    BY DEF FInv, FileInv
  <2> QED BY <2>1 DEF Closing
<1>4. Serial => Serial'
  BY DEF Serial
<1> QED BY <1>1, <1>2, <1>3, <1>4, Invariance, PTL DEF Spec

=============================================================================
