---------------------- MODULE ActivationRuntime_proofs ----------------------
(***************************************************************************)
(* Theorems about ActivationRuntime for every set of workers, events,      *)
(* requests, wakes and intents, every clock bound, delay and backoff.      *)
(***************************************************************************)
EXTENDS ActivationRuntime, WellFoundedInduction, TLAPS

Enqueued == {v \in Wakes : wake[v] # NoWake}

\* where a worker is while it has the lease, and while it runs a turn
InTurn == {"clear", "start", "model", "mark", "finish", "failing", "failed"}
Leased == InTurn \cup {"wake", "consumed", "return", "enqueue", "restore", "abandon"}

\* The lease is the worker's that is past its claim.
HolderWorks == \A w \in Workers : pc[w] \in Leased <=> lease = w

\* Which step of a worker each call of the stores belongs to
StoreCalls ==
  \A c \in Clients :
    /\ call[c].op \in {"append", "status", "index"} => c \notin Workers
    /\ call[c].op = "mark" =>
         c \in Workers /\ pc[c] = "finish" /\ call[c].ids \subseteq job[c].seen

QueueCallsFit ==
  \A w \in Workers :
    /\ wcall[w].op = "enqueue" =>
         pc[w] \in {"enqueue", "restore"} /\ wcall[w].known \subseteq Enqueued
    /\ wcall[w].op = "consume" =>
         pc[w] = "consumed" /\ wcall[w].left \subseteq job[w].taken

\* What a worker knows is in the journals, and a turn has something to work on.
JobsKnown ==
  \A w \in Workers :
    /\ job[w].known \subseteq Enqueued /\ job[w].taken \subseteq Enqueued
    /\ job[w].seen \subseteq appended
    /\ pc[w] \in InTurn => job[w].seen # {} \/ job[w].taken # {}

Base == TypeOK /\ HolderWorks /\ StoreCalls /\ QueueCallsFit /\ JobsKnown

-----------------------------------------------------------------------------
(* Operators *)

LEMMA HasMinimum ==
  ASSUME NEW S \in SUBSET Nat, S # {}
  PROVE  \E m \in S : \A n \in S : m <= n
<1>. DEFINE Less == OpToRel(<, Nat)
<1>1. IsWellFoundedOn(Less, Nat)
  BY NatLessThanWellFounded
<1>2. \A x, y \in Nat : <<x, y>> \in Less <=> x < y
  BY DEF OpToRel
<1>. HIDE DEF Less
<1>3. PICK m \in S : \A n \in S : <<n, m>> \notin Less
  BY <1>1, WFMin
<1>4. ASSUME NEW n \in S PROVE m <= n
  <2>1. n \in Nat /\ m \in Nat
    OBVIOUS
  <2>2. ~ (n < m)
    BY <1>2, <1>3, <2>1
  <2>. QED
    BY <2>1, <2>2
<1>. QED
  BY <1>4

LEMMA WakeDue ==
  ASSUME QueueTypeOK, NEW v \in Enqueued
  PROVE  /\ v \in Wakes /\ wake[v] \in [intent : Intents, due : Nat, key : Keys \cup {NoKey}]
  BY DEF QueueTypeOK, Enqueued

\* earliestPendingWakeDueAt is the due time of a wake, and no wake is due before.
LEMMA EarliestIsFirst ==
  ASSUME QueueTypeOK, NEW ws \in SUBSET Enqueued
  PROVE  /\ ws = {} => Earliest(ws) = NoDue
         /\ ws # {} => Earliest(ws) \in Nat /\ \A v \in ws : Earliest(ws) <= wake[v].due
<1>1. CASE ws = {}
  BY <1>1 DEF Earliest
<1>2. CASE ws # {}
  <2>. DEFINE Dues == {wake[w].due : w \in ws}
  <2>1. Dues \in SUBSET Nat /\ Dues # {}
    BY <1>2, WakeDue
  <2>2. PICK d \in Dues : \A n \in Dues : d <= n
    BY <2>1, HasMinimum
  <2>3. \A w \in ws : d <= wake[w].due
    BY <2>2
  <2>4. Earliest(ws) = CHOOSE e \in Dues : \A w \in ws : e <= wake[w].due
    BY <1>2 DEF Earliest
  <2>5. Earliest(ws) \in Dues /\ \A w \in ws : Earliest(ws) <= wake[w].due
    BY <2>3, <2>4
  <2>. QED
    BY <1>2, <2>1, <2>5
<1>. QED
  BY <1>1, <1>2

\* The wake the harness is told about is one of those it was given.
LEMMA FirstIsOne ==
  ASSUME QueueTypeOK, NEW ws \in SUBSET Enqueued, ws # {}
  PROVE  First(ws) \in ws
<1>. DEFINE Dues == {wake[w].due : w \in ws}
<1>1. Dues \in SUBSET Nat /\ Dues # {}
  BY WakeDue
<1>2. PICK d \in Dues : \A n \in Dues : d <= n
  BY <1>1, HasMinimum
<1>3. PICK w \in ws : d = wake[w].due
  BY <1>1
<1>4. \A v \in ws : wake[w].due <= wake[v].due
  BY <1>2, <1>3
<1>. QED
  BY <1>4 DEF First

LEMMA DelayType == ASSUME NEW streak \in Nat PROVE Delay(streak) \in Nat
  BY StoreAssumption DEF StoreAssumption, Delay

LEMMA CappedType == ASSUME NEW t \in Nat PROVE Capped(t) \in Nat
  BY RuntimeAssumption DEF RuntimeAssumption, Capped

LEMMA ListDueType ==
  ASSUME QueueTypeOK, ListDue(now)
  PROVE  nextDue' \in Nat \cup {NoDue}
<1>1. Open \in SUBSET Enqueued
  BY DEF Open, Enqueued
<1>2. Earliest(Open) \in Nat \cup {NoDue}
  BY <1>1, EarliestIsFirst
<1>. QED
  BY <1>2 DEF ListDue, QueueTypeOK

-----------------------------------------------------------------------------
(* Types, and who is where *)

LEMMA InitBase == Init => Base
  BY StoreAssumption, RuntimeAssumption
     DEF Init, StoreInit, QueueInit, Base, TypeOK, StoreTypeOK, QueueTypeOK, Statuses, Calls,
         NoCall, QueueCalls, NoQueueCall, Jobs, NoJob, Places, HolderWorks, Leased, InTurn,
         StoreCalls, QueueCallsFit, JobsKnown, StoreAssumption, RuntimeAssumption


\* A turn's end is noted without forgetting what it worked on.
Todos == SUBSET [intent : Intents, due : Nat, key : Keys \cup {NoKey}]

LEMMA EndsJob ==
  ASSUME TypeOK, NEW w \in Workers, NEW end \in {"ok", "confirm", "retryable", "fatal"},
         NEW request \in Requests \cup {None}, NEW todo \in Todos, Ends(w, end, request, todo)
  PROVE  /\ job' \in [Workers -> Jobs]
         /\ asked' \subseteq Requests /\ asked' = asked \cup ({request} \ {None})
         /\ \A u \in Workers : /\ job'[u].known = job[u].known
                               /\ job'[u].taken = job[u].taken
                               /\ job'[u].seen = job[u].seen
                               /\ u # w => job'[u] = job[u]
         /\ job'[w].end = end /\ job'[w].request = request /\ job'[w].todo = todo
         /\ \E step \in {"failing", "mark", "finish"} : pc' = [pc EXCEPT ![w] = step]
<1>1. job \in [Workers -> Jobs] /\ job[w] \in Jobs
  BY DEF TypeOK
<1>2. job' = [job EXCEPT ![w] = [job[w] EXCEPT !.end = end, !.request = request, !.todo = todo]]
  BY <1>1 DEF Ends
<1>3. [job[w] EXCEPT !.end = end, !.request = request, !.todo = todo] \in Jobs
  BY <1>1 DEF Jobs, Todos
<1>4. asked' \subseteq Requests /\ asked' = asked \cup ({request} \ {None})
  BY DEF Ends, TypeOK
<1>5. \E step \in {"failing", "mark", "finish"} : pc' = [pc EXCEPT ![w] = step]
  <2>1. Goto(w, "failing") \/ Goto(w, "mark") \/ Goto(w, "finish")
    BY DEF Ends
  <2>. QED
    BY <2>1 DEF Goto
<1>. QED
  BY <1>1, <1>2, <1>3, <1>4, <1>5 DEF Jobs

LEMMA ReplyJob ==
  ASSUME TypeOK, NEW w \in Workers, Reply(w) \/ Fail(w)
  PROVE  /\ job' \in [Workers -> Jobs] /\ asked' \subseteq Requests
         /\ \A u \in Workers : /\ job'[u].known = job[u].known
                               /\ job'[u].taken = job[u].taken
                               /\ job'[u].seen = job[u].seen
                               /\ u # w => job'[u] = job[u]
         /\ \E step \in {"failing", "mark", "finish"} : pc' = [pc EXCEPT ![w] = step]
<1>1. \A i \in Intents, due \in {now, Capped(now + 1)} : {Record(i, due, KeyOf[i])} \in Todos
  BY CappedType, RuntimeAssumption DEF RuntimeAssumption, TypeOK, Record, Todos
<1>2. Custom \subseteq Requests /\ {} \in Todos
  BY RuntimeAssumption DEF RuntimeAssumption, Todos
<1>. QED
  BY <1>1, <1>2, EndsJob DEF Reply, Fail

\* A turn begins with the lease and keeps it until it is accounted for.
LEMMA HolderStep ==
  ASSUME Base, [Next]_vars
  PROVE  HolderWorks'
<1>. USE StoreAssumption, RuntimeAssumption
     DEF StoreAssumption, RuntimeAssumption, Base, TypeOK, HolderWorks, Leased, InTurn, Goto
<1>1. ASSUME NEW w \in Workers, Look(w) \/ Claim(w) \/ Snapshot(w) \/ HarnessRead(w)
      PROVE  HolderWorks'
  BY <1>1 DEF Look, Claim, Snapshot, HarnessRead
<1>2. ASSUME NEW w \in Workers, ClearState(w) \/ Start(w) \/ Mark(w)
      PROVE  HolderWorks'
  BY <1>2 DEF ClearState, Start, Mark
<1>8. ASSUME NEW w \in Workers, Reply(w) \/ Fail(w) PROVE HolderWorks'
  <2>1. pc[w] = "model" /\ lease' = lease
    BY <1>8 DEF Reply, Fail
  <2>. QED
    BY <1>8, <2>1, ReplyJob
<1>3. ASSUME NEW w \in Workers, Finish(w) \/ Defer(w) \/ FailUpdate(w) \/ Throw(w) \/ Return(w)
      PROVE  HolderWorks'
  BY <1>3 DEF Finish, Defer, FailUpdate, Throw, Return, Restores
<1>4. ASSUME NEW w \in Workers, Enqueue(w) \/ Release(w) \/ Crash(w)
      PROVE  HolderWorks'
  BY <1>4 DEF Enqueue, Release, Crash, Places
<1>5. ASSUME NEW w \in Workers,
             Reconcile(w) \/ Backoff(w) \/ Done(w) \/ StoreContinue(w) \/ QueueContinue(w)
      PROVE  HolderWorks'
  BY <1>5 DEF Reconcile, Backoff, Done, StoreContinue, QueueContinue
<1>6. ASSUME NEW c \in Clients \ Workers, Emit(c) \/ StoreContinue(c)
      PROVE  HolderWorks'
  BY <1>6 DEF Emit, StoreContinue
<1>7. CASE Tick \/ UNCHANGED vars
  BY <1>7 DEF Tick, vars
<1>. QED
  BY <1>1, <1>2, <1>3, <1>4, <1>5, <1>6, <1>7, <1>8 DEF Next, Turn

\* A call of the session store belongs to one step of its caller.
LEMMA StoreCallsStep ==
  ASSUME Base, [Next]_vars
  PROVE  StoreCalls'
<1>. USE StoreAssumption, RuntimeAssumption
     DEF RuntimeAssumption, Base, TypeOK, StoreTypeOK, StoreCalls, Goto, Idle, NoCall, Begin, End,
         storeVars
<1>1. ASSUME NEW w \in Workers, Look(w) \/ Claim(w) \/ Snapshot(w) \/ HarnessRead(w)
      PROVE  StoreCalls'
  BY <1>1 DEF Look, Claim, Snapshot, HarnessRead
<1>2. ASSUME NEW w \in Workers, ClearState(w) \/ Start(w) PROVE StoreCalls'
  BY <1>2 DEF ClearState, Start, UpdateSession
<1>9. ASSUME NEW w \in Workers, Reply(w) \/ Fail(w) PROVE StoreCalls'
  <2>1. pc[w] = "model" /\ call' = call
    BY <1>9 DEF Reply, Fail
  <2>. QED
    BY <1>9, <2>1, ReplyJob
<1>3. ASSUME NEW w \in Workers, Mark(w) PROVE StoreCalls'
  BY <1>3 DEF Mark, MarkBegin
<1>4. ASSUME NEW w \in Workers, Finish(w) \/ Defer(w) \/ FailUpdate(w) \/ Throw(w) \/ Return(w)
      PROVE  StoreCalls'
  BY <1>4 DEF Finish, Defer, FailUpdate, Throw, Return, Restores, UpdateSession, DeferRunnable
<1>5. ASSUME NEW w \in Workers, Enqueue(w) \/ Release(w) \/ Crash(w) \/ Reconcile(w) \/ Backoff(w)
                                 \/ Done(w) \/ QueueContinue(w)
      PROVE  StoreCalls'
  BY <1>5 DEF Enqueue, Release, Crash, Reconcile, Backoff, Done, QueueContinue, ReconcileRead,
     BackoffRead
<1>6. ASSUME NEW c \in Clients, StoreContinue(c)
      PROVE  StoreCalls'
  BY <1>6 DEF StoreContinue, CallStep, EmitAppend, EmitStatus, EmitIndex, MarkOne, MarkRefresh,
     BackoffWrite, ReconcileWrite
<1>7. ASSUME NEW c \in Clients \ Workers, Emit(c) PROVE StoreCalls'
  BY <1>7 DEF Emit, EmitCheck
<1>8. CASE Tick \/ UNCHANGED vars
  BY <1>8 DEF Tick, vars
<1>. QED
  BY <1>1, <1>2, <1>3, <1>4, <1>5, <1>6, <1>7, <1>8, <1>9 DEF Next, Turn

\* And so does a call of the wake queue.
LEMMA QueueCallsStep ==
  ASSUME Base, [Next]_vars
  PROVE  QueueCallsFit'
<1>. USE RuntimeAssumption
     DEF RuntimeAssumption, Base, TypeOK, QueueTypeOK, QueueCallsFit, Enqueued, Goto, Idle,
         NoQueueCall, QueueCalls, BeginQueue, EndQueue, queueVars, Jobs
<1>1. ASSUME NEW w \in Workers, Look(w) \/ Claim(w) \/ HarnessRead(w)
      PROVE  QueueCallsFit'
  BY <1>1 DEF Look, Claim, HarnessRead, NoJob
<1>2. ASSUME NEW w \in Workers, Snapshot(w) PROVE QueueCallsFit'
  <2>1. ToConsume(w) \in SUBSET Wakes
    BY DEF ToConsume, DueBy, Open
  <2>. QED
    BY <1>2, <2>1 DEF Snapshot, ConsumeBegin
<1>3. ASSUME NEW w \in Workers, ClearState(w) \/ Start(w) \/ Mark(w)
      PROVE  QueueCallsFit'
  BY <1>3 DEF ClearState, Start, Mark
<1>10. ASSUME NEW w \in Workers, Reply(w) \/ Fail(w) PROVE QueueCallsFit'
  <2>1. pc[w] = "model" /\ UNCHANGED queueVars
    BY <1>10 DEF Reply, Fail
  <2>2. \A u \in Workers : job'[u].taken = job[u].taken /\ (u # w => pc'[u] = pc[u])
    BY <1>10, ReplyJob
  <2>3. wcall[w].op \notin {"enqueue", "consume"}
    BY <2>1
  <2>. QED
    BY <2>1, <2>2, <2>3
<1>4. ASSUME NEW w \in Workers, Finish(w) \/ Defer(w) \/ FailUpdate(w) \/ Throw(w) \/ Return(w)
      PROVE  QueueCallsFit'
  BY <1>4 DEF Finish, Defer, FailUpdate, Throw, Return, Restores
<1>5. ASSUME NEW w \in Workers, Enqueue(w) PROVE QueueCallsFit'
  <2>1. PICK r \in job[w].todo :
          EnqueueAppend(w, r) /\ job' = [job EXCEPT ![w].todo = job[w].todo \ {r}]
    BY <1>5 DEF Enqueue
  <2>2. \A u \in Workers : job'[u].taken = job[u].taken
    BY <2>1
  <2>3. pc' = pc /\ pc[w] \in {"enqueue", "restore"}
    BY <1>5 DEF Enqueue
  <2>4. CASE Duplicate(r.key)
    BY <2>1, <2>2, <2>3, <2>4 DEF EnqueueAppend
  <2>5. CASE ~ Duplicate(r.key)
    <3>1. PICK v \in Wakes :
            /\ wake[v] = NoWake /\ wake' = [wake EXCEPT ![v] = r]
            /\ wcall' = [wcall EXCEPT ![w] = [op |-> "enqueue", known |-> Open \cup {v}]]
      BY <2>1, <2>5 DEF EnqueueAppend
    <3>2. r # NoWake
      BY WakeAssumption DEF WakeAssumption
    <3>3. Open \cup {v} \subseteq Enqueued'
      BY <3>1, <3>2 DEF Open
    <3>4. Enqueued \subseteq Enqueued'
      BY <3>1, <3>2
    <3>. QED
      BY <2>2, <2>3, <3>1, <3>3, <3>4
  <2>. QED
    BY <2>4, <2>5
<1>6. ASSUME NEW w \in Workers, Release(w) \/ Crash(w) \/ Reconcile(w) \/ Backoff(w) \/ Done(w)
      PROVE  QueueCallsFit'
  BY <1>6 DEF Release, Crash, Reconcile, Backoff, Done
<1>7. ASSUME NEW w \in Workers, QueueContinue(w) PROVE QueueCallsFit'
  <2>1. CASE EnqueueSync(w) \/ ConsumeSync(w)
    <3>1. UNCHANGED <<wake, pc, job>> /\ wcall' = [wcall EXCEPT ![w] = [op |-> "none"]]
      BY <1>7, <2>1 DEF QueueContinue, EnqueueSync, ConsumeSync
    <3>. QED
      BY <3>1
  <2>2. CASE ConsumeOne(w)
    BY <1>7, <2>2 DEF QueueContinue, ConsumeOne
  <2>. QED
    BY <1>7, <2>1, <2>2 DEF QueueContinue, QueueStep
<1>8. ASSUME NEW c \in Clients, Emit(c) \/ StoreContinue(c) PROVE QueueCallsFit'
  BY <1>8 DEF Emit, StoreContinue
<1>9. CASE Tick \/ UNCHANGED vars
  BY <1>9 DEF Tick, vars
<1>. QED
  BY <1>1, <1>2, <1>3, <1>4, <1>5, <1>6, <1>7, <1>8, <1>9, <1>10 DEF Next, Turn

\* A worker learns of wakes and events from the journals, which only grow.
LEMMA JobsKnownStep ==
  ASSUME Base, [Next]_vars
  PROVE  JobsKnown'
<1>. USE RuntimeAssumption
     DEF RuntimeAssumption, Base, TypeOK, QueueTypeOK, JobsKnown, Enqueued, Goto, Idle,
         InTurn, queueVars, storeVars, Jobs
<1>0. NoJob \in Jobs
  BY DEF NoJob
<1>1. ASSUME NEW w \in Workers, Look(w) PROVE JobsKnown'
  <2>1. DueBatch(now) \in SUBSET Enqueued
    BY DEF DueBatch, DueBy, Open
  <2>2. /\ UNCHANGED <<wake, appended>> /\ pc'[w] \notin InTurn
        /\ \A u \in Workers : u # w => pc'[u] = pc[u] /\ job'[u] = job[u]
    BY <1>1 DEF Look
  <2>3. job'[w] = job[w] \/ job'[w] = [job[w] EXCEPT !.kind = "pending_events"]
          \/ job'[w] = [NoJob EXCEPT !.kind = "queued_wake", !.known = DueBatch(now)]
    BY <1>1 DEF Look
  <2>4. /\ job'[w].known \subseteq Enqueued /\ job'[w].taken \subseteq Enqueued
        /\ job'[w].seen \subseteq appended
    <3>1. CASE job'[w] = job[w] \/ job'[w] = [job[w] EXCEPT !.kind = "pending_events"]
      BY <3>1
    <3>2. CASE job'[w] = [NoJob EXCEPT !.kind = "queued_wake", !.known = DueBatch(now)]
      BY <2>1, <3>2 DEF NoJob
    <3>. QED
      BY <2>3, <3>1, <3>2
  <2>. QED
    BY <2>2, <2>4
<1>12. ASSUME NEW w \in Workers, Claim(w) PROVE JobsKnown'
  <2>1. /\ UNCHANGED <<wake, appended>> /\ pc'[w] \notin InTurn
        /\ \A u \in Workers : u # w => pc'[u] = pc[u] /\ job'[u] = job[u]
    BY <1>12 DEF Claim
  <2>2. job'[w] = job[w] \/ job'[w] = [job[w] EXCEPT !.known = {}]
    BY <1>12 DEF Claim
  <2>3. /\ job'[w].known \subseteq Enqueued /\ job'[w].taken \subseteq Enqueued
        /\ job'[w].seen \subseteq appended
    BY <2>2
  <2>. QED
    BY <2>1, <2>3
<1>2. ASSUME NEW w \in Workers, Snapshot(w) PROVE JobsKnown'
  <2>1. ToConsume(w) \in SUBSET Enqueued
    BY DEF ToConsume, DueBy, Open
  <2>. QED
    BY <1>2, <2>1 DEF Snapshot, ConsumeBegin
<1>3. ASSUME NEW w \in Workers, HarnessRead(w) PROVE JobsKnown'
  BY <1>3 DEF HarnessRead, Pending
<1>4. ASSUME NEW w \in Workers, ClearState(w) \/ Start(w) \/ Mark(w)
      PROVE  JobsKnown'
  BY <1>4 DEF ClearState, Start, Mark, UpdateSession, MarkBegin
<1>13. ASSUME NEW w \in Workers, Reply(w) \/ Fail(w) PROVE JobsKnown'
  <2>1. pc[w] = "model" /\ UNCHANGED <<wake, appended>>
    BY <1>13 DEF Reply, Fail
  <2>2. \A u \in Workers : /\ job'[u].known = job[u].known
                           /\ job'[u].taken = job[u].taken
                           /\ job'[u].seen = job[u].seen
                           /\ u # w => pc'[u] = pc[u]
    BY <1>13, ReplyJob
  <2>. QED
    BY <2>1, <2>2
<1>5. ASSUME NEW w \in Workers, Finish(w) \/ Defer(w) \/ FailUpdate(w) \/ Throw(w) \/ Return(w)
      PROVE  JobsKnown'
  BY <1>5 DEF Finish, Defer, FailUpdate, Throw, Return, Restores, UpdateSession, DeferRunnable
<1>6. ASSUME NEW w \in Workers, Enqueue(w) PROVE JobsKnown'
  <2>1. PICK r \in job[w].todo :
          EnqueueAppend(w, r) /\ job' = [job EXCEPT ![w].todo = job[w].todo \ {r}]
    BY <1>6 DEF Enqueue
  <2>2. r # NoWake
    BY WakeAssumption DEF WakeAssumption
  <2>3. Enqueued \subseteq Enqueued'
    BY <2>1, <2>2 DEF EnqueueAppend
  <2>. QED
    BY <1>6, <2>1, <2>3 DEF Enqueue
<1>7. ASSUME NEW w \in Workers, Release(w) \/ Crash(w) \/ Done(w)
      PROVE  JobsKnown'
  <2>1. /\ UNCHANGED <<wake, appended>> /\ pc'[w] \notin InTurn
        /\ \A u \in Workers : u # w => pc'[u] = pc[u] /\ job'[u] = job[u]
    BY <1>7 DEF Release, Crash, Done
  <2>2. job'[w].known = {} /\ job'[w].taken = {} /\ job'[w].seen = {}
    BY <1>7 DEF Release, Crash, Done, NoJob
  <2>. QED
    BY <2>1, <2>2
<1>14. ASSUME NEW w \in Workers, Reconcile(w) \/ Backoff(w) PROVE JobsKnown'
  BY <1>14 DEF Reconcile, Backoff, ReconcileRead, BackoffRead
<1>8. ASSUME NEW w \in Workers, QueueContinue(w) PROVE JobsKnown'
  BY <1>8 DEF QueueContinue, QueueStep, EnqueueSync, ConsumeOne, ConsumeSync
<1>9. ASSUME NEW c \in Clients, StoreContinue(c) PROVE JobsKnown'
  BY <1>9 DEF StoreContinue, CallStep, EmitAppend, EmitStatus, EmitIndex, MarkOne, MarkRefresh,
     BackoffWrite, ReconcileWrite
<1>10. ASSUME NEW c \in Clients \ Workers, Emit(c) PROVE JobsKnown'
  BY <1>10 DEF Emit, EmitCheck
<1>11. CASE Tick \/ UNCHANGED vars
  BY <1>11 DEF Tick, vars
<1>. QED
  BY <1>1, <1>2, <1>3, <1>4, <1>5, <1>6, <1>7, <1>8, <1>9, <1>10, <1>11,
     <1>12, <1>13, <1>14 DEF Next, Turn

\* Types, action by action
LEMMA StoreTypeStep ==
  ASSUME Base, [Next]_vars
  PROVE  StoreTypeOK'
<1>. USE StoreAssumption, RuntimeAssumption
     DEF StoreAssumption, RuntimeAssumption, Base, TypeOK, StoreTypeOK, Calls, NoCall, Begin, End,
         Locks, storeVars, Statuses
<1>1. ASSUME NEW w \in Workers, ClearState(w) PROVE StoreTypeOK'
  BY <1>1 DEF ClearState, UpdateSession
<1>2. ASSUME NEW w \in Workers, Start(w) \/ FailUpdate(w) PROVE StoreTypeOK'
  BY <1>2 DEF Start, FailUpdate, UpdateSession, WithStatus
<1>3. ASSUME NEW w \in Workers, Finish(w) PROVE StoreTypeOK'
  BY <1>3 DEF Finish, UpdateSession, Finished, Jobs
<1>4. ASSUME NEW w \in Workers, Mark(w) PROVE StoreTypeOK'
  BY <1>4 DEF Mark, MarkBegin, Jobs
<1>5. ASSUME NEW w \in Workers, Defer(w) PROVE StoreTypeOK'
  <2>1. StreakOf(index) \in Nat /\ Capped(now + RetryDelay) \in Nat
    BY CappedType DEF StreakOf
  <2>. QED
    BY <1>5, <2>1 DEF Defer, DeferRunnable, Entry
<1>6. ASSUME NEW w \in Workers, Reconcile(w) PROVE StoreTypeOK'
  BY <1>6 DEF Reconcile, ReconcileRead, Pending
<1>7. ASSUME NEW w \in Workers, Backoff(w) PROVE StoreTypeOK'
  <2>1. StreakOf(index) + 1 \in Nat
    BY DEF StreakOf
  <2>. QED
    BY <1>7, <2>1 DEF Backoff, BackoffRead
<1>8. ASSUME NEW w \in Workers, Crash(w) PROVE StoreTypeOK'
  BY <1>8 DEF Crash
<1>9. ASSUME NEW c \in Clients \ Workers, Emit(c) PROVE StoreTypeOK'
  BY <1>9 DEF Emit, EmitCheck
<1>10. ASSUME NEW c \in Clients, StoreContinue(c) PROVE StoreTypeOK'
  <2>1. CASE EmitAppend(c)
    BY <2>1 DEF EmitAppend
  <2>2. CASE EmitStatus(c)
    BY <2>2 DEF EmitStatus, WithStatus
  <2>3. CASE EmitIndex(c)
    BY <2>3 DEF EmitIndex, Entry
  <2>4. CASE MarkOne(c)
    <3>1. call[c].ids \subseteq appended
      BY <2>4 DEF MarkOne, StoreCalls, JobsKnown
    <3>. QED
      BY <2>4, <3>1 DEF MarkOne
  <2>5. CASE MarkRefresh(c)
    BY <2>5 DEF MarkRefresh, Refreshed, Entry
  <2>6. CASE BackoffWrite(c, now)
    <3>1. call[c].streak \in Nat
      BY <2>6 DEF BackoffWrite
    <3>2. now + Delay(call[c].streak) \in Nat
      BY <3>1, DelayType
    <3>. QED
      BY <2>6, <3>1, <3>2 DEF BackoffWrite, Entry
  <2>7. CASE ReconcileWrite(c)
    BY <2>7 DEF ReconcileWrite, Refreshed, Entry
  <2>. QED
    BY <1>10, <2>1, <2>2, <2>3, <2>4, <2>5, <2>6, <2>7 DEF StoreContinue, CallStep
<1>11. ASSUME NEW w \in Workers,
              Look(w) \/ Claim(w) \/ Snapshot(w) \/ HarnessRead(w) \/ Reply(w) \/ Fail(w)
                \/ Throw(w) \/ Return(w) \/ Enqueue(w) \/ Release(w) \/ Done(w) \/ QueueContinue(w)
       PROVE  StoreTypeOK'
  <2>1. UNCHANGED storeVars
    BY <1>11 DEF Look, Claim, Snapshot, HarnessRead, Reply, Fail, Throw, Return, Enqueue, Release,
       Done, QueueContinue
  <2>. QED
    BY <2>1
<1>12. CASE Tick \/ UNCHANGED vars
  BY <1>12 DEF Tick, vars
<1>. QED
  BY <1>1, <1>2, <1>3, <1>4, <1>5, <1>6, <1>7, <1>8, <1>9, <1>10, <1>11, <1>12 DEF Next, Turn

LEMMA QueueTypeStep ==
  ASSUME Base, [Next]_vars
  PROVE  QueueTypeOK'
<1>. USE RuntimeAssumption, WakeAssumption
     DEF RuntimeAssumption, WakeAssumption, Base, TypeOK, QueueTypeOK, QueueCalls, NoQueueCall,
         BeginQueue, EndQueue, queueVars
<1>1. ASSUME NEW w \in Workers, Look(w) PROVE QueueTypeOK'
  <2>1. nextDue' \in Nat \cup {NoDue}
    BY <1>1, ListDueType DEF Look
  <2>. QED
    BY <1>1, <2>1 DEF Look
<1>2. ASSUME NEW w \in Workers, Snapshot(w) PROVE QueueTypeOK'
  <2>1. ToConsume(w) \in SUBSET Wakes
    BY DEF ToConsume, DueBy, Open, JobsKnown, Enqueued
  <2>. QED
    BY <1>2, <2>1 DEF Snapshot, ConsumeBegin
<1>3. ASSUME NEW w \in Workers, Enqueue(w) PROVE QueueTypeOK'
  <2>1. PICK r \in job[w].todo : EnqueueAppend(w, r)
    BY <1>3 DEF Enqueue
  <2>2. r \in [intent : Intents, due : Nat, key : Keys \cup {NoKey}]
    BY DEF Jobs
  <2>3. Open \in SUBSET Wakes
    BY DEF Open
  <2>. QED
    BY <2>1, <2>2, <2>3 DEF EnqueueAppend
<1>4. ASSUME NEW w \in Workers, QueueContinue(w) PROVE QueueTypeOK'
  <2>1. CASE EnqueueSync(w)
    <3>1. wcall[w].known \in SUBSET Enqueued
      BY <2>1 DEF EnqueueSync, QueueCallsFit
    <3>2. Earliest(wcall[w].known) \in Nat \cup {NoDue}
      BY <3>1, EarliestIsFirst
    <3>. QED
      BY <2>1, <3>2 DEF EnqueueSync
  <2>2. CASE ConsumeOne(w)
    <3>1. wcall[w].left \subseteq Enqueued
      BY <2>2 DEF ConsumeOne, QueueCallsFit, JobsKnown
    <3>. QED
      BY <2>2, <3>1 DEF ConsumeOne, Enqueued
  <2>3. CASE ConsumeSync(w)
    <3>1. Earliest(Open) \in Nat \cup {NoDue}
      BY EarliestIsFirst DEF Open, Enqueued
    <3>. QED
      BY <2>3, <3>1 DEF ConsumeSync
  <2>. QED
    BY <1>4, <2>1, <2>2, <2>3 DEF QueueContinue, QueueStep
<1>5. ASSUME NEW w \in Workers, Crash(w) PROVE QueueTypeOK'
  BY <1>5 DEF Crash
<1>6. ASSUME NEW w \in Workers,
             Claim(w) \/ HarnessRead(w) \/ ClearState(w) \/ Start(w) \/ Reply(w) \/ Fail(w) \/ Mark(w)
               \/ Finish(w) \/ Defer(w) \/ FailUpdate(w) \/ Throw(w) \/ Return(w) \/ Release(w)
               \/ Reconcile(w) \/ Backoff(w) \/ Done(w)
      PROVE  QueueTypeOK'
  <2>1. UNCHANGED queueVars
    BY <1>6 DEF Claim, HarnessRead, ClearState, Start, Reply, Fail, Mark, Finish, Defer, FailUpdate,
       Throw, Return, Release, Reconcile, Backoff, Done
  <2>. QED
    BY <2>1
<1>7. ASSUME NEW c \in Clients, Emit(c) \/ StoreContinue(c) PROVE QueueTypeOK'
  BY <1>7 DEF Emit, StoreContinue
<1>8. CASE Tick \/ UNCHANGED vars
  BY <1>8 DEF Tick, vars
<1>. QED
  BY <1>1, <1>2, <1>3, <1>4, <1>5, <1>6, <1>7, <1>8 DEF Next, Turn

\* What a worker puts back, or has retried, are records of wakes.
LEMMA TodoTypes ==
  ASSUME Base, NEW w \in Workers
  PROVE  /\ Restored(w) \in Todos
         /\ pc[w] = "failed" => RetryWakes(w) \in Todos
<1>. USE RuntimeAssumption DEF RuntimeAssumption, Base, TypeOK
<1>1. ASSUME NEW v \in Enqueued
      PROVE  Record(wake[v].intent,
                    IF wake[v].due < now + ReplayDelay THEN now + ReplayDelay ELSE wake[v].due,
                    wake[v].key) \in [intent : Intents, due : Nat, key : Keys \cup {NoKey}]
  BY <1>1, WakeDue, CappedType DEF Record
<1>2. Restored(w) \in Todos
  BY <1>1 DEF Restored, Todos, JobsKnown
<1>3. CASE pc[w] = "failed" /\ job[w].end = "retryable" /\ job[w].seen = {}
  <2>1. job[w].taken \in SUBSET Enqueued /\ job[w].taken # {}
    BY <1>3 DEF JobsKnown, InTurn
  <2>2. First(job[w].taken) \in Enqueued
    BY <2>1, FirstIsOne
  <2>3. wake[First(job[w].taken)].intent \in Intents
    BY <2>2, WakeDue
  <2>. QED
    BY <1>2, <1>3, <2>3, CappedType DEF RetryWakes, Todos, Record
<1>. QED
  BY <1>2, <1>3 DEF RetryWakes, Todos

JobTypeOK == job \in [Workers -> Jobs] /\ pc \in [Workers -> Places]

LEMMA JobTypeStep ==
  ASSUME Base, [Next]_vars
  PROVE  JobTypeOK' /\ asked' \subseteq Requests
<1>. USE DEF JobTypeOK
<1>1. job \in [Workers -> Jobs] /\ pc \in [Workers -> Places] /\ asked \subseteq Requests
  BY DEF Base, TypeOK
<1>2. NoJob \in Jobs /\ \A e \in {"none", "ok", "confirm", "retryable", "fatal", "throw"} :
                          [NoJob EXCEPT !.end = e] \in Jobs
  BY DEF NoJob, Jobs
<1>3. ASSUME NEW w \in Workers, Look(w) PROVE JobTypeOK'
  <2>1. DueBatch(now) \in SUBSET Wakes
    BY DEF DueBatch, DueBy, Open
  <2>2. [NoJob EXCEPT !.kind = "queued_wake", !.known = DueBatch(now)] \in Jobs
    BY <2>1 DEF NoJob, Jobs
  <2>3. [job[w] EXCEPT !.kind = "pending_events"] \in Jobs
    BY <1>1 DEF Jobs
  <2>. QED
    BY <1>1, <1>3, <2>2, <2>3 DEF Look, Goto, Places
<1>4. ASSUME NEW w \in Workers
      PROVE  /\ \A e \in SUBSET Events : [job EXCEPT ![w].seen = e] \in [Workers -> Jobs]
             /\ \A t \in Todos : [job EXCEPT ![w].todo = t] \in [Workers -> Jobs]
  BY <1>1 DEF Jobs, Todos
<1>5. ASSUME NEW w \in Workers, Claim(w) PROVE JobTypeOK'
  <2>1. job' = job \/ job' = [job EXCEPT ![w].known = {}]
    BY <1>5 DEF Claim
  <2>2. job' \in [Workers -> Jobs]
    <3>1. [job EXCEPT ![w].known = {}] \in [Workers -> Jobs]
      BY <1>1 DEF Jobs
    <3>. QED
      BY <1>1, <2>1, <3>1
  <2>. QED
    BY <1>1, <1>5, <2>2 DEF Claim, Goto, Places
<1>6. ASSUME NEW w \in Workers, Snapshot(w) PROVE JobTypeOK'
  <2>1. ToConsume(w) \in SUBSET Wakes
    BY DEF ToConsume, DueBy, Open, Base, JobsKnown, Enqueued
  <2>2. job' = job \/ job' = [job EXCEPT ![w].taken = ToConsume(w)]
    BY <1>6 DEF Snapshot
  <2>3. job' \in [Workers -> Jobs]
    <3>1. [job EXCEPT ![w].taken = ToConsume(w)] \in [Workers -> Jobs]
      BY <1>1, <2>1 DEF Jobs
    <3>. QED
      BY <1>1, <2>2, <3>1
  <2>. QED
    BY <1>1, <1>6, <2>3 DEF Snapshot, Goto, Places
<1>7. ASSUME NEW w \in Workers, HarnessRead(w) PROVE JobTypeOK'
  <2>1. Pending \in SUBSET Events
    BY DEF Pending, Base, TypeOK, StoreTypeOK
  <2>. QED
    BY <1>1, <1>4, <1>7, <2>1 DEF HarnessRead, Goto, Places, Todos
<1>8. ASSUME NEW w \in Workers, Reply(w) \/ Fail(w)
      PROVE  JobTypeOK' /\ asked' \subseteq Requests
  BY <1>1, <1>8, ReplyJob DEF Base, Places
<1>9. ASSUME NEW w \in Workers, FailUpdate(w) PROVE JobTypeOK'
  BY <1>1, <1>4, <1>9, TodoTypes DEF FailUpdate, Goto, Places
<1>10. ASSUME NEW w \in Workers, Throw(w) \/ Return(w) PROVE JobTypeOK'
  <2>1. [job[w] EXCEPT !.todo = Restored(w), !.end = "throw"] \in Jobs
    BY <1>1, TodoTypes DEF Jobs, Todos
  <2>2. job' = job \/ job' = [job EXCEPT ![w] = [job[w] EXCEPT !.todo = Restored(w), !.end = "throw"]]
    BY <1>1, <1>10 DEF Throw, Return, Restores
  <2>. QED
    BY <1>1, <1>10, <2>1, <2>2 DEF Throw, Return, Restores, Goto, Places
<1>11. ASSUME NEW w \in Workers, Enqueue(w) PROVE JobTypeOK'
  <2>1. job[w].todo \in Todos
    BY <1>1 DEF Jobs, Todos
  <2>2. \A r \in job[w].todo : job[w].todo \ {r} \in Todos
    BY <2>1 DEF Todos
  <2>. QED
    <3>1. PICK r \in job[w].todo : job' = [job EXCEPT ![w].todo = job[w].todo \ {r}]
      BY <1>11 DEF Enqueue
    <3>2. job' \in [Workers -> Jobs]
      BY <1>4, <2>2, <3>1
    <3>. QED
      BY <1>1, <1>11, <3>2 DEF Enqueue
<1>12. ASSUME NEW w \in Workers, Release(w) \/ Crash(w) \/ Done(w) PROVE JobTypeOK'
  <2>1. job[w].end \in {"none", "ok", "confirm", "retryable", "fatal", "throw"}
    BY <1>1 DEF Jobs
  <2>. QED
    BY <1>1, <1>2, <1>12, <2>1 DEF Release, Crash, Done, Goto, Places
<1>13. ASSUME NEW w \in Workers,
              ClearState(w) \/ Start(w) \/ Mark(w) \/ Finish(w) \/ Defer(w) \/ Reconcile(w)
                \/ Backoff(w)
       PROVE  JobTypeOK'
  BY <1>1, <1>13 DEF ClearState, Start, Mark, Finish, Defer, Reconcile, Backoff, Goto, Places
<1>14. ASSUME NEW w \in Workers, QueueContinue(w) PROVE JobTypeOK'
  BY <1>1, <1>14 DEF QueueContinue
<1>15. ASSUME NEW c \in Clients, Emit(c) \/ StoreContinue(c) PROVE JobTypeOK'
  BY <1>1, <1>15 DEF Emit, StoreContinue
<1>16. CASE Tick \/ UNCHANGED vars
  BY <1>1, <1>16 DEF Tick, vars
<1>17. JobTypeOK'
  BY <1>3, <1>5, <1>6, <1>7, <1>8, <1>9, <1>10, <1>11, <1>12, <1>13, <1>14, <1>15,
     <1>16, RuntimeAssumption DEF Next, Turn, RuntimeAssumption
<1>18. asked' \subseteq Requests
  <2>1. ASSUME NEW w \in Workers, Turn(w) \/ Crash(w), ~ Reply(w), ~ Fail(w) PROVE asked' = asked
    BY <2>1 DEF Turn, Look, Claim, Snapshot, HarnessRead, ClearState, Start, Mark, Finish, Defer,
       FailUpdate, Throw, Return, Enqueue, Release, Reconcile, Backoff, Done, StoreContinue,
       QueueContinue, Crash
  <2>2. ASSUME NEW c \in Clients, Emit(c) \/ StoreContinue(c) PROVE asked' = asked
    BY <2>2 DEF Emit, StoreContinue
  <2>3. CASE Tick \/ UNCHANGED vars
    BY <1>1, <2>3 DEF Tick, vars
  <2>. QED
    BY <1>1, <1>8, <2>1, <2>2, <2>3 DEF Next
<1>. QED
  BY <1>17, <1>18

\* The clock, the lease and the histories
LEMMA RestTypeStep ==
  ASSUME Base, [Next]_vars
  PROVE  /\ now' \in 0..MaxTime /\ lease' \in Workers \cup {None}
         /\ handled' \subseteq Events \cup Wakes /\ repeated' \subseteq handled'
         /\ owed' \subseteq Intents /\ thrown' \in 0..MaxStreak
<1>. USE StoreAssumption, RuntimeAssumption
     DEF StoreAssumption, RuntimeAssumption, Base, TypeOK, history
<1>1. ASSUME NEW w \in Workers, Finish(w)
      PROVE  /\ handled' \subseteq Events \cup Wakes /\ repeated' \subseteq handled'
             /\ owed' \subseteq Intents /\ thrown' \in 0..MaxStreak
             /\ now' = now /\ lease' = lease
  <2>1. job[w].seen \subseteq Events /\ job[w].taken \subseteq Wakes /\ job[w].todo \in Todos
    BY DEF Jobs, Todos
  <2>2. {wake[v].intent : v \in job[w].taken} \subseteq Intents
    BY WakeDue DEF JobsKnown
  <2>3. {r.intent : r \in job[w].todo} \subseteq Intents
    BY <2>1 DEF Todos
  <2>. QED
    BY <1>1, <2>1, <2>2, <2>3 DEF Finish
<1>2. ASSUME NEW w \in Workers, Snapshot(w)
      PROVE  /\ UNCHANGED <<now, lease, handled, repeated, thrown>> /\ owed' \subseteq owed
  BY <1>2 DEF Snapshot
<1>3. ASSUME NEW w \in Workers, Throw(w) \/ Return(w)
      PROVE  UNCHANGED <<now, lease, handled, repeated, owed>> /\ thrown' \in 0..MaxStreak
  BY <1>3 DEF Throw, Return, Restores
<1>4. ASSUME NEW c \in Clients, StoreContinue(c)
      PROVE  UNCHANGED <<now, lease, handled, repeated, owed>> /\ thrown' \in 0..MaxStreak
  BY <1>4 DEF StoreContinue
<1>5. ASSUME NEW w \in Workers,
             Look(w) \/ Claim(w) \/ HarnessRead(w) \/ ClearState(w) \/ Start(w) \/ Reply(w) \/ Fail(w)
               \/ Mark(w) \/ Defer(w) \/ FailUpdate(w) \/ Enqueue(w) \/ Release(w) \/ Reconcile(w)
               \/ Backoff(w) \/ Done(w) \/ QueueContinue(w) \/ Crash(w)
      PROVE  UNCHANGED <<now, history>> /\ lease' \in {lease, w, None}
  BY <1>5 DEF Look, Claim, HarnessRead, ClearState, Start, Reply, Fail, Mark, Defer, FailUpdate,
     Enqueue, Release, Reconcile, Backoff, Done, QueueContinue, Crash
<1>6. ASSUME NEW c \in Clients, Emit(c) PROVE UNCHANGED <<now, lease, history>>
  BY <1>6 DEF Emit
<1>7. CASE Tick
  BY <1>7 DEF Tick
<1>8. CASE UNCHANGED vars
  BY <1>8 DEF vars
<1>. QED
  BY <1>1, <1>2, <1>3, <1>4, <1>5, <1>6, <1>7, <1>8 DEF Next, Turn

LEMMA BaseStep == Base /\ [Next]_vars => Base'
  BY HolderStep, StoreCallsStep, QueueCallsStep, JobsKnownStep, StoreTypeStep, QueueTypeStep,
     JobTypeStep, RestTypeStep DEF Base, TypeOK, JobTypeOK

\* Every variable keeps its type; in particular an index entry is a time or
\* absent, and what a worker carries are events, wakes and records of wakes.
THEOREM TypeCorrect == Spec => []TypeOK
<1>1. Base => TypeOK
  BY DEF Base
<1>. QED
  BY <1>1, InitBase, BaseStep, PTL DEF Spec

LEMMA BaseInvariant == Spec => []Base
  BY InitBase, BaseStep, PTL DEF Spec

-----------------------------------------------------------------------------
(* No event goes through two completed turns *)

\* the markers that the turn of w has still to write
ToMark(w) == IF call[w].op = "mark" THEN call[w].ids ELSE {}

\* The events of completed turns are marked; those of a turn under way are new,
\* and when the turn is about to complete all of them are marked.
HandledMarked ==
  /\ handled \cap Events \subseteq processed
  /\ \A w \in Workers :
       /\ pc[w] \in InTurn => job[w].seen \cap handled = {}
       /\ pc[w] = "finish" => job[w].seen \subseteq processed \cup ToMark(w)

LEMMA HandledStep ==
  ASSUME Base, HandledMarked, [Next]_vars
  PROVE  HandledMarked'
<1>. USE RuntimeAssumption
     DEF RuntimeAssumption, Base, TypeOK, StoreTypeOK, HandledMarked, InTurn, Leased, ToMark, Goto,
         Idle, storeVars, history
<1>1. ASSUME NEW w \in Workers, Look(w) \/ Claim(w) \/ Snapshot(w)
      PROVE  HandledMarked'
  BY <1>1 DEF Look, Claim, Snapshot, Jobs
<1>2. ASSUME NEW w \in Workers, HarnessRead(w) PROVE HandledMarked'
  <2>1. job'[w].seen = Pending /\ \A u \in Workers : u # w => job'[u] = job[u] /\ pc'[u] = pc[u]
    BY <1>2 DEF HarnessRead, Jobs
  <2>2. Pending \cap handled = {}
    BY DEF Pending
  <2>3. pc'[w] \in {"enqueue", "clear", "start"} /\ UNCHANGED <<processed, handled, call>>
    BY <1>2 DEF HarnessRead
  <2>. QED
    BY <2>1, <2>2, <2>3
<1>3. ASSUME NEW w \in Workers, ClearState(w) \/ Start(w) PROVE HandledMarked'
  BY <1>3 DEF ClearState, Start, UpdateSession
<1>4. ASSUME NEW w \in Workers, Reply(w) \/ Fail(w) PROVE HandledMarked'
  <2>1. \A u \in Workers : job'[u].seen = job[u].seen /\ (u # w => pc'[u] = pc[u])
    BY <1>4, ReplyJob
  <2>2. pc[w] = "model" /\ UNCHANGED <<processed, handled, call>>
    BY <1>4 DEF Reply, Fail
  <2>3. pc'[w] = "finish" => job[w].seen = {}
    BY <1>4 DEF Reply, Fail, Ends
  <2>. QED
    BY <2>1, <2>2, <2>3
<1>5. ASSUME NEW w \in Workers, Mark(w) PROVE HandledMarked'
  <2>1. /\ UNCHANGED <<job, processed, handled>> /\ pc[w] = "mark"
        /\ pc' = [pc EXCEPT ![w] = "finish"]
        /\ call' = [call EXCEPT ![w] = [op |-> "mark", ids |-> job[w].seen]]
    BY <1>5 DEF Mark, MarkBegin, Begin
  <2>2. ToMark(w)' = job[w].seen /\ \A u \in Workers : u # w => ToMark(u)' = ToMark(u)
    BY <2>1
  <2>. HIDE DEF ToMark
  <2>. QED
    BY <2>1, <2>2
<1>6. ASSUME NEW w \in Workers, Finish(w) PROVE HandledMarked'
  <2>1. job[w].seen \subseteq processed
    BY <1>6 DEF Finish, NoCall
  <2>2. job[w].taken \cap Events = {}
    BY DEF Jobs
  <2>3. \A u \in Workers : u # w => pc[u] \notin InTurn
    BY <1>6 DEF Finish, HolderWorks
  <2>. QED
    BY <1>6, <2>1, <2>2, <2>3 DEF Finish, UpdateSession
<1>7. ASSUME NEW w \in Workers, Defer(w) \/ FailUpdate(w) PROVE HandledMarked'
  BY <1>7 DEF Defer, FailUpdate, DeferRunnable, UpdateSession, Jobs
<1>8. ASSUME NEW w \in Workers, Throw(w) \/ Return(w) PROVE HandledMarked'
  BY <1>8 DEF Throw, Return, Restores, Jobs
<1>9. ASSUME NEW w \in Workers, Enqueue(w) \/ Release(w) \/ Crash(w) PROVE HandledMarked'
  BY <1>9 DEF Enqueue, Release, Crash, End, Jobs
<1>10. ASSUME NEW w \in Workers,  Reconcile(w) \/ Backoff(w) \/ Done(w) PROVE HandledMarked'
  BY <1>10 DEF Reconcile, Backoff, Done, ReconcileRead, BackoffRead, Begin
<1>11. ASSUME NEW w \in Workers, QueueContinue(w) PROVE HandledMarked'
  BY <1>11 DEF QueueContinue
<1>12. ASSUME NEW c \in Clients, StoreContinue(c) PROVE HandledMarked'
  <2>1. UNCHANGED <<pc, job, handled>> /\ processed \subseteq processed'
    BY <1>12 DEF StoreContinue, CallStep, EmitAppend, EmitStatus, EmitIndex, MarkOne, MarkRefresh,
       BackoffWrite, ReconcileWrite
  <2>2. \A w \in Workers : processed \cup ToMark(w) \subseteq (processed \cup ToMark(w))'
    BY <1>12 DEF StoreContinue, CallStep, EmitAppend, EmitStatus, EmitIndex, MarkOne, MarkRefresh,
       BackoffWrite, ReconcileWrite, Begin, End, Calls
  <2>. QED
    BY <2>1, <2>2
<1>13. ASSUME NEW c \in Clients \ Workers, Emit(c) PROVE HandledMarked'
  BY <1>13 DEF Emit, EmitCheck, Begin
<1>14. CASE Tick \/ UNCHANGED vars
  BY <1>14 DEF Tick, vars
<1>. QED
  BY <1>1, <1>2, <1>3, <1>4, <1>5, <1>6, <1>7, <1>8, <1>9, <1>10, <1>11, <1>12, <1>13, <1>14
     DEF Next, Turn

\* The work of a turn is done once: whoever finds the session ready, claims it
\* late, is blocked, dies in the middle or fails and retries, no event goes
\* through a second completed turn (wakeSessionOnce, AgentHarness.run).
THEOREM EventsOnce == Spec => []EventOnce
<1>1. Init => HandledMarked /\ EventOnce
  BY DEF Init, HandledMarked, EventOnce, InTurn
<1>2. Base /\ HandledMarked /\ EventOnce /\ [Next]_vars => EventOnce'
  <2>. SUFFICES ASSUME Base, HandledMarked, EventOnce, [Next]_vars PROVE EventOnce'
    OBVIOUS
  <2>1. ASSUME NEW w \in Workers, Finish(w) PROVE EventOnce'
    BY <2>1, RuntimeAssumption
       DEF Finish, EventOnce, HandledMarked, InTurn, RuntimeAssumption, Base, TypeOK, Jobs
  <2>2. CASE UNCHANGED repeated
    BY <2>2 DEF EventOnce
  <2>3. ASSUME NEW w \in Workers, Turn(w) \/ Crash(w), ~ Finish(w) PROVE UNCHANGED repeated
    BY <2>3 DEF Turn, Look, Claim, Snapshot, HarnessRead, ClearState, Start, Mark, Defer, Reply, Fail,
       FailUpdate, Throw, Return, Enqueue, Release, Reconcile, Backoff, Done, StoreContinue,
       QueueContinue, Crash, history
  <2>4. ASSUME NEW c \in Clients, Emit(c) \/ StoreContinue(c) PROVE UNCHANGED repeated
    BY <2>4 DEF Emit, StoreContinue, history
  <2>5. CASE Tick \/ UNCHANGED vars
    BY <2>2, <2>5 DEF Tick, vars, history
  <2>. QED
    BY <2>1, <2>2, <2>3, <2>4, <2>5 DEF Next
<1>. QED
  BY <1>1, <1>2, HandledStep, BaseInvariant, PTL DEF Spec

-----------------------------------------------------------------------------
(* No answered request stays pending *)

Asking == {session.confirm, session.custom}

\* the answers in the journal, and those that emitEvent has admitted to it
Admitted ==
  {e \in Answers : e \in appended \/ \E c \in Clients : call[c] = [op |-> "append", event |-> e]}

\* Only requests that were raised are pending or answered.
OnlyAsked ==
  /\ Asking \subseteq asked \cup {None}
  /\ \A e \in Admitted : RequestOf[e] \in asked
  /\ \A w \in Workers : job[w].request \in asked \cup {None}

\* The request a turn is about to raise is new: nobody can have answered it.
RequestIsNew ==
  \A w \in Workers : pc[w] \in {"mark", "finish"} /\ job[w].request # None =>
    /\ job[w].request \notin Asking
    /\ \A e \in Admitted : RequestOf[e] # job[w].request

\* An answer that is marked leaves no request behind, once the turn that handles
\* it has written the session back.
AnswersClear ==
  \A e \in processed \cap Answers :
    RequestOf[e] \in Asking => \E w \in Workers : pc[w] = "finish" /\ e \in job[w].seen

RequestInv == OnlyAsked /\ RequestIsNew /\ AnswersClear

\* An answer is admitted only to a pending request.
LEMMA AdmittedStep ==
  ASSUME Base, [Next]_vars
  PROVE  \A e \in Admitted' : e \in Admitted \/ RequestOf[e] \in Asking
<1>. USE DEF Admitted
<1>1. ASSUME NEW c \in Clients, Emit(c)
      PROVE  \A e \in Admitted' : e \in Admitted \/ RequestOf[e] \in Asking
  BY <1>1 DEF Emit, EmitCheck, Admissible, Asking, Begin, Base, TypeOK, StoreTypeOK
<1>2. ASSUME NEW c \in Clients, StoreContinue(c) PROVE Admitted' \subseteq Admitted
  <2>1. CASE EmitAppend(c)
    <3>1. call[c] = [op |-> "append", event |-> call[c].event]
      BY <2>1 DEF EmitAppend, Base, TypeOK, StoreTypeOK, Calls, NoCall
    <3>. QED
      BY <2>1, <3>1 DEF EmitAppend, Begin, Base, TypeOK, StoreTypeOK
  <2>2. CASE ~ EmitAppend(c)
    BY <1>2, <2>2 DEF StoreContinue, CallStep, EmitStatus, EmitIndex, MarkOne, MarkRefresh,
       BackoffWrite, ReconcileWrite, Begin, End, NoCall, Base, TypeOK, StoreTypeOK
  <2>. QED
    BY <2>1, <2>2
<1>3. ASSUME NEW w \in Workers, Mark(w) \/ Reconcile(w) \/ Backoff(w) \/ Crash(w)
      PROVE  Admitted' \subseteq Admitted
  BY <1>3, RuntimeAssumption
     DEF Mark, MarkBegin, Reconcile, ReconcileRead, Backoff, BackoffRead, Crash, Begin, End, NoCall,
         Base, TypeOK, StoreTypeOK, RuntimeAssumption
<1>4. ASSUME NEW w \in Workers,
             Look(w) \/ Claim(w) \/ Snapshot(w) \/ HarnessRead(w) \/ ClearState(w) \/ Start(w)
               \/ Reply(w) \/ Fail(w) \/ Finish(w) \/ Defer(w) \/ FailUpdate(w) \/ Throw(w)
               \/ Return(w) \/ Enqueue(w) \/ Release(w) \/ Done(w) \/ QueueContinue(w)
      PROVE  UNCHANGED <<appended, call>>
  BY <1>4 DEF Look, Claim, Snapshot, HarnessRead, ClearState, Start, Reply, Fail, Finish, Defer,
     FailUpdate, Throw, Return, Enqueue, Release, Done, QueueContinue, UpdateSession, DeferRunnable,
     storeVars
<1>5. CASE Tick \/ UNCHANGED vars
  BY <1>5 DEF Tick, vars, storeVars
<1>6. CASE UNCHANGED <<appended, call>>
  BY <1>6
<1>. QED
  BY <1>1, <1>2, <1>3, <1>4, <1>5, <1>6, RuntimeAssumption DEF Next, Turn, RuntimeAssumption

\* A step that raises nothing, writes no new request into the session and marks
\* only what a finishing turn has seen
LEMMA QuietRequests ==
  ASSUME Base, RequestInv, [Next]_vars,
         asked' = asked, Asking' \subseteq Asking \cup {None},
         \A w \in Workers :
           /\ job'[w].request \in {job[w].request, None}
           /\ pc'[w] \in {"mark", "finish"} => pc[w] \in {"mark", "finish"}
           /\ pc[w] = "finish" => pc'[w] = "finish" /\ job'[w].seen = job[w].seen,
         \A e \in processed' \ processed : \E w \in Workers : pc[w] = "finish" /\ e \in job[w].seen
  PROVE  RequestInv'
<1>. USE StoreAssumption, AdmittedStep DEF StoreAssumption, RequestInv
<1>0. \A e \in Answers : RequestOf[e] \in Requests /\ RequestOf[e] # None
  OBVIOUS
<1>1. OnlyAsked'
  BY <1>0 DEF OnlyAsked, Admitted
<1>2. RequestIsNew'
  BY <1>0 DEF RequestIsNew
<1>3. AnswersClear'
  BY <1>0 DEF AnswersClear
<1>. QED
  BY <1>1, <1>2, <1>3

LEMMA FinishRequests ==
  ASSUME Base, RequestInv, NEW w \in Workers, Finish(w)
  PROVE  RequestInv'
<1>. USE StoreAssumption, RuntimeAssumption
     DEF StoreAssumption, RuntimeAssumption, Base, TypeOK, StoreTypeOK
<1>0. /\ pc[w] = "finish" /\ pc' = [pc EXCEPT ![w] = "return"]
      /\ session' = Finished(w) /\ UNCHANGED <<appended, processed, call, job, asked>>
  BY DEF Finish, UpdateSession, Goto
<1>1. Admitted' = Admitted
  BY <1>0 DEF Admitted
<1>2. Asking' \subseteq Asking \cup {None, job[w].request}
  BY <1>0 DEF Asking, Finished
<1>3. \A u \in Workers : u # w => pc[u] \notin {"mark", "finish"}
  BY <1>0 DEF HolderWorks, Leased, InTurn
<1>4. OnlyAsked'
  BY <1>0, <1>1, <1>2 DEF RequestInv, OnlyAsked
<1>5. RequestIsNew'
  BY <1>0, <1>3 DEF RequestIsNew
<1>6. ASSUME NEW e \in processed \cap Answers PROVE RequestOf[e] \notin Asking'
  <2>1. e \in Admitted /\ RequestOf[e] # None
    BY DEF Admitted
  <2>2. RequestOf[e] # job[w].request
    BY <1>0, <2>1 DEF RequestInv, RequestIsNew
  <2>3. CASE e \in job[w].seen
    <3>1. RequestOf[e] = session.confirm => Answered(w)
      BY <2>3 DEF Answered
    <3>2. session'.custom \in {None, job[w].request}
      BY <1>0 DEF Finished
    <3>3. session'.confirm # RequestOf[e]
      BY <1>0, <2>1, <2>2, <3>1 DEF Finished
    <3>. QED
      BY <2>1, <2>2, <3>2, <3>3 DEF Asking
  <2>4. CASE e \notin job[w].seen
    <3>1. RequestOf[e] \notin Asking
      BY <1>0, <1>3, <2>4 DEF RequestInv, AnswersClear
    <3>. QED
      BY <1>2, <2>1, <2>2, <3>1
  <2>. QED
    BY <2>3, <2>4
<1>7. AnswersClear'
  BY <1>0, <1>6 DEF AnswersClear
<1>. QED
  BY <1>4, <1>5, <1>7 DEF RequestInv

LEMMA ReplyRequests ==
  ASSUME Base, RequestInv, NEW w \in Workers, Reply(w) \/ Fail(w)
  PROVE  RequestInv'
<1>. USE StoreAssumption, RuntimeAssumption
     DEF StoreAssumption, RuntimeAssumption, Base, TypeOK, StoreTypeOK
<1>0. pc[w] = "model" /\ UNCHANGED <<appended, processed, call, session>>
  BY DEF Reply, Fail, storeVars
<1>1. Admitted' = Admitted /\ Asking' = Asking
  BY <1>0 DEF Admitted, Asking
<1>2. PICK request \in (Requests \ asked) \cup {None} :
        job'[w].request = request /\ asked' = asked \cup ({request} \ {None})
  <2>1. {} \in Todos
    BY DEF Todos
  <2>2. \A i \in Intents, due \in {now, Capped(now + 1)} : {Record(i, due, KeyOf[i])} \in Todos
    BY CappedType DEF Record, Todos
  <2>3. ASSUME NEW end \in {"ok", "confirm", "retryable", "fatal"},
               NEW r \in Requests \cup {None}, NEW t \in Todos, Ends(w, end, r, t)
        PROVE  job'[w].request = r /\ asked' = asked \cup ({r} \ {None})
    BY <2>3, EndsJob
  <2>. QED
    BY <2>1, <2>2, <2>3 DEF Reply, Fail
<1>3. \A u \in Workers : job'[u].seen = job[u].seen /\ (u # w => job'[u] = job[u] /\ pc'[u] = pc[u])
  BY ReplyJob
<1>4. OnlyAsked'
  BY <1>1, <1>2, <1>3 DEF RequestInv, OnlyAsked
<1>5. RequestIsNew'
  <2>1. \A e \in Admitted : RequestOf[e] # request
    BY <1>2 DEF RequestInv, OnlyAsked, Admitted
  <2>2. request # None => request \notin Asking
    BY <1>2 DEF RequestInv, OnlyAsked
  <2>. QED
    BY <1>1, <1>2, <1>3, <2>1, <2>2 DEF RequestInv, RequestIsNew
<1>6. AnswersClear'
  BY <1>0, <1>1, <1>3 DEF RequestInv, AnswersClear
<1>. QED
  BY <1>4, <1>5, <1>6 DEF RequestInv

LEMMA RequestStep ==
  ASSUME Base, RequestInv, [Next]_vars, "finish" \notin CrashAt
  PROVE  RequestInv'
<1>. USE RuntimeAssumption
     DEF RuntimeAssumption, Base, TypeOK, StoreTypeOK, Goto, storeVars, Asking
<1>1. ASSUME NEW w \in Workers, Look(w) \/ Claim(w) \/ Snapshot(w) \/ HarnessRead(w)
      PROVE  RequestInv'
  <2>1. \A u \in Workers : u # w => job'[u] = job[u]
    BY <1>1 DEF Look, Claim, Snapshot, HarnessRead
  <2>2. job'[w].request \in {job[w].request, None}
    <3>1. CASE Look(w)
      <4>1. \/ job'[w] = job[w] \/ job'[w] = [job[w] EXCEPT !.kind = "pending_events"]
            \/ job'[w] = [NoJob EXCEPT !.kind = "queued_wake", !.known = DueBatch(now)]
        BY <3>1 DEF Look
      <4>2. [NoJob EXCEPT !.kind = "queued_wake", !.known = DueBatch(now)].request = None
        BY DEF NoJob
      <4>3. [job[w] EXCEPT !.kind = "pending_events"].request = job[w].request
        BY DEF Jobs
      <4>. QED
        BY <4>1, <4>2, <4>3
    <3>2. CASE ~ Look(w)
      BY <1>1, <3>2 DEF Claim, Snapshot, HarnessRead, Jobs
    <3>. QED
      BY <3>1, <3>2
  <2>. QED
    BY <1>1, <2>1, <2>2, QuietRequests DEF Look, Claim, Snapshot, HarnessRead
<1>2. ASSUME NEW w \in Workers, ClearState(w) \/ Start(w) \/ Mark(w) \/ Defer(w) PROVE RequestInv'
  BY <1>2, QuietRequests
     DEF ClearState, Start, Mark, Defer, UpdateSession, WithStatus, MarkBegin, DeferRunnable
<1>3. ASSUME NEW w \in Workers, FailUpdate(w) \/ Throw(w) \/ Return(w) \/ Enqueue(w)
      PROVE  RequestInv'
  <2>1. job'[w].request = job[w].request /\ \A u \in Workers : u # w => job'[u] = job[u]
    BY <1>3 DEF FailUpdate, Throw, Return, Enqueue, Restores, Jobs
  <2>. QED
    BY <1>3, <2>1, QuietRequests
       DEF FailUpdate, Throw, Return, Enqueue, Restores, UpdateSession, WithStatus
<1>4. ASSUME NEW w \in Workers, Release(w) \/ Crash(w) \/ Done(w) PROVE RequestInv'
  <2>1. job'[w].request = None /\ \A u \in Workers : u # w => job'[u] = job[u]
    BY <1>4 DEF Release, Crash, Done, NoJob
  <2>2. pc[w] # "finish"
    BY <1>4 DEF Release, Crash, Done
  <2>. QED
    BY <1>4, <2>1, <2>2, QuietRequests DEF Release, Crash, Done
<1>5. ASSUME NEW w \in Workers, Reconcile(w) \/ Backoff(w) \/ QueueContinue(w) PROVE RequestInv'
  BY <1>5, QuietRequests DEF Reconcile, Backoff, QueueContinue, ReconcileRead, BackoffRead
<1>6. ASSUME NEW c \in Clients, StoreContinue(c) PROVE RequestInv'
  <2>1. UNCHANGED <<pc, job, asked>>
    BY <1>6 DEF StoreContinue
  <2>2. Asking' \subseteq Asking \cup {None}
    BY <1>6 DEF StoreContinue, CallStep, EmitAppend, EmitStatus, EmitIndex, MarkOne, MarkRefresh,
       BackoffWrite, ReconcileWrite, WithStatus
  <2>3. \A e \in processed' \ processed : \E w \in Workers : pc[w] = "finish" /\ e \in job[w].seen
    <3>1. CASE MarkOne(c)
      BY <3>1 DEF MarkOne, StoreCalls
    <3>2. CASE ~ MarkOne(c)
      BY <1>6, <3>2 DEF StoreContinue, CallStep, EmitAppend, EmitStatus, EmitIndex, MarkRefresh,
         BackoffWrite, ReconcileWrite
    <3>. QED
      BY <3>1, <3>2
  <2>. QED
    BY <2>1, <2>2, <2>3, QuietRequests
<1>7. ASSUME NEW c \in Clients \ Workers, Emit(c) PROVE RequestInv'
  BY <1>7, QuietRequests DEF Emit, EmitCheck
<1>8. CASE Tick \/ UNCHANGED vars
  BY <1>8, QuietRequests DEF Tick, vars
<1>. QED
  BY <1>1, <1>2, <1>3, <1>4, <1>5, <1>6, <1>7, <1>8, FinishRequests, ReplyRequests DEF Next, Turn

\* An answered request does not block the session: while no turn is running, no
\* answer that is marked processed names a request that is still pending, unless a
\* worker may die between markProcessed and updateSession (AgentHarness.run).
THEOREM AnsweredIsNotPending ==
  ASSUME "finish" \notin CrashAt
  PROVE  Spec => []NoStrandedRequest
<1>1. Init => RequestInv
  BY StoreAssumption
     DEF Init, StoreInit, RequestInv, OnlyAsked, RequestIsNew, AnswersClear, Asking, Admitted, NoJob,
         NoCall
<1>2. Base /\ RequestInv => NoStrandedRequest
  <2>. SUFFICES ASSUME Base, RequestInv, lease = None,
                       NEW e \in processed \cap Answers, RequestOf[e] \in Asking
                PROVE  FALSE
    BY DEF NoStrandedRequest, Asking
  <2>1. PICK w \in Workers : pc[w] = "finish"
    BY DEF RequestInv, AnswersClear
  <2>. QED
    BY <2>1, StoreAssumption, RuntimeAssumption
       DEF Base, HolderWorks, Leased, InTurn, StoreAssumption, RuntimeAssumption
<1>3. Base /\ RequestInv /\ [Next]_vars => RequestInv'
  BY RequestStep
<1>. QED
  BY <1>1, <1>2, <1>3, BaseInvariant, PTL DEF Spec

-----------------------------------------------------------------------------
(* Delayed work is never forgotten *)

Covered == \A v \in Open : nextDue # NoDue /\ nextDue <= wake[v].due

Enqueuing == {w \in Workers : wcall[w].op = "enqueue"}

\* The index covers the open wakes, except while a new one is being indexed; then
\* the call that does so knows all of them, for only the leased worker changes
\* which wakes are open.
IndexCovers ==
  /\ Enqueuing = {} => Covered
  /\ \A w \in Enqueuing : wcall[w].known = Open

LEMMA EarliestCovers ==
  ASSUME Base, nextDue' = Earliest(Open), UNCHANGED wake, Open' \subseteq Open
  PROVE  Covered'
<1>1. Open \in SUBSET Enqueued
  BY DEF Open, Enqueued
<1>2. ASSUME NEW v \in Open PROVE Earliest(Open) # NoDue /\ Earliest(Open) <= wake[v].due
  BY <1>1, EarliestIsFirst, WakeAssumption DEF WakeAssumption, Base, TypeOK
<1>. QED
  BY <1>2 DEF Covered

\* Only one worker is in a call of the queue.
LEMMA OneQueueCall ==
  ASSUME Base, NEW w \in Workers, NEW u \in Workers,
         wcall[w].op \in {"enqueue", "consume"} \/ pc[w] \in Leased,
         wcall[u].op \in {"enqueue", "consume"}
  PROVE  u = w
  BY DEF Base, QueueCallsFit, HolderWorks, Leased, InTurn

LEMMA IndexStep ==
  ASSUME Base, IndexCovers, [Next]_vars, CrashAt \cap {"enqueue", "restore"} = {}
  PROVE  IndexCovers'
<1>. USE RuntimeAssumption, WakeAssumption
     DEF RuntimeAssumption, WakeAssumption, Base, TypeOK, QueueTypeOK, QueueCalls, NoQueueCall,
         BeginQueue, EndQueue, IndexCovers, Enqueuing, queueVars
<1>1. ASSUME NEW w \in Workers, Look(w) PROVE IndexCovers'
  <2>1. UNCHANGED <<wake, done, wcall>> /\ Open' = Open
    BY <1>1 DEF Look, Open
  <2>2. CASE nextDue' = nextDue
    BY <2>1, <2>2 DEF Covered
  <2>3. CASE nextDue' = Earliest(Open)
    BY <2>1, <2>3, EarliestCovers
  <2>. QED
    BY <1>1, <2>2, <2>3 DEF Look, ListDue
<1>2. ASSUME NEW w \in Workers, Snapshot(w) PROVE IndexCovers'
  <2>1. UNCHANGED <<wake, done, nextDue>> /\ Open' = Open /\ pc[w] = "wake"
    BY <1>2 DEF Snapshot, ConsumeBegin, Open
  <2>2. Enqueuing' = {} /\ Enqueuing = {}
    BY <1>2, <2>1, OneQueueCall DEF Snapshot, ConsumeBegin, Leased, QueueCallsFit
  <2>. QED
    BY <2>1, <2>2 DEF Covered
<1>3. ASSUME NEW w \in Workers, Enqueue(w) PROVE IndexCovers'
  <2>1. PICK r \in job[w].todo : EnqueueAppend(w, r)
    BY <1>3 DEF Enqueue
  <2>2. pc[w] \in Leased /\ wcall[w] = NoQueueCall
    BY <1>3 DEF Enqueue, Idle, Leased
  <2>3. CASE Duplicate(r.key)
    BY <2>1, <2>3 DEF EnqueueAppend, Covered, Open
  <2>4. CASE ~ Duplicate(r.key)
    <3>1. PICK v \in Wakes :
            /\ wake[v] = NoWake /\ wake' = [wake EXCEPT ![v] = r] /\ done' = done
            /\ wcall' = [wcall EXCEPT ![w] = [op |-> "enqueue", known |-> Open \cup {v}]]
      BY <2>1, <2>4 DEF EnqueueAppend
    <3>2. r # NoWake
      BY DEF Jobs
    <3>3. Open' = Open \cup {v}
      BY <3>1, <3>2 DEF Open
    <3>4. \A u \in Workers : u # w => u \notin Enqueuing
      BY <2>2, OneQueueCall
    <3>5. Enqueuing' = {w} /\ wcall'[w].known = Open'
      BY <3>1, <3>3, <3>4
    <3>. QED
      BY <3>5
  <2>. QED
    BY <2>3, <2>4
<1>4. ASSUME NEW w \in Workers, QueueContinue(w) PROVE IndexCovers'
  <2>1. CASE EnqueueSync(w)
    <3>1. nextDue' = Earliest(Open) /\ UNCHANGED wake /\ Open' = Open
      BY <2>1 DEF EnqueueSync, Open
    <3>2. Covered'
      BY <3>1, EarliestCovers
    <3>3. Enqueuing' = {}
      BY <2>1, OneQueueCall DEF EnqueueSync
    <3>. QED
      BY <3>2, <3>3
  <2>2. CASE ConsumeOne(w)
    <3>1. Enqueuing = {} /\ Enqueuing' = {}
      BY <2>2, OneQueueCall DEF ConsumeOne
    <3>2. UNCHANGED <<wake, nextDue>> /\ Open' \subseteq Open
      BY <2>2 DEF ConsumeOne, Open
    <3>. QED
      BY <3>1, <3>2 DEF Covered
  <2>3. CASE ConsumeSync(w)
    <3>1. nextDue' = Earliest(Open) /\ UNCHANGED wake /\ Open' = Open
      BY <2>3 DEF ConsumeSync, Open
    <3>2. Covered'
      BY <3>1, EarliestCovers
    <3>3. Enqueuing' = {}
      BY <2>3, OneQueueCall DEF ConsumeSync
    <3>. QED
      BY <3>2, <3>3
  <2>. QED
    BY <1>4, <2>1, <2>2, <2>3 DEF QueueContinue, QueueStep
<1>5. ASSUME NEW w \in Workers, Crash(w) PROVE IndexCovers'
  <2>1. wcall[w].op # "enqueue"
    BY <1>5 DEF Crash, QueueCallsFit
  <2>2. UNCHANGED <<wake, done, nextDue>> /\ Open' = Open /\ Enqueuing' = Enqueuing
    BY <1>5, <2>1 DEF Crash, Open
  <2>3. \A u \in Enqueuing : wcall'[u] = wcall[u]
    BY <1>5, <2>1 DEF Crash
  <2>. QED
    BY <2>2, <2>3 DEF Covered
<1>6. ASSUME NEW w \in Workers,
             Claim(w) \/ HarnessRead(w) \/ ClearState(w) \/ Start(w) \/ Reply(w) \/ Fail(w) \/ Mark(w)
               \/ Finish(w) \/ Defer(w) \/ FailUpdate(w) \/ Throw(w) \/ Return(w) \/ Release(w)
               \/ Reconcile(w) \/ Backoff(w) \/ Done(w)
      PROVE  UNCHANGED queueVars
  BY <1>6 DEF Claim, HarnessRead, ClearState, Start, Reply, Fail, Mark, Finish, Defer, FailUpdate,
     Throw, Return, Release, Reconcile, Backoff, Done
<1>7. ASSUME NEW c \in Clients, Emit(c) \/ StoreContinue(c) PROVE UNCHANGED queueVars
  BY <1>7 DEF Emit, StoreContinue
<1>8. CASE Tick \/ UNCHANGED vars
  BY <1>8 DEF Tick, vars, Covered, Open
<1>9. CASE UNCHANGED queueVars
  BY <1>9 DEF Covered, Open
<1>. QED
  BY <1>1, <1>2, <1>3, <1>4, <1>5, <1>6, <1>7, <1>8, <1>9 DEF Next, Turn

\* Between two calls of the queue the session's entry in the pending-wake index is
\* there and not later than its first open wake, so the scheduler will look in
\* time: unless a worker may die between appending a wake and indexing it
\* (session-wake-queue.ts).
THEOREM WakesAreIndexed ==
  ASSUME CrashAt \cap {"enqueue", "restore"} = {}
  PROVE  Spec => []WakesIndexed
<1>1. Init => IndexCovers
  BY RuntimeAssumption
     DEF Init, QueueInit, IndexCovers, Covered, Open, Enqueuing, NoQueueCall, RuntimeAssumption
<1>2. IndexCovers => WakesIndexed
  BY DEF IndexCovers, WakesIndexed, Covered, Enqueuing, NoQueueCall
<1>3. Base /\ IndexCovers /\ [Next]_vars => IndexCovers'
  BY IndexStep
<1>. QED
  BY <1>1, <1>2, <1>3, BaseInvariant, PTL DEF Spec

-----------------------------------------------------------------------------
(* No queued intent disappears *)

\* where a worker has consumed wakes and not yet accounted for them
Carrying == InTurn \cup {"consumed"}

Queued(i) == \E v \in Open : wake[v].intent = i
InHand(w, i) ==
  \/ pc[w] \in Carrying /\ \E v \in job[w].taken : wake[v].intent = i
  \/ \E r \in job[w].todo : r.intent = i

OwedKept == \A i \in owed : Queued(i) \/ \E w \in Workers : InHand(w, i)

\* A worker has nothing in its hands before it consumes and after it accounts.
HandsFree ==
  \A w \in Workers :
    /\ pc[w] \in {"look", "claim", "wake"} => job[w].taken = {}
    /\ pc[w] \notin {"mark", "finish", "return", "enqueue", "restore"} => job[w].todo = {}
    /\ pc[w] \notin {"failing", "failed"}

\* A dedupe key stands for the intent it was made for.
KeysMatch ==
  /\ \A v \in Enqueued : wake[v].key = KeyOf[wake[v].intent]
  /\ \A w \in Workers : \A r \in job[w].todo : r.key = KeyOf[r.intent]

IntentInv == HandsFree /\ KeysMatch /\ OwedKept

\* What the code cannot lose an intent to: a turn that fails inside the harness
\* puts back at most one of its wakes, a heartbeat error drops the new ones, a dead
\* worker what it holds, and a shared key the intent that comes second.
NothingDropped ==
  /\ "retryable" \notin Outcomes /\ "fatal" \notin Outcomes /\ ~ RenewFails
  /\ CrashAt \cap (Carrying \cup {"return", "enqueue", "restore"}) = {}
  /\ \A i, j \in Intents : KeyOf[i] = KeyOf[j] /\ KeyOf[i] # NoKey => i = j

LEMMA HandsFreeStep ==
  ASSUME Base, HandsFree, NothingDropped, [Next]_vars
  PROVE  HandsFree'
<1>. USE RuntimeAssumption
     DEF RuntimeAssumption, Base, TypeOK, HandsFree, NothingDropped, Goto
<1>1. ASSUME NEW w \in Workers, Look(w) PROVE HandsFree'
  <2>1. \/ job'[w] = job[w] \/ job'[w] = [job[w] EXCEPT !.kind = "pending_events"]
        \/ job'[w] = [NoJob EXCEPT !.kind = "queued_wake", !.known = DueBatch(now)]
    BY <1>1 DEF Look
  <2>2. [NoJob EXCEPT !.kind = "queued_wake", !.known = DueBatch(now)].taken = {}
          /\ [NoJob EXCEPT !.kind = "queued_wake", !.known = DueBatch(now)].todo = {}
    BY DEF NoJob
  <2>3. /\ [job[w] EXCEPT !.kind = "pending_events"].taken = job[w].taken
        /\ [job[w] EXCEPT !.kind = "pending_events"].todo = job[w].todo
    BY DEF Jobs
  <2>4. job'[w].taken = {} /\ job'[w].todo = {}
    BY <1>1, <2>1, <2>2, <2>3 DEF Look
  <2>5. pc'[w] \in {"look", "claim"} /\ \A u \in Workers : u # w => pc'[u] = pc[u] /\ job'[u] = job[u]
    BY <1>1 DEF Look
  <2>. QED
    BY <2>4, <2>5
<1>2. ASSUME NEW w \in Workers, Claim(w) \/ Snapshot(w) \/ HarnessRead(w) PROVE HandsFree'
  BY <1>2 DEF Claim, Snapshot, HarnessRead, Jobs
<1>3. ASSUME NEW w \in Workers, ClearState(w) \/ Start(w) \/ Mark(w) \/ Finish(w) \/ Defer(w)
                                 \/ FailUpdate(w)
      PROVE  HandsFree'
  BY <1>3 DEF ClearState, Start, Mark, Finish, Defer, FailUpdate
<1>4. ASSUME NEW w \in Workers, Reply(w) \/ Fail(w) PROVE HandsFree'
  <2>1. pc'[w] \in {"mark", "finish"}
    BY <1>4 DEF Reply, Fail, Ends
  <2>2. \A u \in Workers : u # w => pc'[u] = pc[u] /\ job'[u] = job[u]
    BY <1>4, ReplyJob
  <2>. QED
    BY <2>1, <2>2
<1>5. ASSUME NEW w \in Workers, Throw(w) \/ Return(w) PROVE HandsFree'
  BY <1>5 DEF Throw, Return, Restores, Jobs
<1>6. ASSUME NEW w \in Workers, Enqueue(w) PROVE HandsFree'
  BY <1>6 DEF Enqueue, Jobs
<1>7. ASSUME NEW w \in Workers, Release(w) \/ Crash(w) \/ Done(w) PROVE HandsFree'
  <2>1. job'[w].taken = {} /\ job'[w].todo = {} /\ pc'[w] \in {"look", "reconcile"}
    BY <1>7 DEF Release, Crash, Done, NoJob
  <2>2. \A u \in Workers : u # w => pc'[u] = pc[u] /\ job'[u] = job[u]
    BY <1>7 DEF Release, Crash, Done
  <2>. QED
    BY <2>1, <2>2
<1>8. ASSUME NEW w \in Workers, Reconcile(w) \/ Backoff(w) \/ QueueContinue(w) PROVE HandsFree'
  BY <1>8 DEF Reconcile, Backoff, QueueContinue
<1>9. ASSUME NEW c \in Clients, Emit(c) \/ StoreContinue(c) PROVE HandsFree'
  BY <1>9 DEF Emit, StoreContinue
<1>10. CASE Tick \/ UNCHANGED vars
  BY <1>10 DEF Tick, vars
<1>. QED
  BY <1>1, <1>2, <1>3, <1>4, <1>5, <1>6, <1>7, <1>8, <1>9, <1>10 DEF Next, Turn

\* The wake a turn queues has the key of its intent.
LEMMA ReplyKeys ==
  ASSUME Base, NEW w \in Workers, Reply(w)
  PROVE  /\ \A r \in job'[w].todo : r.key = KeyOf[r.intent]
         /\ UNCHANGED wake /\ \A u \in Workers : u # w => job'[u] = job[u]
<1>1. TypeOK
  BY DEF Base
<1>2. {} \in Todos /\ \A i \in Intents, due \in {now, Capped(now + 1)} :
        {Record(i, due, KeyOf[i])} \in Todos
  BY <1>1, CappedType, RuntimeAssumption DEF TypeOK, Record, Todos, RuntimeAssumption
<1>3. ASSUME NEW end \in {"ok", "confirm", "retryable", "fatal"},
             NEW r \in Requests \cup {None}, NEW t \in Todos, Ends(w, end, r, t)
      PROVE  job'[w].todo = t
  BY <1>1, <1>3, EndsJob
<1>4. \A i, due : Record(i, due, KeyOf[i]).key = KeyOf[Record(i, due, KeyOf[i]).intent]
  BY DEF Record
<1>5. \/ job'[w].todo = {}
      \/ \E i \in Intents : \E due \in {now, Capped(now + 1)} :
           job'[w].todo = {Record(i, due, KeyOf[i])}
  BY <1>2, <1>3, RuntimeAssumption DEF Reply, RuntimeAssumption
<1>6. \A r \in job'[w].todo : r.key = KeyOf[r.intent]
  BY <1>4, <1>5
<1>. QED
  BY <1>1, <1>6, ReplyJob DEF Reply, queueVars

LEMMA KeysMatchStep ==
  ASSUME Base, HandsFree, KeysMatch, NothingDropped, [Next]_vars
  PROVE  KeysMatch'
<1>. USE RuntimeAssumption, WakeAssumption
     DEF RuntimeAssumption, WakeAssumption, Base, TypeOK, QueueTypeOK, KeysMatch, Enqueued, queueVars
<1>1. ASSUME NEW w \in Workers, UNCHANGED wake, \A u \in Workers : u # w => job'[u] = job[u],
             \A r \in job'[w].todo : r \in job[w].todo \/ r.key = KeyOf[r.intent]
      PROVE  KeysMatch'
  BY <1>1
<1>2. ASSUME NEW w \in Workers, Look(w) \/ Claim(w) \/ Snapshot(w) \/ HarnessRead(w) PROVE KeysMatch'
  <2>1. job'[w].todo \in {job[w].todo, {}}
    <3>1. \/ job'[w] = job[w] \/ job'[w] = [job[w] EXCEPT !.kind = "pending_events"]
          \/ job'[w] = [NoJob EXCEPT !.kind = "queued_wake", !.known = DueBatch(now)]
          \/ job'[w] = [job[w] EXCEPT !.known = {}]
          \/ job'[w] = [job[w] EXCEPT !.taken = ToConsume(w)]
          \/ job'[w] = [job[w] EXCEPT !.seen = Pending]
      BY <1>2 DEF Look, Claim, Snapshot, HarnessRead
    <3>2. [NoJob EXCEPT !.kind = "queued_wake", !.known = DueBatch(now)].todo = {}
      BY DEF NoJob
    <3>3. /\ [job[w] EXCEPT !.kind = "pending_events"].todo = job[w].todo
          /\ [job[w] EXCEPT !.known = {}].todo = job[w].todo
          /\ [job[w] EXCEPT !.taken = ToConsume(w)].todo = job[w].todo
          /\ [job[w] EXCEPT !.seen = Pending].todo = job[w].todo
      BY DEF Jobs
    <3>. QED
      BY <3>1, <3>2, <3>3
  <2>2. UNCHANGED wake /\ \A u \in Workers : u # w => job'[u] = job[u]
    BY <1>2 DEF Look, Claim, Snapshot, HarnessRead, ConsumeBegin
  <2>. QED
    BY <1>1, <2>1, <2>2
<1>3. ASSUME NEW w \in Workers, Reply(w) PROVE KeysMatch'
  <2>1. /\ \A r \in job'[w].todo : r.key = KeyOf[r.intent]
        /\ UNCHANGED wake /\ \A u \in Workers : u # w => job'[u] = job[u]
    BY <1>3, ReplyKeys
  <2>. QED
    BY <1>1, <2>1
<1>4. ASSUME NEW w \in Workers, Throw(w) \/ Return(w) PROVE KeysMatch'
  <2>1. \A v \in Enqueued : wake[v].key = KeyOf[wake[v].intent]
    OBVIOUS
  <2>2. \A r \in Restored(w) : r.key = KeyOf[r.intent]
    BY <2>1 DEF Restored, Record, JobsKnown
  <2>3. job'[w].todo \in {job[w].todo, Restored(w)} /\ UNCHANGED wake
          /\ \A u \in Workers : u # w => job'[u] = job[u]
    BY <1>4 DEF Throw, Return, Restores, Jobs
  <2>. QED
    BY <1>1, <2>2, <2>3
<1>5. ASSUME NEW w \in Workers, Enqueue(w) PROVE KeysMatch'
  <2>1. PICK r \in job[w].todo :
          EnqueueAppend(w, r) /\ job' = [job EXCEPT ![w].todo = job[w].todo \ {r}]
    BY <1>5 DEF Enqueue
  <2>2. r.key = KeyOf[r.intent] /\ r # NoWake
    BY DEF Jobs
  <2>3. ASSUME NEW v \in Enqueued' PROVE wake'[v].key = KeyOf[wake'[v].intent]
    <3>1. v \in Wakes /\ (wake'[v] = r \/ (wake'[v] = wake[v] /\ v \in Enqueued))
      BY <2>1 DEF EnqueueAppend
    <3>. QED
      BY <2>2, <3>1
  <2>4. \A u \in Workers : job'[u].todo \subseteq job[u].todo
    BY <2>1 DEF Jobs
  <2>. QED
    BY <2>3, <2>4
<1>6. ASSUME NEW w \in Workers, Release(w) \/ Crash(w) \/ Done(w) PROVE KeysMatch'
  <2>1. job'[w].todo = {} /\ UNCHANGED wake /\ \A u \in Workers : u # w => job'[u] = job[u]
    BY <1>6 DEF Release, Crash, Done, NoJob
  <2>. QED
    BY <1>1, <2>1
<1>7. ASSUME NEW w \in Workers,
             Fail(w) \/ ClearState(w) \/ Start(w) \/ Mark(w) \/ Finish(w) \/ Defer(w) \/ FailUpdate(w)
               \/ Reconcile(w) \/ Backoff(w) \/ QueueContinue(w)
      PROVE  UNCHANGED <<wake, job>>
  BY <1>7 DEF Fail, ClearState, Start, Mark, Finish, Defer, FailUpdate, Reconcile, Backoff,
     QueueContinue, QueueStep, EnqueueSync, ConsumeOne, ConsumeSync, HandsFree, NothingDropped
<1>8. ASSUME NEW c \in Clients, Emit(c) \/ StoreContinue(c) PROVE UNCHANGED <<wake, job>>
  BY <1>8 DEF Emit, StoreContinue
<1>9. CASE Tick \/ UNCHANGED vars
  BY <1>9 DEF Tick, vars
<1>10. CASE UNCHANGED <<wake, job>>
  BY <1>10
<1>. QED
  BY <1>2, <1>3, <1>4, <1>5, <1>6, <1>7, <1>8, <1>9, <1>10 DEF Next, Turn

\* A step that owes nothing new, leaves the queue alone and drops nothing
LEMMA QuietOwed ==
  ASSUME Base, OwedKept, owed' \subseteq owed, UNCHANGED <<wake, done>>,
         NEW w \in Workers, \A u \in Workers : u # w => job'[u] = job[u] /\ pc'[u] = pc[u],
         \A i \in owed' : InHand(w, i) => InHand(w, i)'
  PROVE  OwedKept'
<1>1. \A i : Queued(i)' <=> Queued(i)
  BY DEF Queued, Open
<1>2. \A u \in Workers, i \in owed' : InHand(u, i) => InHand(u, i)'
  BY DEF InHand
<1>. QED
  BY <1>1, <1>2 DEF OwedKept

LEMMA OwedStep ==
  ASSUME Base, IntentInv, NothingDropped, [Next]_vars
  PROVE  OwedKept'
<1>. USE RuntimeAssumption, WakeAssumption
     DEF RuntimeAssumption, WakeAssumption, Base, TypeOK, QueueTypeOK, IntentInv, HandsFree,
         NothingDropped, Carrying, InTurn, Goto, queueVars, history
<1>1. ASSUME NEW w \in Workers, Look(w) \/ Claim(w) PROVE OwedKept'
  <2>1. ~ \E i \in owed : InHand(w, i)
    BY <1>1 DEF Look, Claim, InHand
  <2>2. /\ UNCHANGED <<wake, done, owed>>
        /\ \A u \in Workers : u # w => job'[u] = job[u] /\ pc'[u] = pc[u]
    BY <1>1 DEF Look, Claim
  <2>. QED
    BY <2>1, <2>2, QuietOwed
<1>2. ASSUME NEW w \in Workers, Snapshot(w) PROVE OwedKept'
  <2>1. ~ \E i \in owed : InHand(w, i)
    BY <1>2 DEF Snapshot, InHand
  <2>2. /\ UNCHANGED <<wake, done>> /\ owed' \subseteq owed
        /\ \A u \in Workers : u # w => job'[u] = job[u] /\ pc'[u] = pc[u]
    BY <1>2 DEF Snapshot, ConsumeBegin
  <2>. QED
    BY <2>1, <2>2, QuietOwed
<1>3. ASSUME NEW w \in Workers, HarnessRead(w) PROVE OwedKept'
  <2>1. /\ UNCHANGED <<wake, done, owed>>
        /\ \A u \in Workers : u # w => job'[u] = job[u] /\ pc'[u] = pc[u]
    BY <1>3 DEF HarnessRead
  <2>2. job'[w].taken = job[w].taken /\ job'[w].todo = job[w].todo
    BY <1>3 DEF HarnessRead, Jobs
  <2>3. job[w].taken # {} => pc'[w] \in {"clear", "start"}
    BY <1>3 DEF HarnessRead
  <2>4. \A i \in owed' : InHand(w, i) => InHand(w, i)'
    BY <2>1, <2>2, <2>3 DEF InHand
  <2>. QED
    BY <2>1, <2>4, QuietOwed
<1>4. ASSUME NEW w \in Workers, ClearState(w) \/ Start(w) \/ Mark(w) PROVE OwedKept'
  <2>1. /\ UNCHANGED <<wake, done, owed, job>> /\ pc[w] \in Carrying /\ pc'[w] \in Carrying
        /\ \A u \in Workers : u # w => job'[u] = job[u] /\ pc'[u] = pc[u]
    BY <1>4 DEF ClearState, Start, Mark
  <2>2. \A i \in owed' : InHand(w, i) => InHand(w, i)'
    BY <2>1 DEF InHand
  <2>. QED
    BY <2>1, <2>2, QuietOwed
<1>5. ASSUME NEW w \in Workers, Reply(w) PROVE OwedKept'
  <2>1. UNCHANGED <<wake, done, owed>> /\ pc[w] = "model"
    BY <1>5 DEF Reply
  <2>2. /\ pc'[w] \in {"failing", "mark", "finish"} /\ job'[w].taken = job[w].taken
        /\ \A u \in Workers : u # w => job'[u] = job[u] /\ pc'[u] = pc[u]
    BY <1>5, ReplyJob
  <2>3. \A i \in owed' : InHand(w, i) => InHand(w, i)'
    BY <2>1, <2>2 DEF InHand
  <2>. QED
    BY <2>1, <2>2, <2>3, QuietOwed
<1>6. ASSUME NEW w \in Workers, Finish(w) PROVE OwedKept'
  <2>1. /\ UNCHANGED <<wake, done, job>> /\ pc[w] = "finish"
        /\ \A u \in Workers : u # w => pc'[u] = pc[u]
        /\ owed' = (owed \ {wake[v].intent : v \in job[w].taken}) \cup {r.intent : r \in job[w].todo}
    BY <1>6 DEF Finish
  <2>2. ASSUME NEW i \in owed' PROVE Queued(i)' \/ \E u \in Workers : InHand(u, i)'
    <3>1. CASE i \in {r.intent : r \in job[w].todo}
      BY <2>1, <3>1 DEF InHand
    <3>2. CASE i \in owed /\ i \notin {wake[v].intent : v \in job[w].taken}
      <4>1. Queued(i) => Queued(i)'
        BY <2>1 DEF Queued, Open
      <4>2. \A u \in Workers : InHand(u, i) => InHand(u, i)'
        BY <2>1, <3>2 DEF InHand
      <4>. QED
        BY <3>2, <4>1, <4>2 DEF OwedKept
    <3>. QED
      BY <2>1, <3>1, <3>2
  <2>. QED
    BY <2>2 DEF OwedKept
<1>7. ASSUME NEW w \in Workers, Throw(w) PROVE OwedKept'
  <2>1. /\ UNCHANGED <<wake, done, owed>> /\ pc[w] \in {"clear", "start", "model"}
        /\ \A u \in Workers : u # w => job'[u] = job[u] /\ pc'[u] = pc[u]
        /\ job'[w].todo = Restored(w)
    BY <1>7 DEF Throw, Restores, Jobs
  <2>2. ASSUME NEW i \in owed', InHand(w, i) PROVE InHand(w, i)'
    <3>1. PICK v \in job[w].taken : wake[v].intent = i
      BY <2>1, <2>2 DEF InHand
    <3>2. Record(wake[v].intent,
                 IF wake[v].due < now + ReplayDelay THEN now + ReplayDelay ELSE wake[v].due,
                 wake[v].key) \in Restored(w)
      BY <3>1, Zenon DEF Restored
    <3>3. \E r \in Restored(w) : r.intent = i
      BY <3>1, <3>2 DEF Record
    <3>. QED
      BY <2>1, <3>3 DEF InHand
  <2>. QED
    BY <2>1, <2>2, QuietOwed
<1>8. ASSUME NEW w \in Workers, Return(w) PROVE OwedKept'
  <2>1. /\ UNCHANGED <<wake, done, owed, job>> /\ pc[w] = "return"
        /\ \A u \in Workers : u # w => job'[u] = job[u] /\ pc'[u] = pc[u]
    BY <1>8 DEF Return
  <2>2. \A i \in owed' : InHand(w, i) => InHand(w, i)'
    BY <2>1 DEF InHand
  <2>. QED
    BY <2>1, <2>2, QuietOwed
<1>9. ASSUME NEW w \in Workers, Enqueue(w) PROVE OwedKept'
  <2>1. PICK r \in job[w].todo :
          EnqueueAppend(w, r) /\ job' = [job EXCEPT ![w].todo = job[w].todo \ {r}]
    BY <1>9 DEF Enqueue
  <2>2. /\ UNCHANGED <<pc, owed, done>> /\ pc[w] \in {"enqueue", "restore"}
        /\ \A u \in Workers : job'[u].taken = job[u].taken /\ (u # w => job'[u] = job[u])
        /\ job'[w].todo = job[w].todo \ {r}
    BY <1>9, <2>1 DEF Enqueue, EnqueueAppend, Jobs
  <2>3. r.intent \in Intents /\ r # NoWake /\ r.key = KeyOf[r.intent]
    BY DEF Jobs, KeysMatch
  <2>4. ASSUME NEW i, Queued(i) PROVE Queued(i)'
    <3>1. PICK v \in Open : wake[v].intent = i
      BY <2>4 DEF Queued
    <3>2. wake'[v] = wake[v]
      BY <2>1 DEF EnqueueAppend, Open
    <3>. QED
      BY <2>2, <3>1, <3>2 DEF Queued, Open
  <2>5. Queued(r.intent)'
    <3>1. CASE Duplicate(r.key)
      <4>1. PICK v \in Open : wake[v].key = r.key /\ r.key # NoKey
        BY <3>1 DEF Duplicate
      <4>2. wake[v].intent \in Intents /\ wake[v].key = KeyOf[wake[v].intent]
        BY <4>1, WakeDue DEF Open, Enqueued, KeysMatch
      <4>3. KeyOf[wake[v].intent] = KeyOf[r.intent] /\ KeyOf[r.intent] # NoKey
        BY <2>3, <4>1, <4>2
      <4>4. wake[v].intent = r.intent
        <5>. HIDE RuntimeAssumption, WakeAssumption
        <5>. QED
          BY <2>3, <4>2, <4>3
      <4>. QED
        BY <2>4, <4>4 DEF Queued
    <3>2. CASE ~ Duplicate(r.key)
      <4>1. PICK v \in Wakes : wake[v] = NoWake /\ wake' = [wake EXCEPT ![v] = r]
        BY <2>1, <3>2 DEF EnqueueAppend
      <4>2. v \in Open' /\ wake'[v].intent = r.intent
        BY <2>2, <2>3, <4>1 DEF Open
      <4>. QED
        BY <4>2 DEF Queued
    <3>. QED
      BY <3>1, <3>2
  <2>6. ASSUME NEW u \in Workers, NEW i \in owed, InHand(u, i)
        PROVE  InHand(u, i)' \/ i = r.intent \/ Queued(i)'
    <3>1. CASE u = w
      BY <2>2, <2>6, <3>1 DEF InHand
    <3>2. CASE u # w
      <4>1. u # w => pc[u] \notin Carrying /\ job[u].todo = {}
        BY <2>2 DEF HolderWorks, Leased
      <4>. QED
        BY <2>6, <3>2, <4>1 DEF InHand
    <3>. QED
      BY <3>1, <3>2
  <2>. QED
    BY <2>2, <2>4, <2>5, <2>6 DEF OwedKept
<1>10. ASSUME NEW w \in Workers, QueueContinue(w) PROVE OwedKept'
  <2>1. UNCHANGED <<wake, pc, job, owed>>
    BY <1>10 DEF QueueContinue, QueueStep, EnqueueSync, ConsumeOne, ConsumeSync
  <2>2. \A u \in Workers, i \in owed : InHand(u, i) => InHand(u, i)'
    BY <2>1 DEF InHand
  <2>3. ASSUME NEW i \in owed, Queued(i) PROVE Queued(i)' \/ InHand(w, i)'
    <3>1. CASE ConsumeOne(w)
      <4>1. PICK v \in job[w].taken : done' = done \cup {v} /\ pc[w] = "consumed"
        BY <3>1 DEF ConsumeOne, QueueCallsFit
      <4>2. CASE wake[v].intent = i
        BY <2>1, <4>1, <4>2 DEF InHand
      <4>3. CASE wake[v].intent # i
        BY <2>1, <2>3, <4>1, <4>3 DEF Queued, Open
      <4>. QED
        BY <4>2, <4>3
    <3>2. CASE ~ ConsumeOne(w)
      <4>1. done' = done
        BY <1>10, <3>2 DEF QueueContinue, QueueStep, EnqueueSync, ConsumeSync
      <4>. QED
        BY <2>1, <2>3, <4>1 DEF Queued, Open
    <3>. QED
      BY <3>1, <3>2
  <2>. QED
    BY <2>1, <2>2, <2>3 DEF OwedKept
<1>11. ASSUME NEW w \in Workers, Release(w) \/ Crash(w) \/ Done(w) PROVE OwedKept'
  <2>1. pc[w] \notin Carrying /\ job[w].todo = {}
    BY <1>11 DEF Release, Crash, Done
  <2>2. ~ \E i \in owed : InHand(w, i)
    BY <2>1 DEF InHand
  <2>3. /\ UNCHANGED <<wake, done, owed>>
        /\ \A u \in Workers : u # w => job'[u] = job[u] /\ pc'[u] = pc[u]
    BY <1>11 DEF Release, Crash, Done
  <2>. QED
    BY <2>2, <2>3, QuietOwed
<1>12. ASSUME NEW w \in Workers, Reconcile(w) \/ Backoff(w) PROVE OwedKept'
  <2>1. ~ \E i \in owed : InHand(w, i)
    BY <1>12 DEF Reconcile, Backoff, InHand
  <2>2. /\ UNCHANGED <<wake, done, owed>>
        /\ \A u \in Workers : u # w => job'[u] = job[u] /\ pc'[u] = pc[u]
    BY <1>12 DEF Reconcile, Backoff
  <2>. QED
    BY <2>1, <2>2, QuietOwed
<1>13. ASSUME NEW w \in Workers PROVE ~ Fail(w) /\ ~ Defer(w) /\ ~ FailUpdate(w)
  BY DEF Fail, Defer, FailUpdate
<1>14. ASSUME NEW c \in Clients, Emit(c) \/ StoreContinue(c)
       PROVE  UNCHANGED <<wake, done, owed, pc, job>>
  BY <1>14 DEF Emit, StoreContinue
<1>15. CASE Tick \/ UNCHANGED vars
  BY <1>15 DEF Tick, vars, OwedKept, Queued, Open, InHand
<1>16. CASE UNCHANGED <<wake, done, owed, pc, job>>
  BY <1>16 DEF OwedKept, Queued, Open, InHand
<1>. QED
  BY <1>1, <1>2, <1>3, <1>4, <1>5, <1>6, <1>7, <1>8, <1>9, <1>10, <1>11, <1>12, <1>13, <1>14, <1>15,
     <1>16 DEF Next, Turn

\* A queued intent does not disappear: until a turn with it has completed or an
\* interrupt has dropped it, it is in the queue or in the hands of the worker that
\* took it, through stale activations, lost races for the lease, throws and
\* restores (wakeSessionOnce, restoreConsumedWakes), as long as none of the cases
\* happens in which the code drops it.
THEOREM IntentsAreKept ==
  ASSUME NothingDropped
  PROVE  Spec => []IntentKept
<1>1. Init => IntentInv
  BY RuntimeAssumption, WakeAssumption
     DEF Init, QueueInit, IntentInv, HandsFree, KeysMatch, OwedKept, Enqueued, NoJob
<1>2. Base /\ IntentInv => IntentKept
  <2>. SUFFICES ASSUME Base, IntentInv, NEW i \in owed
                PROVE  \/ i \in {wake[v].intent : v \in Open}
                       \/ \E w \in Workers : lease = w /\ i \in InHands(w)
    BY DEF IntentKept
  <2>1. CASE Queued(i)
    BY <2>1 DEF Queued
  <2>2. ASSUME NEW w \in Workers, InHand(w, i) PROVE lease = w /\ i \in InHands(w)
    <3>1. pc[w] \in Leased
      BY <2>2 DEF InHand, Carrying, Leased, InTurn, IntentInv, HandsFree
    <3>. QED
      BY <2>2, <3>1 DEF InHand, InHands, Base, HolderWorks
  <2>. QED
    BY <2>1, <2>2 DEF IntentInv, OwedKept
<1>3. Base /\ IntentInv /\ [Next]_vars => IntentInv'
  BY HandsFreeStep, KeysMatchStep, OwedStep DEF IntentInv
<1>. QED
  BY <1>1, <1>2, <1>3, BaseInvariant, PTL DEF Spec
=============================================================================
