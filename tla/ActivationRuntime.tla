-------------------------- MODULE ActivationRuntime --------------------------
(***************************************************************************)
(* From a ready session to a finished turn: several orchestrator processes *)
(* of one agent (src/src/agents/runtime/orchestration.ts) look for ready   *)
(* work (session-activation-queue.ts), lease the session, consume its due  *)
(* wakes (wake-session.ts), run one turn (harness.ts) and account for it,  *)
(* while other processes emit events.                                      *)
(*                                                                         *)
(* SessionStore and WakeQueue are the two stores, write by write.  The     *)
(* wake lease is taken to exclude and a dead holder's to expire (LeaseFile *)
(* says when).  A turn is what the model returned: nothing special, a      *)
(* request for confirmation or for a custom tool, new wakes, or an error.  *)
(* A throw is an error outside the part of the harness that handles        *)
(* errors: agent configuration, environment, sandbox, first status event.  *)
(***************************************************************************)
EXTENDS SessionStore, WakeQueue

CONSTANTS
  Workers,      \* orchestrator processes
  Interrupts,   \* the events that are user.interrupt
  Custom,       \* the requests that are custom-tool requests
  KeyOf,        \* the dedupe key of each intent, or NoKey
  RetryKeyOf,   \* the key of its retry wake: retry:<session>:<reason>
  Outcomes,     \* how a turn may end
  RetryDelay,   \* recoverableWakeRetryDelayMs
  ReplayDelay,  \* wakeFailureReplayDelayMs
  RenewFails,   \* TRUE: a heartbeat may throw during the turn
  CrashAt,      \* the places where a worker may die
  MaxTime       \* bound on the clock and on every due time

Places == {"look", "claim", "wake", "consumed", "clear", "start", "model", "mark", "finish",
           "failing", "failed", "return", "enqueue", "restore", "abandon", "reconcile",
           "backoff", "done"}

ASSUME RuntimeAssumption ==
  /\ Workers \subseteq Clients /\ Queuers = Workers /\ Events \cap Wakes = {}
  /\ Interrupts \subseteq Events \ Answers /\ Custom \subseteq Requests
  /\ KeyOf \in [Intents -> Keys \cup {NoKey}] /\ RetryKeyOf \in [Intents -> Keys]
  /\ Outcomes \subseteq {"ok", "confirm", "custom", "queue", "retryable", "fatal", "throw"}
  /\ RetryDelay \in Nat /\ ReplayDelay \in Nat /\ MaxTime \in Nat
  /\ RenewFails \in BOOLEAN /\ CrashAt \subseteq Places \ {"look"}

VARIABLES
  now,
  lease,    \* the worker that holds the session's wake lease, or None
  pc,       \* where each worker is
  job,      \* what it knows of the activation it runs
  asked,    \* requests raised so far: ids are fresh
  handled,  \* history: events and wakes of completed turns
  repeated, \* history: those of them that went through a second completed turn
  owed,     \* history: intents queued and not yet through a completed turn
  thrown    \* history: turns that threw in a row, with no event emitted since

vars == <<storeVars, queueVars, now, lease, pc, job, asked, handled, repeated, owed, thrown>>
history == <<handled, repeated, owed, thrown>>

NoJob == [kind |-> "none", known |-> {}, taken |-> {}, seen |-> {}, todo |-> {},
          end |-> "none", request |-> None]

Init ==
  /\ StoreInit /\ QueueInit
  /\ now = 0 /\ lease = None /\ asked = {}
  /\ pc = [w \in Workers |-> "look"] /\ job = [w \in Workers |-> NoJob]
  /\ handled = {} /\ repeated = {} /\ owed = {} /\ thrown = 0

Goto(w, step) == pc' = [pc EXCEPT ![w] = step]
Capped(t) == IF t < MaxTime THEN t ELSE MaxTime
Idle(w) == call[w] = NoCall /\ wcall[w] = NoQueueCall
Free == {v \in Wakes : wake[v] = NoWake}
Record(i, due, key) == [intent |-> i, due |-> Capped(due), key |-> key]

-----------------------------------------------------------------------------
(* Finding and leasing work *)

Runnable == index # None /\ index.until <= now

\* nextReadyActivation: a runnable session comes first, else its due wakes, whose
\* list is carried along; a leased session is passed over.  Looking at due wakes
\* repairs their index entry, also of a leased session.
Look(w) ==
  /\ pc[w] = "look"
  /\ ListDue(now)
  /\ \/ lease = None /\ Runnable /\ job' = [job EXCEPT ![w].kind = "pending_events"] /\ Goto(w, "claim")
     \/ /\ lease = None /\ ~Runnable /\ DueBatch(now) # {}
        /\ job' = [job EXCEPT ![w] = [NoJob EXCEPT !.kind = "queued_wake",
                                                   !.known = DueBatch(now)]]
        /\ Goto(w, "claim")
     \/ /\ lease # None \/ (~Runnable /\ DueBatch(now) = {})
        /\ UNCHANGED <<job, pc>>
  /\ UNCHANGED <<storeVars, wake, done, wcall, now, lease, asked, history>>

\* leaseNextActivation: acquireWakeLease, or blocked
Claim(w) ==
  /\ pc[w] = "claim"
  /\ IF lease = None
       THEN lease' = w /\ Goto(w, "wake") /\ job' = job
       ELSE lease' = lease /\ Goto(w, "look") /\ job' = [job EXCEPT ![w].known = {}]
  /\ UNCHANGED <<storeVars, queueVars, now, asked, history>>

\* what wakeSessionOnce consumes: all of the queue for an interrupt, else the
\* wakes that came with the activation, else those that are due now
ToConsume(w) ==
  IF Pending \cap Interrupts # {} THEN Open
  ELSE IF job[w].known # {} THEN job[w].known ELSE DueBy(now)

\* wakeSessionOnce: nothing to do, or consume and go on
Snapshot(w) ==
  /\ pc[w] = "wake"
  /\ IF Pending = {} /\ ToConsume(w) = {}
       THEN Goto(w, "abandon") /\ UNCHANGED <<queueVars, job>>
       ELSE /\ IF ToConsume(w) = {} THEN UNCHANGED queueVars ELSE ConsumeBegin(w, ToConsume(w))
            /\ job' = [job EXCEPT ![w].taken = ToConsume(w)] /\ Goto(w, "consumed")
  /\ owed' = IF Pending \cap Interrupts # {} THEN {} ELSE owed
  /\ UNCHANGED <<storeVars, now, lease, asked, handled, repeated, thrown>>

-----------------------------------------------------------------------------
(* One turn: AgentHarness.run *)

\* the harness takes its own snapshot of the journal; with nothing in it and no
\* wake it returns at once
HarnessRead(w) ==
  /\ pc[w] = "consumed" /\ Idle(w)
  /\ job' = [job EXCEPT ![w].seen = Pending]
  /\ Goto(w, IF Pending = {} /\ job[w].taken = {} THEN "enqueue"
             ELSE IF Pending \cap Interrupts # {} THEN "clear" ELSE "start")
  /\ UNCHANGED <<storeVars, queueVars, now, lease, asked, history>>

\* clearInterruptedSessionState
ClearState(w) ==
  /\ pc[w] = "clear"
  /\ UpdateSession(w, [status |-> "idle", confirm |-> None, custom |-> None])
  /\ Goto(w, "start")
  /\ UNCHANGED <<queueVars, now, lease, job, asked, history>>

\* transitionToRunning
Start(w) ==
  /\ pc[w] = "start"
  /\ UpdateSession(w, WithStatus("running"))
  /\ Goto(w, "model")
  /\ UNCHANGED <<queueVars, now, lease, job, asked, history>>

Ends(w, end, request, todo) ==
  /\ job' = [job EXCEPT ![w].end = end, ![w].request = request, ![w].todo = todo]
  /\ asked' = asked \cup ({request} \ {None})
  /\ Goto(w, CASE end \in {"retryable", "fatal"} -> "failing"
               [] job[w].seen # {} -> "mark"
               [] OTHER -> "finish")

\* the runner returns: a reply, a request, new wakes
Reply(w) ==
  /\ pc[w] = "model"
  /\ \/ "ok" \in Outcomes /\ Ends(w, "ok", None, {})
     \/ /\ "queue" \in Outcomes
        /\ \E i \in Intents : \E due \in {now, Capped(now + 1)} :
             Free # {} /\ Ends(w, "ok", None, {Record(i, due, KeyOf[i])})
     \/ "custom" \in Outcomes /\ \E r \in Custom \ asked : Ends(w, "ok", r, {})
     \/ /\ "confirm" \in Outcomes
        /\ \E r \in Requests \ (Custom \cup asked) : Ends(w, "confirm", r, {})
  /\ UNCHANGED <<storeVars, queueVars, now, lease, history>>

\* or it throws, and run catches the error
Fail(w) ==
  /\ pc[w] = "model"
  /\ \/ "retryable" \in Outcomes /\ Free # {} /\ Ends(w, "retryable", None, {})
     \/ "fatal" \in Outcomes /\ Ends(w, "fatal", None, {})
  /\ UNCHANGED <<storeVars, queueVars, now, lease, history>>

\* MUTANT of Mark: one marker a turn
MarkFirst(w) ==
  /\ pc[w] = "mark"
  /\ \E e \in job[w].seen : MarkBegin(w, {e})
  /\ Goto(w, "finish")
  /\ UNCHANGED <<queueVars, now, lease, job, asked, history>>

\* markProcessed, for what the harness has seen
Mark(w) ==
  /\ pc[w] = "mark"
  /\ MarkBegin(w, job[w].seen)
  /\ Goto(w, "finish")
  /\ UNCHANGED <<queueVars, now, lease, job, asked, history>>

Answered(w) == session.confirm \in {RequestOf[e] : e \in job[w].seen \cap Answers}

\* MUTANT of Finished: the session is written back as the harness found it
FinishedKeep(w) ==
  [status |-> "idle", confirm |-> IF job[w].request = None THEN session.confirm ELSE job[w].request,
   custom |-> job[w].request]

\* updateSession at the end of a turn
Finished(w) ==
  LET request == job[w].request
      status  == CASE request # None -> "requires_action"
                   [] job[w].todo # {} -> "rescheduling"
                   [] OTHER -> "idle"
  IN  IF job[w].end = "confirm"
        THEN [status |-> status, confirm |-> request, custom |-> None]
        ELSE [status |-> status, confirm |-> IF Answered(w) THEN None ELSE session.confirm,
              custom |-> request]

Finish(w) ==
  /\ pc[w] = "finish" /\ Idle(w)
  /\ UpdateSession(w, Finished(w))
  /\ Goto(w, "return")
  /\ LET turn == job[w].seen \cup job[w].taken
     IN  /\ repeated' = repeated \cup (turn \cap handled)
         /\ handled' = handled \cup turn
  /\ owed' = (owed \ {wake[v].intent : v \in job[w].taken}) \cup {r.intent : r \in job[w].todo}
  /\ thrown' = 0
  /\ UNCHANGED <<queueVars, now, lease, job, asked>>

-----------------------------------------------------------------------------
(* A turn that fails *)

\* handleRunFailure: a retryable failure defers the pending events ...
Defer(w) ==
  /\ pc[w] = "failing"
  /\ IF job[w].end = "retryable" /\ job[w].seen # {}
       THEN DeferRunnable(w, Capped(now + RetryDelay)) ELSE UNCHANGED storeVars
  /\ Goto(w, "failed")
  /\ UNCHANGED <<queueVars, now, lease, job, asked, history>>

\* ... or, when a wake alone had started the turn, queues one retry wake
RetryWakes(w) ==
  IF job[w].end = "retryable" /\ job[w].seen = {}
    THEN LET i == wake[First(job[w].taken)].intent
         IN  {Record(i, now + RetryDelay, RetryKeyOf[i])}
    ELSE {}

FailUpdate(w) ==
  /\ pc[w] = "failed"
  /\ UpdateSession(w, WithStatus(IF job[w].end = "retryable" THEN "rescheduling" ELSE "idle"))
  /\ job' = [job EXCEPT ![w].todo = RetryWakes(w)]
  /\ Goto(w, "return")
  /\ UNCHANGED <<queueVars, now, lease, asked, history>>

\* MUTANT of Restored: a turn with pending events leaves it to them to run again
RestoredAlone(w) ==
  IF job[w].seen # {} THEN {}
  ELSE {Record(wake[v].intent, now + ReplayDelay, wake[v].key) : v \in job[w].taken}

\* MUTANT of Restored: the time left is stored in place of the time due
RestoredRelative(w) ==
  {Record(wake[v].intent, wake[v].due - (now + ReplayDelay), wake[v].key) : v \in job[w].taken}

\* restoreConsumedWakes: enqueued again, not before the replay delay is over
Restored(w) ==
  {Record(wake[v].intent,
          IF wake[v].due < now + ReplayDelay THEN now + ReplayDelay ELSE wake[v].due,
          wake[v].key) : v \in job[w].taken}

Restores(w) ==
  /\ Cardinality(job[w].taken) <= Cardinality(Free)
  /\ job' = [job EXCEPT ![w].todo = Restored(w), ![w].end = "throw"]
  /\ Goto(w, "restore")
  /\ thrown < MaxStreak /\ thrown' = thrown + 1

\* the harness throws before its own error handling begins
Throw(w) ==
  /\ pc[w] \in {"clear", "start", "model"} /\ "throw" \in Outcomes
  /\ Restores(w)
  /\ UNCHANGED <<storeVars, queueVars, now, lease, asked, handled, repeated, owed>>

-----------------------------------------------------------------------------
(* Accounting for the turn *)

\* the harness returned; an error of a heartbeat is thrown now
Return(w) ==
  /\ pc[w] = "return"
  /\ \/ Goto(w, "enqueue") /\ UNCHANGED <<job, thrown>>
     \/ RenewFails /\ Restores(w)
  /\ UNCHANGED <<storeVars, queueVars, now, lease, asked, handled, repeated, owed>>

\* enqueueQueuedWakes or restoreConsumedWakes, one after the other
Enqueue(w) ==
  /\ pc[w] \in {"enqueue", "restore"} /\ Idle(w)
  /\ \E r \in job[w].todo :
       EnqueueAppend(w, r) /\ job' = [job EXCEPT ![w].todo = job[w].todo \ {r}]
  /\ UNCHANGED <<storeVars, now, lease, pc, asked, history>>

\* ack or abandon: the lease is released; the orchestrator reconciles what it
\* took for pending events and was not executed, and backs off if it threw
Release(w) ==
  /\ pc[w] \in {"enqueue", "restore", "abandon"} /\ Idle(w) /\ job[w].todo = {}
  /\ lease' = None
  /\ IF pc[w] # "enqueue" /\ job[w].kind = "pending_events"
       THEN /\ Goto(w, "reconcile")
            /\ job' = [job EXCEPT ![w] = [NoJob EXCEPT !.end = job[w].end]]
       ELSE Goto(w, "look") /\ job' = [job EXCEPT ![w] = NoJob]
  /\ UNCHANGED <<storeVars, queueVars, now, asked, history>>

Reconcile(w) ==
  /\ pc[w] = "reconcile"
  /\ ReconcileRead(w)
  /\ Goto(w, IF job[w].end = "throw" THEN "backoff" ELSE "done")
  /\ UNCHANGED <<queueVars, now, lease, job, asked, history>>

Backoff(w) ==
  /\ pc[w] = "backoff"
  /\ BackoffRead(w)
  /\ Goto(w, "done")
  /\ UNCHANGED <<queueVars, now, lease, job, asked, history>>

Done(w) ==
  /\ pc[w] = "done" /\ Idle(w)
  /\ Goto(w, "look") /\ job' = [job EXCEPT ![w] = NoJob]
  /\ UNCHANGED <<storeVars, queueVars, now, lease, asked, history>>

-----------------------------------------------------------------------------

\* a caller of the session store: user events with fresh ids
Emit(c) ==
  /\ \E e \in Events \ appended : EmitCheck(c, e)
  /\ UNCHANGED <<queueVars, now, lease, pc, job, asked, history>>

\* calls of the two stores run on
StoreContinue(c) ==
  /\ CallStep(c, now)
  /\ thrown' = IF call[c].op = "index" THEN 0 ELSE thrown
  /\ UNCHANGED <<queueVars, now, lease, pc, job, asked, handled, repeated, owed>>

QueueContinue(w) ==
  /\ QueueStep(w)
  /\ UNCHANGED <<storeVars, now, lease, pc, job, asked, history>>

\* A worker dies and is started again; its lease and its lock grow stale.
Crash(w) ==
  /\ pc[w] \in CrashAt
  /\ lease' = IF lease = w THEN None ELSE lease
  /\ mlock' = IF mlock = w THEN None ELSE mlock
  /\ End(w) /\ EndQueue(w)
  /\ Goto(w, "look") /\ job' = [job EXCEPT ![w] = NoJob]
  /\ UNCHANGED <<appended, processed, session, index, wake, done, nextDue, now, asked, history>>

Tick ==
  /\ now < MaxTime /\ now' = now + 1
  /\ UNCHANGED <<storeVars, queueVars, lease, pc, job, asked, history>>

Turn(w) ==
  \/ Look(w) \/ Claim(w) \/ Snapshot(w) \/ HarnessRead(w) \/ ClearState(w) \/ Start(w)
  \/ Reply(w) \/ Fail(w) \/ Mark(w) \/ Finish(w) \/ Defer(w) \/ FailUpdate(w) \/ Throw(w)
  \/ Return(w) \/ Enqueue(w) \/ Release(w) \/ Reconcile(w) \/ Backoff(w) \/ Done(w)
  \/ StoreContinue(w) \/ QueueContinue(w)

Next ==
  \/ \E w \in Workers : Turn(w) \/ Crash(w)
  \/ \E c \in Clients \ Workers : Emit(c) \/ StoreContinue(c)
  \/ Tick

Spec == Init /\ [][Next]_vars

\* A worker that is not dead goes on, timers fire, and the model, asked again and
\* again, replies in the end.
FairSpec ==
  /\ Spec /\ WF_vars(Tick)
  /\ \A w \in Workers : WF_vars(Turn(w)) /\ SF_vars(Reply(w))
  /\ \A c \in Clients \ Workers : WF_vars(StoreContinue(c))

-----------------------------------------------------------------------------

Jobs == [kind : {"none", "pending_events", "queued_wake"}, known : SUBSET Wakes,
         taken : SUBSET Wakes, seen : SUBSET Events,
         todo : SUBSET [intent : Intents, due : Nat, key : Keys \cup {NoKey}],
         end : {"none", "ok", "confirm", "retryable", "fatal", "throw"},
         request : Requests \cup {None}]

TypeOK ==
  /\ StoreTypeOK /\ QueueTypeOK
  /\ now \in 0..MaxTime /\ lease \in Workers \cup {None} /\ asked \subseteq Requests
  /\ job \in [Workers -> Jobs] /\ pc \in [Workers -> Places]
  /\ handled \subseteq Events \cup Wakes /\ repeated \subseteq handled
  /\ owed \subseteq Intents /\ thrown \in 0..MaxStreak

\* The work of one turn is never done again: no event goes through two completed
\* turns, whoever finds it ready, claims late, is blocked, or fails and retries.
EventOnce == repeated \cap Events = {}

\* The same for wakes, however stale the list that came with the activation.
WakeOnce == repeated \cap Wakes = {}

\* While no turn is running, a request that has been answered by a processed event
\* is no longer pending: its answer is refused from then on (Admissible), so it
\* would block the session for good.
NoStrandedRequest ==
  lease = None =>
    \A e \in processed \cap Answers : RequestOf[e] \notin {session.confirm, session.custom}

\* The intent of a queued wake does not disappear: until a turn with it has
\* completed or an interrupt has dropped it, it is in the queue, or in the hands
\* of the worker that took it.
InHands(w) == {wake[v].intent : v \in job[w].taken} \cup {r.intent : r \in job[w].todo}

IntentKept ==
  owed \subseteq {wake[v].intent : v \in Open}
                 \cup UNION {InHands(w) : w \in {u \in Workers : lease = u}}

\* Delayed work is never forgotten: between two calls of the queue the index has
\* an entry for the session, not later than its first open wake.
WakesIndexed ==
  (\A w \in Workers : wcall[w] = NoQueueCall) =>
    \A v \in Open : nextDue # NoDue /\ nextDue <= wake[v].due

\* Repeated failures are backed off further and further.
StreakGrows ==
  \A w \in Workers : pc[w] = "done" /\ job[w].end = "throw" /\ Idle(w) /\ index # None =>
    index.streak = thrown

\* A custom-tool request stays until a result for it, or an interrupt, is handled.
RequestSurvives ==
  [][session.custom # None /\ session'.custom # session.custom =>
       \E w \in Workers : \/ job[w].seen \cap Interrupts # {}
                          \/ session.custom \in {RequestOf[e] : e \in job[w].seen \cap Answers}]_vars

\* An event that is emitted is handled by a turn in the end.
EventsHandled == \A e \in Events : e \in appended ~> e \in processed

\* A wake that is queued runs, or is dropped, in the end.
WakesRun == \A v \in Wakes : wake[v] # NoWake ~> v \in done
=============================================================================
