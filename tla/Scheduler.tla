----------------------------- MODULE Scheduler ------------------------------
(***************************************************************************)
(* The orchestrator loops of one agent over all of its sessions:           *)
(* runAgentLoop and executeReadyActivationsForCycle                        *)
(* (src/src/agents/runtime/orchestration.ts) with leaseNextActivation and  *)
(* waitForChange (session-activation-queue.ts).  Each loop is a process.   *)
(*                                                                         *)
(* ActivationRuntime has one session write by write; here a session is     *)
(* what its entries in the two indexes say, its wake lease is taken to     *)
(* exclude (LeaseFile says when) and a turn is a beginning and an end.     *)
(* Time is not counted: what is due later becomes due.  A lease list and   *)
(* the index reads that follow it are one step: a session taken or given   *)
(* back in between looks as it would just before.  The due times that      *)
(* order the wakes of one priority are left open.                          *)
(***************************************************************************)
EXTENDS Naturals, FiniteSets

CONSTANTS
  Sessions, Loops,
  Rank,        \* the order of the sessions' ids
  Urgency,     \* the rank of the priority of the wakes queued for each session
  Modes,       \* how each loop may have been started, of LoopModes
  Mortal,      \* the loops whose process may die or be interrupted
  Arrivals,    \* what comes for each session, of {"event", "due", "later"}; its turns queue
               \* wakes when "later" does
  None

\* runAgentLoop's options: watch, watch with an idle timeout, or neither
LoopModes == {"watch", "limited", "drain"}

High == 3   \* priorityRank of "high", which pending events have

ASSUME SchedulerAssumption ==
  /\ Rank \in [Sessions -> Nat] /\ \A s, t \in Sessions : Rank[s] = Rank[t] => s = t
  /\ Urgency \in [Sessions -> 1 .. High]
  /\ Modes \in [Loops -> SUBSET LoopModes] /\ Mortal \subseteq Loops
  /\ Arrivals \in [Sessions -> SUBSET {"event", "due", "later"}]
  /\ None \notin Sessions \cup Loops

VARIABLES
  events,     \* the session's runnable entry: none, to be run now, or deferred to later
  arrived,    \* sessions with an event emitted since their turn began
  wakes,      \* its queued wake, one at a time: none, due now, or later
  lease,      \* the loop that holds its wake lease
  stale,      \* the sessions whose lease has outlived its holder
  pc,         \* where each loop is
  mode,       \* its mode; "last" in the cycle after its idle timeout
  attempted, excluded, blocked, ran,   \* the loop's variables of these names; ran: ranCycle
  pick,       \* its activation: session, kind of work, took a wake, how the turn ended
  ear,        \* its listeners: off, quiet, told of a change, or deaf to one: a notice
              \* was lost, or time brought work
  waiting     \* history: sessions ready and free ever since the loop's cycle began

indexes == <<events, arrived, wakes>>
leases  == <<lease, stale>>
search  == <<attempted, excluded, blocked, pick>>
vars == <<indexes, leases, pc, mode, search, ran, ear, waiting>>

NoPick == [session |-> None, kind |-> "none", took |-> FALSE, end |-> "none"]

Init ==
  /\ events = [s \in Sessions |-> "none"] /\ wakes = [s \in Sessions |-> "none"]
  /\ arrived = {}
  /\ lease = [s \in Sessions |-> None] /\ stale = {}
  /\ pc = [l \in Loops |-> "cycle"] /\ mode \in [Loops -> LoopModes]
  /\ \A l \in Loops : mode[l] \in Modes[l]
  /\ attempted = [l \in Loops |-> {}] /\ excluded = [l \in Loops |-> {}]
  /\ blocked = [l \in Loops |-> None] /\ pick = [l \in Loops |-> NoPick]
  /\ ran = [l \in Loops |-> FALSE]
  /\ ear = [l \in Loops |-> "off"]
  /\ waiting = [l \in Loops |-> {}]

Goto(l, step) == pc' = [pc EXCEPT ![l] = step]

Free(s) == lease[s] = None \/ s \in stale
Leased == {s \in Sessions : ~Free(s)}
Work(s) == events[s] = "now" \/ wakes[s] = "due"
Ready == {s \in Sessions : Free(s) /\ Work(s)}

\* a write of an index: the listeners run, in another process if the watch of the
\* directory works
Told ==
  \E lost \in SUBSET {l \in Loops : ear[l] = "quiet"} :
    ear' = [l \in Loops |-> IF l \in lost THEN "deaf"
                            ELSE IF ear[l] = "quiet" THEN "told" ELSE ear[l]]

\* nobody is told
Untold == ear' = [l \in Loops |-> IF ear[l] = "quiet" THEN "deaf" ELSE ear[l]]

\* a session that is worked on is no longer one that waits
NoLongerWaiting(s) == waiting' = [l \in Loops |-> waiting[l] \ {s}]

-----------------------------------------------------------------------------
(* What happens around the loops *)

\* emitEvent: the index is written when the session was not runnable at once already
Emit(s) ==
  /\ "event" \in Arrivals[s]
  /\ events' = [events EXCEPT ![s] = "now"]
  /\ arrived' = IF Free(s) THEN arrived ELSE arrived \cup {s}
  /\ IF events[s] = "now" THEN UNCHANGED ear ELSE Told
  /\ UNCHANGED <<wakes, leases, pc, mode, search, ran, waiting>>

\* a wake is queued for a session
Enqueue(s, when) ==
  /\ when \in Arrivals[s] /\ wakes[s] = "none"
  /\ wakes' = [wakes EXCEPT ![s] = when]
  /\ Told
  /\ UNCHANGED <<events, arrived, leases, pc, mode, search, ran, waiting>>

\* the time of a deferred session or of a wake comes: no file changes
Elapse(s) ==
  /\ \/ events[s] = "later" /\ events' = [events EXCEPT ![s] = "now"] /\ wakes' = wakes
     \/ wakes[s] = "later" /\ wakes' = [wakes EXCEPT ![s] = "due"] /\ events' = events
  /\ Untold
  /\ UNCHANGED <<arrived, leases, pc, mode, search, ran, waiting>>

\* a loop's variables end with its cycle
Forgets(l) ==
  /\ attempted' = [attempted EXCEPT ![l] = {}] /\ excluded' = [excluded EXCEPT ![l] = {}]
  /\ pick' = [pick EXCEPT ![l] = NoPick] /\ blocked' = [blocked EXCEPT ![l] = None]
  /\ waiting' = [waiting EXCEPT ![l] = {}] /\ ran' = [ran EXCEPT ![l] = FALSE]

\* a process dies; its lease stays
Die(l) ==
  /\ l \in Mortal /\ pc[l] \notin {"dead", "stopped"}
  /\ Goto(l, "dead") /\ Forgets(l)
  /\ ear' = [ear EXCEPT ![l] = "off"]
  /\ UNCHANGED <<indexes, leases, mode>>

\* an abort is seen before a cycle and while waiting
Interrupted(l) ==
  /\ l \in Mortal /\ pc[l] \in {"cycle", "check", "asleep"}
  /\ Goto(l, "stopped") /\ Forgets(l)
  /\ ear' = [ear EXCEPT ![l] = "off"]
  /\ UNCHANGED <<indexes, leases, mode>>

\* a lease whose holder died is stale when its heartbeat is old enough
GrowStale(s) ==
  /\ lease[s] # None /\ s \notin stale /\ pc[lease[s]] = "dead"
  /\ stale' = stale \cup {s}
  /\ Untold
  /\ UNCHANGED <<indexes, lease, pc, mode, search, ran, waiting>>

-----------------------------------------------------------------------------
(* One cycle: executeReadyActivationsForCycle *)

\* leaseNextActivation first reads the sessions it does not look at
StartCycle(l) ==
  /\ pc[l] = "cycle"
  /\ waiting' = [waiting EXCEPT ![l] = Ready]
  /\ excluded' = [excluded EXCEPT ![l] = Leased]
  /\ Goto(l, "find")
  /\ UNCHANGED <<indexes, leases, mode, attempted, blocked, pick, ran, ear>>

\* the next leaseNextActivation of the cycle
ListLeases(l) ==
  /\ pc[l] = "lease"
  /\ excluded' = [excluded EXCEPT ![l] = attempted[l] \cup Leased]
  /\ Goto(l, "find")
  /\ UNCHANGED <<indexes, leases, mode, attempted, blocked, pick, ran, ear, waiting>>

\* mergeActivations: pending events hide the session's due wakes
Kind(s) == IF events[s] = "now" THEN "pending_events" ELSE "queued_wake"
Priority(s) == IF events[s] = "now" THEN High ELSE Urgency[s]

\* compareActivations
Precedes(s, t) ==
  \/ Priority(s) > Priority(t)
  \/ Priority(s) = Priority(t) /\ Kind(s) = "pending_events" /\ Kind(t) = "queued_wake"
  \/ Kind(s) = "pending_events" /\ Kind(t) = "pending_events" /\ Rank[s] < Rank[t]

\* MUTANT of Candidates: a loop looks only where it has not been in this cycle at
\* the work of the highest priority
CandidatesTop(l) ==
  {s \in Ready : \A t \in Ready : ~Precedes(t, s)} \ excluded[l]

Candidates(l) == Ready \ excluded[l]

\* nextReadyActivation; with none left, the session that was contended last counts
\* as attempted and the search starts again, or the cycle is over
Find(l) ==
  /\ pc[l] = "find"
  /\ \/ \E s \in Candidates(l) :
          /\ \A t \in Candidates(l) : ~Precedes(t, s)
          /\ pick' = [pick EXCEPT ![l] = [NoPick EXCEPT !.session = s, !.kind = Kind(s)]]
          /\ Goto(l, "claim")
          /\ UNCHANGED <<attempted, blocked>>
     \/ /\ Candidates(l) = {}
        /\ attempted' = [attempted EXCEPT ![l] = @ \cup ({blocked[l]} \ {None})]
        /\ blocked' = [blocked EXCEPT ![l] = None]
        /\ Goto(l, IF blocked[l] = None THEN "rest" ELSE "lease")
        /\ pick' = [pick EXCEPT ![l] = NoPick]
  /\ UNCHANGED <<indexes, leases, mode, excluded, ran, ear, waiting>>

\* MUTANT of Tried: only an attempt that fails counts
TriedFailed(l, s) == attempted[l]

Tried(l, s) == attempted[l] \cup {s}

Fresh(s) == stale \ {s}

\* acquireWakeLease, or contended
Claim(l) ==
  LET s == pick[l].session
  IN  /\ pc[l] = "claim"
      /\ IF Free(s)
           THEN /\ lease' = [lease EXCEPT ![s] = l] /\ stale' = Fresh(s)
                /\ attempted' = [attempted EXCEPT ![l] = Tried(l, s)]
                /\ NoLongerWaiting(s)
                /\ Goto(l, "wake") /\ Told
                /\ excluded' = [excluded EXCEPT ![l] = {}]
                /\ blocked' = [blocked EXCEPT ![l] = None]
           ELSE /\ excluded' = [excluded EXCEPT ![l] = @ \cup {s}]
                /\ blocked' = [blocked EXCEPT ![l] = s]
                /\ Goto(l, "find")
                /\ UNCHANGED <<leases, attempted, ear, waiting>>
      /\ UNCHANGED <<indexes, mode, pick, ran>>

-----------------------------------------------------------------------------
(* One activation: AgentOrchestration.wake *)

\* what wakeSessionOnce finds: the wakes that came with the activation run even if
\* another loop has run them since (see WakeOnce in ActivationRuntime)
BeginTurn(l) ==
  LET s == pick[l].session
      idle == pick[l].kind = "pending_events" /\ events[s] = "none" /\ wakes[s] # "due"
  IN  /\ pc[l] = "wake"
      /\ IF idle
           THEN /\ pick' = [pick EXCEPT ![l].end = "idle"] /\ Goto(l, "release")
                /\ UNCHANGED <<indexes, ear>>
           ELSE /\ pick' = [pick EXCEPT ![l].took =
                             (pick[l].kind = "queued_wake" \/ wakes[s] = "due")]
                /\ wakes' = [wakes EXCEPT ![s] = IF @ = "due" THEN "none" ELSE @]
                /\ arrived' = arrived \ {s} /\ events' = events
                /\ Goto(l, "turn")
                /\ IF wakes[s] = "due" THEN Told ELSE UNCHANGED ear
      /\ UNCHANGED <<leases, mode, attempted, excluded, blocked, ran, waiting>>

Later(s) == wakes' = [wakes EXCEPT ![s] = IF @ = "none" THEN "later" ELSE @]

\* the turn's events are processed, unless one came during it; it may queue a wake
Completes(s) ==
  /\ events' = [events EXCEPT ![s] = IF s \in arrived THEN "now" ELSE "none"]
  /\ wakes' = wakes \/ ("later" \in Arrivals[s] /\ Later(s))

\* handleRunFailure, retryable: the session is deferred, or a retry wake queued for
\* the wake of a turn that had no events
Defers(l, s) ==
  \/ events[s] # "none" /\ events' = [events EXCEPT ![s] = "later"] /\ wakes' = wakes
  \/ (events[s] = "none" \/ s \in arrived) /\ pick[l].took /\ events' = events /\ Later(s)

\* an error outside the harness's own handling: consumed wakes are restored
Throws(l, s) ==
  /\ events' = events
  /\ IF pick[l].took THEN Later(s) ELSE wakes' = wakes

EndTurn(l) ==
  LET s == pick[l].session
  IN  /\ pc[l] = "turn"
      /\ \/ /\ Completes(s) \/ Defers(l, s) \/ UNCHANGED <<events, wakes>>
            /\ pick' = [pick EXCEPT ![l].end = "acked"]
         \/ Throws(l, s) /\ pick' = [pick EXCEPT ![l].end = "failed"]
      /\ arrived' = arrived \ {s}
      /\ Goto(l, "release")
      /\ IF UNCHANGED <<events, wakes>> THEN UNCHANGED ear ELSE Told
      /\ UNCHANGED <<leases, mode, attempted, excluded, blocked, ran, waiting>>

\* MUTANT of TellRelease: giving the lease back is no change of an index
TellReleaseNobody == UNCHANGED ear

TellRelease == Told

\* ack or abandon; the loop goes on, for a failed turn with pending events only after
\* reconciling and backing off
Release(l) ==
  /\ pc[l] = "release"
  /\ lease' = [lease EXCEPT ![pick[l].session] = None] /\ TellRelease
  /\ ran' = [ran EXCEPT ![l] = @ \/ pick[l].end = "acked"]
  /\ Goto(l, IF pick[l].kind = "pending_events" /\ pick[l].end # "acked" THEN "reconcile"
             ELSE "lease")
  /\ pick' = [pick EXCEPT ![l] = IF pc'[l] = "lease" THEN NoPick ELSE @]
  /\ UNCHANGED <<indexes, stale, mode, attempted, excluded, blocked, waiting>>

\* reconcileRunnableSession: what is pending is to be run now
Reconcile(l) ==
  LET s == pick[l].session
  IN  /\ pc[l] = "reconcile"
      /\ events' = [events EXCEPT ![s] = IF @ = "none" THEN "none" ELSE "now"]
      /\ IF events[s] = "later" THEN Told ELSE UNCHANGED ear
      /\ Goto(l, IF pick[l].end = "failed" THEN "backoff" ELSE "lease")
      /\ UNCHANGED <<arrived, wakes, leases, mode, search, ran, waiting>>

\* backoffRunnableSession
Backoff(l) ==
  LET s == pick[l].session
  IN  /\ pc[l] = "backoff"
      /\ events' = [events EXCEPT ![s] = IF @ = "none" THEN "none" ELSE "later"]
      /\ IF events[s] = "none" THEN UNCHANGED ear ELSE Told
      /\ NoLongerWaiting(s)
      /\ Goto(l, "lease")
      /\ UNCHANGED <<arrived, wakes, leases, mode, search, ran>>

-----------------------------------------------------------------------------
(* Between cycles: runAgentLoop *)

\* a loop that does not watch goes on while cycles run something, up to maxCycles
Drain(l) ==
  /\ pc[l] = "rest" /\ mode[l] = "drain"
  /\ \/ ran[l] /\ Goto(l, "cycle")
     \/ Goto(l, "stopped")
  /\ Forgets(l)
  /\ UNCHANGED <<indexes, leases, mode, ear>>

\* waitForChange: the listeners are set before the work is looked for
Listen(l) ==
  /\ pc[l] = "rest" /\ mode[l] # "drain" /\ (ran[l] \/ mode[l] # "last")
  /\ mode' = [mode EXCEPT ![l] = IF @ = "last" THEN "limited" ELSE @]
  /\ ear' = [ear EXCEPT ![l] = "quiet"]
  /\ Goto(l, "check") /\ Forgets(l)
  /\ UNCHANGED <<indexes, leases>>

\* an idle timeout that has passed: one more cycle, and the loop ends if that one runs
\* nothing either
LastCycle(l) ==
  /\ pc[l] = "rest" /\ ~ran[l] /\ mode[l] \in {"limited", "last"}
  /\ mode' = [mode EXCEPT ![l] = "last"]
  /\ Goto(l, IF mode[l] = "limited" THEN "cycle" ELSE "stopped")
  /\ Forgets(l)
  /\ UNCHANGED <<indexes, leases, ear>>

Hangup(l, step) ==
  /\ ear' = [ear EXCEPT ![l] = "off"]
  /\ Goto(l, step)
  /\ UNCHANGED <<indexes, leases, mode, search, ran, waiting>>

Check(l) ==
  /\ pc[l] = "check"
  /\ IF Ready # {} THEN Hangup(l, "cycle")
     ELSE Goto(l, "asleep") /\ UNCHANGED <<indexes, leases, mode, search, ran, ear, waiting>>

Woken(l) == pc[l] \in {"check", "asleep"} /\ ear[l] = "told" /\ Hangup(l, "cycle")

\* resolveWatchSleepMs: at the latest after the poll interval
Timeout(l) == pc[l] \in {"check", "asleep"} /\ Hangup(l, "cycle")

Turn(l) == BeginTurn(l) \/ EndTurn(l) \/ Release(l) \/ Reconcile(l) \/ Backoff(l)

LoopStep(l) ==
  \/ StartCycle(l) \/ ListLeases(l) \/ Find(l) \/ Claim(l) \/ Turn(l)
  \/ Drain(l) \/ Listen(l) \/ LastCycle(l) \/ Check(l) \/ Woken(l) \/ Timeout(l)

Around ==
  \/ \E s \in Sessions : Emit(s) \/ Enqueue(s, "due") \/ Enqueue(s, "later") \/ Elapse(s)
  \/ \E l \in Loops : Die(l) \/ Interrupted(l)
  \/ \E s \in Sessions : GrowStale(s)

Next == Around \/ \E l \in Loops : LoopStep(l)

\* A loop goes on, a turn ends (the provider's time limit) and time passes.
Fairness ==
  /\ \A l \in Loops : WF_vars(LoopStep(l))
  /\ \A s \in Sessions : WF_vars(Elapse(s)) /\ WF_vars(GrowStale(s))

Spec == Init /\ [][Next]_vars /\ Fairness

-----------------------------------------------------------------------------
\* The types of the loops' state; only a lease that is there can be stale.
TypeOK ==
  /\ events \in [Sessions -> {"none", "now", "later"}] /\ arrived \subseteq Sessions
  /\ wakes \in [Sessions -> {"none", "due", "later"}]
  /\ lease \in [Sessions -> Loops \cup {None}] /\ stale \subseteq {s \in Sessions : lease[s] # None}
  /\ pc \in [Loops -> {"cycle", "lease", "find", "claim", "wake", "turn", "release",
                       "reconcile", "backoff", "rest", "check", "asleep", "stopped", "dead"}]
  /\ mode \in [Loops -> LoopModes \cup {"last"}]
  /\ attempted \in [Loops -> SUBSET Sessions] /\ excluded \in [Loops -> SUBSET Sessions]
  /\ blocked \in [Loops -> Sessions \cup {None}] /\ ran \in [Loops -> BOOLEAN]
  /\ pick \in [Loops -> [session : Sessions \cup {None}, took : BOOLEAN,
                        kind : {"none", "pending_events", "queued_wake"},
                        end : {"none", "idle", "acked", "failed"}]]
  /\ ear \in [Loops -> {"off", "quiet", "told", "deaf"}]
  /\ waiting \in [Loops -> SUBSET Sessions]

\* When a cycle ends every session that was ready and free from its beginning on has
\* been tried in it, however the loop was interrupted by contention and failures:
\* "idle" and "idle_timeout" never leave such a session behind.
CycleSweeps == \A l \in Loops : pc[l] = "rest" => waiting[l] \subseteq attempted[l]

\* A loop that no notice was lost on does not sleep over work that another process
\* brought or gave back, whenever that happened between its last look and its sleep.
NoLostWakeup ==
  \A l \in Loops : pc[l] = "asleep" /\ ear[l] = "quiet" => Ready = {}

Served(s) == \E l \in Loops : pc[l] = "turn" /\ pick[l].session = s
Held(s) == \E l \in Loops : lease[s] = l /\ pc[l] # "dead"

\* No session starves: pending events and due wakes get a turn in the end, whatever
\* keeps arriving for the other sessions, whatever fails and whoever dies.
NoStarvation ==
  \A s \in Sessions : (Work(s) /\ ~Held(s)) ~> (Served(s) \/ ~Work(s))
=============================================================================
