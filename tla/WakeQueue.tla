------------------------------ MODULE WakeQueue ------------------------------
(***************************************************************************)
(* One session's queue of delayed wakes                                    *)
(* (src/src/agents/runtime/session-wake-queue.ts): the append-only journal *)
(* of enqueued and completed wakes, and the session's entry in the agent's *)
(* pending-wake index, the only thing the scheduler looks at.              *)
(*                                                                         *)
(* The journal is appended to without a lock; the worker that holds the    *)
(* session's wake lease is the only one to do so.  A read-and-rewrite of   *)
(* the index is one step: it runs under the index lock (WakeIndex says     *)
(* when that excludes) and leaves other sessions' entries as they are.     *)
(***************************************************************************)
EXTENDS Naturals, FiniteSets

CONSTANTS
  Queuers,  \* the callers of the queue
  Wakes,    \* ids of wakes
  Intents,  \* what a wake is for: its reason and note
  Keys,     \* dedupe keys
  NoKey, NoDue, NoWake

ASSUME WakeAssumption ==
  /\ NoKey \notin Keys /\ NoDue \notin Nat
  /\ NoWake \notin [intent : Intents, due : Nat, key : Keys \cup {NoKey}]

VARIABLES
  wake,     \* the enqueued record of each wake id, or NoWake
  done,     \* wakes with a completed record
  nextDue,  \* the session's entry in the pending-wake index, or NoDue
  wcall     \* the call each caller is in

queueVars == <<wake, done, nextDue, wcall>>

NoQueueCall == [op |-> "none"]
QueueCalls == {NoQueueCall} \cup [op : {"enqueue"}, known : SUBSET Wakes]
                            \cup [op : {"consume"}, left : SUBSET Wakes]

\* fold: enqueued and not completed
Open == {w \in Wakes : wake[w] # NoWake} \ done
DueBy(at) == {w \in Open : wake[w].due <= at}

\* earliestPendingWakeDueAt
Earliest(ws) ==
  IF ws = {} THEN NoDue
  ELSE CHOOSE d \in {wake[w].due : w \in ws} : \A w \in ws : d <= wake[w].due

\* the wake the harness is told about: wakes are sorted by due time
First(ws) == CHOOSE w \in ws : \A v \in ws : wake[w].due <= wake[v].due

Duplicate(key) == key # NoKey /\ \E w \in Open : wake[w].key = key

QueueInit ==
  /\ wake = [w \in Wakes |-> NoWake] /\ done = {} /\ nextDue = NoDue
  /\ wcall = [c \in Queuers |-> NoQueueCall]

BeginQueue(c, op) == wcall' = [wcall EXCEPT ![c] = op]
EndQueue(c) == wcall' = [wcall EXCEPT ![c] = NoQueueCall]

-----------------------------------------------------------------------------

\* enqueue: the wake gets a fresh id, unless an open wake has its dedupe key
EnqueueAppend(c, record) ==
  /\ wcall[c] = NoQueueCall
  /\ IF Duplicate(record.key)
       THEN UNCHANGED <<wake, wcall>>
       ELSE \E w \in Wakes :
              /\ wake[w] = NoWake
              /\ wake' = [wake EXCEPT ![w] = record]
              /\ BeginQueue(c, [op |-> "enqueue", known |-> Open \cup {w}])
  /\ UNCHANGED <<done, nextDue>>

\* syncPendingWakeSessionIndex from the states enqueue had read, and the new wake
EnqueueSync(c) ==
  /\ wcall[c].op = "enqueue"
  /\ nextDue' = Earliest(wcall[c].known)
  /\ EndQueue(c)
  /\ UNCHANGED <<wake, done>>

\* consumeDue, consumeKnown and cancelPending complete one wake after the other;
\* consumeKnown does not look whether they are still open
ConsumeBegin(c, ws) ==
  /\ wcall[c] = NoQueueCall
  /\ BeginQueue(c, [op |-> "consume", left |-> ws])
  /\ UNCHANGED <<wake, done, nextDue>>

ConsumeOne(c) ==
  /\ wcall[c].op = "consume"
  /\ \E w \in wcall[c].left :
       /\ done' = done \cup {w}
       /\ BeginQueue(c, [op |-> "consume", left |-> wcall[c].left \ {w}])
  /\ UNCHANGED <<wake, nextDue>>

\* MUTANT of ConsumeSync: a session whose wakes were consumed leaves the index
ConsumeSyncGone(c) ==
  /\ wcall[c].op = "consume" /\ wcall[c].left = {}
  /\ nextDue' = NoDue
  /\ EndQueue(c)
  /\ UNCHANGED <<wake, done>>

\* syncPendingWakeSessionIndex reads the journal again
ConsumeSync(c) ==
  /\ wcall[c].op = "consume" /\ wcall[c].left = {}
  /\ nextDue' = Earliest(Open)
  /\ EndQueue(c)
  /\ UNCHANGED <<wake, done>>

\* MUTANT of IsDue: an entry is due when its time is over
IsDueLate(at) == nextDue # NoDue /\ nextDue < at

\* listDueSessionWakes: an entry that is due is confirmed or repaired
IsDue(at) == nextDue # NoDue /\ nextDue <= at

ListDue(at) == nextDue' = IF IsDue(at) THEN Earliest(Open) ELSE nextDue

\* ... and the wakes of the session that it returns
DueBatch(at) == IF IsDue(at) THEN DueBy(at) ELSE {}

QueueStep(c) == EnqueueSync(c) \/ ConsumeOne(c) \/ ConsumeSync(c)

-----------------------------------------------------------------------------

QueueTypeOK ==
  /\ wake \in [Wakes -> [intent : Intents, due : Nat, key : Keys \cup {NoKey}] \cup {NoWake}]
  /\ done \subseteq {w \in Wakes : wake[w] # NoWake}
  /\ nextDue \in Nat \cup {NoDue}
  /\ wcall \in [Queuers -> QueueCalls]
=============================================================================
