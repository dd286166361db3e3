--------------------------- MODULE SessionIngress ---------------------------
(***************************************************************************)
(* Concurrent callers of one session's store: several processes emit user  *)
(* events while a worker marks events processed, raises and clears         *)
(* requests, defers, backs off and reconciles.  Every interleaving of the  *)
(* writes of SessionStore's calls that the mutation lock allows.           *)
(***************************************************************************)
EXTENDS SessionStore

CONSTANTS
  Custom,      \* the requests that are custom-tool requests
  Overlaps,    \* TRUE: events may be emitted while the orchestrator reconciles
  HalfEmits,   \* TRUE: a caller may die between the append and the index of emitEvent
  MaxUntil     \* bound on deferUntil

ASSUME IngressAssumption ==
  /\ Custom \subseteq Requests
  /\ Overlaps \in BOOLEAN /\ HalfEmits \in BOOLEAN /\ MaxUntil \in Nat

VARIABLE asked  \* the requests raised so far: their ids are fresh (makeUuidV7)

vars == <<storeVars, asked>>

Init == StoreInit /\ asked = {}

\* any process of the company: CLI, chat participant, parent session
Emit(c) ==
  /\ Overlaps \/ \A d \in Clients : call[d].op # "reconcile"
  /\ \E e \in Events : EmitCheck(c, e)
  /\ UNCHANGED asked

\* MUTANT of Process: ids that were never appended are marked as well
ProcessAny(c) == \E ids \in SUBSET Events : ids # {} /\ MarkBegin(c, ids) /\ UNCHANGED asked

\* a turn has handled what it saw in the journal, some of it perhaps before
Process(c) == \E ids \in SUBSET appended : ids # {} /\ MarkBegin(c, ids) /\ UNCHANGED asked

Start(c) == UpdateSession(c, WithStatus("running")) /\ UNCHANGED asked

\* the turn ends in a request: a confirmation replaces both, a custom-tool
\* request leaves an unanswered confirmation alone
Raise(c) == \E r \in Requests \ asked :
  /\ UpdateSession(c, [status  |-> "requires_action",
                       confirm |-> IF r \in Custom THEN session.confirm ELSE r,
                       custom  |-> IF r \in Custom THEN r ELSE None])
  /\ asked' = asked \cup {r}

\* an interrupt clears both
Clear(c) ==
  /\ UpdateSession(c, [status |-> "idle", confirm |-> None, custom |-> None])
  /\ UNCHANGED asked

Defer(c) == \E until \in 0..MaxUntil : DeferRunnable(c, until) /\ UNCHANGED asked

Backoff(c) == StreakOf(index) < MaxStreak /\ BackoffRead(c) /\ UNCHANGED asked

\* after a turn that did not run or failed
Reconcile(c) == (Overlaps \/ mlock = None) /\ ReconcileRead(c) /\ UNCHANGED asked

Continue(c) == (\E now \in 0..MaxUntil : CallStep(c, now)) /\ UNCHANGED asked

Die(c) ==
  /\ HalfEmits \/ call[c].op \notin {"status", "index"}
  /\ CallCrash(c) /\ UNCHANGED asked

Next == \E c \in Clients :
  \/ Emit(c) \/ Process(c) \/ Start(c) \/ Raise(c) \/ Clear(c)
  \/ Defer(c) \/ Backoff(c) \/ Reconcile(c) \/ Continue(c) \/ Die(c)

Spec == Init /\ [][Next]_vars

-----------------------------------------------------------------------------

TypeOK == StoreTypeOK /\ asked \subseteq Requests

\* No request is ever answered twice, however many callers confirm at once and
\* however the session moves between the check of one (assertResumeIngressIsCurrent)
\* and the append of another.
AnsweredOnce ==
  \A d, e \in appended \cap Answers : RequestOf[d] = RequestOf[e] => d = e

\* Work is never forgotten: whenever no locked call is between its journal write
\* and its index write, a session with a pending event is in the runnable index,
\* which is the only thing the scheduler looks at.
IndexComplete == mlock = None /\ Pending # {} => index # None
=============================================================================
