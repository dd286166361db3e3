---------------------------- MODULE SessionStore ----------------------------
(***************************************************************************)
(* One session as the session store keeps it                               *)
(* (src/src/agents/sessions/session-store.ts): the append-only event       *)
(* journal with its processed markers, the session record, and the         *)
(* session's entry in the agent's runnable-sessions index.  Three files,   *)
(* written one after the other.                                            *)
(*                                                                         *)
(* A client is one caller of the store.  emitEvent, markProcessed,         *)
(* updateSession, deferRunnableSession and backoffRunnableSession run      *)
(* under the session's mutation lock; reconcileRunnableSession does not.   *)
(* Readers and a crash can come between the writes of one call, so each    *)
(* write is a step.  The mutation lock is taken to exclude (LeaseFile says *)
(* when it does), and a dead holder's lock to age out.                     *)
(*                                                                         *)
(* Only the user.* events that shouldMarkSessionRunnable accepts are       *)
(* modelled: the agent's own events are appended with processedAt set and  *)
(* change neither what is pending nor the index.                           *)
(***************************************************************************)
EXTENDS Naturals, FiniteSets

CONSTANTS
  Clients,
  Events,       \* ids of runnable events
  Answers,      \* the events that answer a request: tool confirmations, results
  RequestOf,    \* the request each answer names
  Requests,     \* ids of tool-confirmation and custom-tool requests
  None,
  BackoffBase,  \* pendingEventBackoffBaseMs
  BackoffMax,   \* pendingEventBackoffMaxMs
  MaxStreak     \* bound on failureStreak

ASSUME StoreAssumption ==
  /\ Answers \subseteq Events /\ RequestOf \in [Answers -> Requests]
  /\ None \notin Requests \cup Clients /\ None \notin [until : Nat, streak : Nat]
  /\ BackoffBase \in Nat \ {0} /\ BackoffMax \in Nat /\ BackoffBase <= BackoffMax
  /\ MaxStreak \in Nat \ {0}

VARIABLES
  appended,   \* events in the journal
  processed,  \* events with a processed marker in the journal
  session,    \* the session record: status, pendingToolConfirmationRequest and
              \* pendingCustomToolRequest
  index,      \* the session's runnable-sessions entry, or None
  mlock,      \* holder of the session mutation lock, or None
  call        \* the call each client is in

storeVars == <<appended, processed, session, index, mlock, call>>

NoCall == [op |-> "none"]
Calls == {NoCall, [op |-> "status"], [op |-> "index"]}
           \cup [op : {"append"}, event : Events]
           \cup [op : {"mark"}, ids : SUBSET Events]
           \cup [op : {"backoff"}, streak : Nat]
           \cup [op : {"reconcile"}, pending : SUBSET Events]
Statuses == {"idle", "running", "rescheduling", "requires_action"}

\* foldEvents and shouldMarkSessionRunnable: what a wake has to look at
Pending == appended \ processed

Entry(until, streak) == [until |-> until, streak |-> streak]
StreakOf(entry) == IF entry = None THEN 0 ELSE entry.streak

\* MUTANT of Admissible: the scan for an earlier answer is left out
AdmissibleOnce(e) == e \in Answers => RequestOf[e] \in {session.confirm, session.custom}

\* assertResumeIngressIsCurrent: an answer must name the pending request, and no
\* other event in the journal may answer it
Admissible(e) ==
  e \in Answers =>
    /\ RequestOf[e] \in {session.confirm, session.custom}
    /\ \A d \in appended \cap Answers : RequestOf[d] # RequestOf[e]

Delay(streak) ==
  LET d == BackoffBase * 2 ^ (streak - 1)
  IN  IF d \in 0..BackoffMax THEN d ELSE BackoffMax

StoreInit ==
  /\ appended = {} /\ processed = {}
  /\ session = [status |-> "idle", confirm |-> None, custom |-> None]
  /\ index = None /\ mlock = None
  /\ call = [c \in Clients |-> NoCall]

WithStatus(status) ==
  [status |-> status, confirm |-> session.confirm, custom |-> session.custom]

Begin(c, op) == call' = [call EXCEPT ![c] = op]
End(c) == call' = [call EXCEPT ![c] = NoCall]
Locks(c) == mlock = None /\ mlock' = c

-----------------------------------------------------------------------------
(* emitEvent *)

\* MUTANT of EmitCheck: the check is made before the lock is taken, not under it
EmitCheckUnlocked(c, e) ==
  /\ call[c] = NoCall
  /\ Admissible(e)
  /\ Begin(c, [op |-> "append", event |-> e])
  /\ UNCHANGED <<appended, processed, session, index, mlock>>

\* take the mutation lock; an answer that is not current is refused (the throw)
EmitCheck(c, e) ==
  /\ call[c] = NoCall
  /\ Admissible(e)
  /\ Locks(c)
  /\ Begin(c, [op |-> "append", event |-> e])
  /\ UNCHANGED <<appended, processed, session, index>>

\* appendEvent: an id already in the journal is not appended again
EmitAppend(c) ==
  /\ call[c].op = "append"
  /\ appended' = appended \cup {call[c].event}
  /\ Begin(c, [op |-> "status"])
  /\ UNCHANGED <<processed, session, index, mlock>>

EmitStatus(c) ==
  /\ call[c].op = "status"
  /\ session' = IF session.status = "running" THEN session
                ELSE WithStatus("rescheduling")
  /\ Begin(c, [op |-> "index"])
  /\ UNCHANGED <<appended, processed, index, mlock>>

\* setRunnableSessionIndexEntry, and the lock is released
EmitIndex(c) ==
  /\ call[c].op = "index"
  /\ index' = Entry(0, 0)
  /\ mlock' = None
  /\ End(c)
  /\ UNCHANGED <<appended, processed, session>>

-----------------------------------------------------------------------------
(* markProcessed *)

MarkBegin(c, ids) ==
  /\ call[c] = NoCall
  /\ Locks(c)
  /\ Begin(c, [op |-> "mark", ids |-> ids])
  /\ UNCHANGED <<appended, processed, session, index>>

\* one marker per appendJsonl
MarkOne(c) ==
  /\ call[c].op = "mark"
  /\ \E e \in call[c].ids :
       /\ processed' = processed \cup {e}
       /\ Begin(c, [op |-> "mark", ids |-> call[c].ids \ {e}])
  /\ UNCHANGED <<appended, session, index, mlock>>

\* MUTANT of Refreshed: whatever was marked, the session is taken to be done
RefreshedDone(pending) == None

\* refreshRunnableSessionIndexFromJournal
Refreshed(pending) == IF pending = {} THEN None ELSE Entry(0, 0)

MarkRefresh(c) ==
  /\ call[c].op = "mark" /\ call[c].ids = {}
  /\ index' = Refreshed(Pending)
  /\ mlock' = None
  /\ End(c)
  /\ UNCHANGED <<appended, processed, session>>

-----------------------------------------------------------------------------
(* updateSession, deferRunnableSession, backoffRunnableSession, reconcile *)

\* one read and one atomic rename under the lock
UpdateSession(c, next) ==
  /\ call[c] = NoCall /\ mlock = None
  /\ session' = next
  /\ UNCHANGED <<appended, processed, index, mlock, call>>

DeferRunnable(c, until) ==
  /\ call[c] = NoCall /\ mlock = None
  /\ index' = IF Pending = {} THEN index ELSE Entry(until, StreakOf(index))
  /\ UNCHANGED <<appended, processed, session, mlock, call>>

BackoffRead(c) ==
  /\ call[c] = NoCall
  /\ Locks(c)
  /\ Begin(c, [op |-> "backoff", streak |-> StreakOf(index) + 1])
  /\ UNCHANGED <<appended, processed, session, index>>

BackoffWrite(c, now) ==
  /\ call[c].op = "backoff"
  /\ index' = IF Pending = {} THEN index
              ELSE Entry(now + Delay(call[c].streak), call[c].streak)
  /\ mlock' = None
  /\ End(c)
  /\ UNCHANGED <<appended, processed, session>>

\* reconcileRunnableSession reads the journal without the lock ...
ReconcileRead(c) ==
  /\ call[c] = NoCall
  /\ Begin(c, [op |-> "reconcile", pending |-> Pending])
  /\ UNCHANGED <<appended, processed, session, index, mlock>>

\* ... and then writes what it read into the index
ReconcileWrite(c) ==
  /\ call[c].op = "reconcile"
  /\ index' = Refreshed(call[c].pending)
  /\ End(c)
  /\ UNCHANGED <<appended, processed, session, mlock>>

\* The caller's process dies in the middle of a call.
CallCrash(c) ==
  /\ call[c] # NoCall
  /\ mlock' = IF mlock = c THEN None ELSE mlock
  /\ End(c)
  /\ UNCHANGED <<appended, processed, session, index>>

\* What a call does on its own once it has begun
CallStep(c, now) == EmitAppend(c) \/ EmitStatus(c) \/ EmitIndex(c) \/ MarkOne(c)
                      \/ MarkRefresh(c) \/ BackoffWrite(c, now) \/ ReconcileWrite(c)

-----------------------------------------------------------------------------

StoreTypeOK ==
  /\ appended \subseteq Events /\ processed \subseteq appended
  /\ session \in [status : Statuses, confirm : Requests \cup {None},
                  custom : Requests \cup {None}]
  /\ index = None \/ index \in [until : Nat, streak : Nat]
  /\ mlock \in Clients \cup {None}
  /\ call \in [Clients -> Calls]
=============================================================================
