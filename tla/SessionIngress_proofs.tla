------------------------ MODULE SessionIngress_proofs ------------------------
(* Theorems about SessionIngress for every set of callers, events, requests  *)
(* and backoff parameters.                                                   *)
EXTENDS SessionIngress, TLAPS

Locked == {"append", "status", "index", "mark", "backoff"}

\* Every call between two writes holds the mutation lock, except reconcile.
LockHeld == \A c \in Clients : call[c].op \in Locked => mlock = c

\* markProcessed is only asked for events that are in the journal.
MarksAppended == \A c \in Clients : call[c].op = "mark" => call[c].ids \subseteq appended

\* The answer a call is about to append is still the first one.
StillFirst ==
  \A c \in Clients : call[c].op = "append" /\ call[c].event \in Answers =>
    \A d \in appended \cap Answers : RequestOf[d] # RequestOf[call[c].event]

IInv == TypeOK /\ LockHeld /\ MarksAppended /\ StillFirst /\ AnsweredOnce

-----------------------------------------------------------------------------

LEMMA InitIInv == Init => IInv
  BY StoreAssumption DEF Init, StoreInit, IInv, TypeOK, StoreTypeOK, Calls, NoCall, Statuses,
     LockHeld, Locked, MarksAppended, StillFirst, AnsweredOnce

\* emitEvent: the lock covers everything from the check to the index write.
LEMMA EmitIInv ==
  ASSUME IInv, NEW c \in Clients,
         Emit(c) \/ ((EmitAppend(c) \/ EmitStatus(c) \/ EmitIndex(c)) /\ UNCHANGED asked)
  PROVE  IInv'
<1> USE StoreAssumption DEF StoreAssumption, IInv, TypeOK, StoreTypeOK, LockHeld, Locked,
        MarksAppended, StillFirst, AnsweredOnce, Begin, End, Locks
<1>1. ASSUME NEW e \in Events, EmitCheck(c, e), UNCHANGED asked PROVE IInv'
  BY <1>1 DEF EmitCheck, Admissible, Calls, NoCall
<1>2. CASE EmitAppend(c) /\ UNCHANGED asked
  BY <1>2 DEF EmitAppend, Calls, NoCall
<1>3. CASE EmitStatus(c) /\ UNCHANGED asked
  BY <1>3 DEF EmitStatus, WithStatus, Calls, NoCall, Statuses
<1>4. CASE EmitIndex(c) /\ UNCHANGED asked
  BY <1>4 DEF EmitIndex, Entry, Calls, NoCall
<1>5. QED
  BY <1>1, <1>2, <1>3, <1>4 DEF Emit

\* Exponential backoff is a delay, whatever the streak.
LEMMA DelayType == ASSUME NEW streak \in Nat PROVE Delay(streak) \in Nat
  BY StoreAssumption DEF StoreAssumption, Delay

\* The calls that do not append
LEMMA CallIInv ==
  ASSUME IInv, NEW c \in Clients,
         \/ Process(c) \/ Backoff(c) \/ Reconcile(c) \/ Die(c)
         \/ /\ \/ MarkOne(c) \/ MarkRefresh(c) \/ ReconcileWrite(c)
               \/ \E now \in 0..MaxUntil : BackoffWrite(c, now)
            /\ UNCHANGED asked
  PROVE  IInv'
<1> USE StoreAssumption, IngressAssumption DEF StoreAssumption, IngressAssumption, IInv,
        TypeOK, StoreTypeOK, LockHeld, Locked, MarksAppended, StillFirst, AnsweredOnce,
        Begin, End, Locks, Calls, NoCall
<1>1. CASE Process(c)
  BY <1>1 DEF Process, MarkBegin
<1>2. CASE Backoff(c)
  <2>1. StreakOf(index) + 1 \in Nat
    BY DEF StreakOf
  <2>2. QED
    BY <1>2, <2>1 DEF Backoff, BackoffRead
<1>3. CASE Reconcile(c)
  BY <1>3 DEF Reconcile, ReconcileRead, Pending
<1>4. CASE Die(c)
  BY <1>4 DEF Die, CallCrash
<1>5. CASE MarkOne(c) /\ UNCHANGED asked
  BY <1>5 DEF MarkOne
<1>6. CASE MarkRefresh(c) /\ UNCHANGED asked
  BY <1>6 DEF MarkRefresh, Refreshed, Entry
<1>7. CASE ReconcileWrite(c) /\ UNCHANGED asked
  BY <1>7 DEF ReconcileWrite, Refreshed, Entry
<1>8. ASSUME NEW now \in 0..MaxUntil, BackoffWrite(c, now), UNCHANGED asked PROVE IInv'
  <2>1. call[c].streak \in Nat
    BY <1>8 DEF BackoffWrite
  <2>2. Delay(call[c].streak) \in Nat
    BY <2>1, DelayType
  <2>3. QED
    BY <1>8, <2>1, <2>2 DEF BackoffWrite, Entry
<1>9. QED
  BY <1>1, <1>2, <1>3, <1>4, <1>5, <1>6, <1>7, <1>8

\* updateSession and deferRunnableSession touch neither journal nor lock.
LEMMA UpdateIInv ==
  ASSUME IInv, NEW c \in Clients, Start(c) \/ Raise(c) \/ Clear(c) \/ Defer(c)
  PROVE  IInv'
<1> USE StoreAssumption, IngressAssumption DEF StoreAssumption, IngressAssumption, IInv,
        TypeOK, StoreTypeOK, LockHeld, MarksAppended, StillFirst, AnsweredOnce
<1>1. CASE Start(c)
  BY <1>1 DEF Start, UpdateSession, WithStatus, Statuses
<1>2. CASE Raise(c)
  BY <1>2 DEF Raise, UpdateSession, Statuses
<1>3. CASE Clear(c)
  BY <1>3 DEF Clear, UpdateSession, Statuses
<1>4. CASE Defer(c)
  BY <1>4 DEF Defer, DeferRunnable, Entry, StreakOf
<1>5. QED
  BY <1>1, <1>2, <1>3, <1>4

LEMMA StepIInv == IInv /\ [Next]_vars => IInv'
<1> SUFFICES ASSUME IInv, [Next]_vars PROVE IInv'
  OBVIOUS
<1>1. CASE UNCHANGED vars
  BY <1>1 DEF vars, storeVars, IInv, TypeOK, StoreTypeOK, LockHeld, MarksAppended,
     StillFirst, AnsweredOnce
<1>2. ASSUME NEW c \in Clients, Continue(c) PROVE IInv'
  BY <1>2, EmitIInv, CallIInv DEF Continue, CallStep
<1>3. QED
  BY <1>1, <1>2, EmitIInv, CallIInv, UpdateIInv DEF Next

\* Every store variable keeps its type under every interleaving of the calls.
THEOREM TypeCorrect == Spec => []TypeOK
<1>1. IInv => TypeOK
  BY DEF IInv
<1>2. QED
  BY <1>1, InitIInv, StepIInv, PTL DEF Spec

\* emitEvent never lets two answers to one request into the journal: any number
\* of concurrent callers, reconciliations and crashes.
THEOREM OneAnswer == Spec => []AnsweredOnce
<1>1. IInv => AnsweredOnce
  BY DEF IInv
<1>2. QED
  BY <1>1, InitIInv, StepIInv, PTL DEF Spec

-----------------------------------------------------------------------------
(* The runnable index *)

\* Every pending event has an index entry.
IndexCovers == Pending # {} => index # None

\* The index covers what is pending except between emitEvent's append and its own
\* write of the index; a lock is never left behind; and what a reconcile has read
\* still includes whatever is pending, because nobody is emitting meanwhile.
IndexInv ==
  /\ mlock = None => IndexCovers
  /\ \A c \in Clients : call[c].op \in {"append", "mark", "backoff"} => IndexCovers
  /\ \A c \in Clients : mlock = c => call[c].op \in Locked
  /\ \A c \in Clients : call[c].op = "reconcile" =>
       /\ Pending \subseteq call[c].pending
       /\ \A d \in Clients : call[d].op \notin {"append", "status", "index"}

\* No event is forgotten by the scheduler: a session with a pending event is in
\* the runnable index whenever no locked call is between its writes (emitEvent,
\* markProcessed, defer, backoff and reconcile), provided nobody emits while the
\* session is reconciled outside the lock and no caller dies between the append
\* and the index of emitEvent; other crashes do no harm.
THEOREM NothingForgotten ==
  ASSUME ~Overlaps, ~HalfEmits PROVE Spec => []IndexComplete
<1> USE DEF IndexInv, IndexCovers
<1>1. Init => IndexInv
  BY StoreAssumption DEF Init, StoreInit, Pending, NoCall, StoreAssumption
<1>2. IInv /\ IInv' /\ IndexInv /\ [Next]_vars => IndexInv'
  <2> SUFFICES ASSUME IInv, IInv', IndexInv, [Next]_vars PROVE IndexInv'
    OBVIOUS
  <2> USE StoreAssumption DEF StoreAssumption, IInv, TypeOK, StoreTypeOK, LockHeld, Locked, Begin, End,
          Locks, Pending, Entry, NoCall, Calls
  <2>1. CASE UNCHANGED vars
    BY <2>1 DEF vars, storeVars
  <2>2. ASSUME NEW c \in Clients, Emit(c) \/ Process(c) \/ Backoff(c) PROVE IndexInv'
    BY <2>2 DEF Emit, EmitCheck, Process, MarkBegin, Backoff, BackoffRead
  <2>3. ASSUME NEW c \in Clients, Start(c) \/ Raise(c) \/ Clear(c) \/ Defer(c)
        PROVE  IndexInv'
    <3>1. CASE Start(c) \/ Raise(c) \/ Clear(c)
      BY <3>1 DEF Start, WithStatus, Raise, Clear, UpdateSession
    <3>2. ASSUME NEW until \in 0..MaxUntil, DeferRunnable(c, until) PROVE IndexInv'
      <4>1. StreakOf(index) \in Nat
        BY DEF StreakOf
      <4>2. Entry(until, StreakOf(index)) # None
        BY <4>1, IngressAssumption DEF IngressAssumption
      <4>3. QED
        BY <3>2, <4>2 DEF DeferRunnable
    <3>3. QED
      BY <2>3, <3>1, <3>2 DEF Defer
  <2>4. ASSUME NEW c \in Clients, Continue(c) PROVE IndexInv'
    <3>1. CASE EmitAppend(c) \/ EmitStatus(c) \/ EmitIndex(c)
      BY <3>1 DEF EmitAppend, EmitStatus, EmitIndex, WithStatus
    <3>2. CASE MarkOne(c) \/ MarkRefresh(c)
      BY <3>2 DEF MarkOne, MarkRefresh, Refreshed
    <3>3. ASSUME NEW now \in 0..MaxUntil, BackoffWrite(c, now) PROVE IndexInv'
      <4>1. call[c].streak \in Nat
        BY <3>3 DEF BackoffWrite
      <4>2. now + Delay(call[c].streak) \in Nat
        BY <4>1, DelayType, IngressAssumption DEF IngressAssumption
      <4>3. Entry(now + Delay(call[c].streak), call[c].streak) # None
        BY <4>1, <4>2
      <4>4. QED
        BY <3>3, <4>3 DEF BackoffWrite
    <3>4. CASE ReconcileWrite(c)
      BY <3>4 DEF ReconcileWrite, Refreshed
    <3>5. QED
      BY <2>4, <3>1, <3>2, <3>3, <3>4 DEF Continue, CallStep
  <2>5. ASSUME NEW c \in Clients, Reconcile(c) PROVE IndexInv'
    BY <2>5 DEF Reconcile, ReconcileRead
  <2>6. ASSUME NEW c \in Clients, Die(c) PROVE IndexInv'
    BY <2>6 DEF Die, CallCrash
  <2>7. QED
    BY <2>1, <2>2, <2>3, <2>4, <2>5, <2>6 DEF Next
<1>3. Spec => []IInv
  BY InitIInv, StepIInv, PTL DEF Spec
<1>4. IndexInv => IndexComplete
  BY DEF IndexComplete
<1>5. QED
  BY <1>1, <1>2, <1>3, <1>4, PTL DEF Spec
=============================================================================
