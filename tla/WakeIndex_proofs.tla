--------------------------- MODULE WakeIndex_proofs ---------------------------
(* Theorems about WakeIndex for every set of sessions, due times, clock      *)
(* bound and staleness.                                                      *)
EXTENDS WakeIndex, TLAPS

Locked == Holding \cup {"fill"}

\* The lock file belongs to whoever fills it or works under it, and in the
\* second case its record is complete and not old.
LockIsOwners ==
  \A s \in Sessions :
    /\ pc[s] \in Locked => lock # None /\ lock.owner = s
    /\ pc[s] \in Holding => lock.stamp # None /\ now < lock.stamp + StaleAfter

\* While a condemned file waits to be removed, nobody works under it.
RetiredAlone == Retiring => \A s \in Sessions : pc[s] \notin Locked

\* What a caller has read is still what the file says of the other sessions.
ReadIsCurrent ==
  \A s \in Sessions :
    pc[s] = "write" => \A t \in Sessions \ {s} : seen[s][t] = index[t]

\* A caller's own entry is up to date from its write on.
EntryWritten ==
  \A s \in Sessions : pc[s] \in {"idle", "check", "remove"} => index[s] = want[s]

IInv == TypeOK /\ LockIsOwners /\ RetiredAlone /\ ReadIsCurrent /\ EntryWritten

\* A holder is done before its lock grows stale, and the two windows of the
\* lock file, before it is filled and before a stale one is removed, stay
\* undisturbed.
LockWorks == Timely /\ Solo

-----------------------------------------------------------------------------

\* Every variable keeps its type, whatever the callers, the clock and the
\* crashes do (all steps of withPendingWakeIndexLock and the sync under it).
THEOREM TypeCorrect == Spec => []TypeOK
<1>1. Init => TypeOK
  BY WakeIndexAssumption DEF Init, TypeOK, Blank, Steps, WakeIndexAssumption
<1>2. TypeOK /\ [Next]_vars => TypeOK'
  <2> SUFFICES ASSUME TypeOK, [Next]_vars PROVE TypeOK'
    OBVIOUS
  <2> USE DEF TypeOK, Steps, Holding, Goto
  <2>sync. CASE \E s \in Sessions : Sync(s)
    <3> PICK s \in Sessions : Sync(s)
      BY <2>sync
    <3>lock. Open(s) \/ Fill(s) \/ Retire(s) \/ Remove(s) => TypeOK'
      BY DEF Open, Fill, Retire, Remove
    <3>look. Judge(s) \/ Check(s) => TypeOK'
      BY DEF Judge, Check
    <3>index. Read(s) \/ Write(s) => TypeOK'
      BY DEF Read, Write, Blank
    <3> QED
      BY <3>lock, <3>look, <3>index DEF Sync
  <2>caller. ASSUME NEW s \in Sessions PROVE Change(s) \/ TimeOut(s) \/ Crash(s) => TypeOK'
    BY DEF Change, TimeOut, Crash
  <2>clock. UNCHANGED vars \/ Tick => TypeOK'
    BY WakeIndexAssumption DEF Tick, WakeIndexAssumption, vars
  <2> QED
    BY <2>sync, <2>caller, <2>clock DEF Next
<1>3. QED
  BY <1>1, <1>2, PTL DEF Spec

-----------------------------------------------------------------------------

\* Taking the lock: the file of a new caller finds an empty path, and a file is
\* condemned only when nobody works under it.
LEMMA LockIInv ==
  ASSUME LockWorks, IInv, TypeOK', NEW s \in Sessions,
         Open(s) \/ Fill(s) \/ Judge(s) \/ Retire(s) \/ TimeOut(s)
  PROVE  IInv'
<1> USE WakeIndexAssumption DEF WakeIndexAssumption, LockWorks, IInv, TypeOK, Locked, Holding,
      Steps, Goto, LockIsOwners, RetiredAlone, ReadIsCurrent, EntryWritten, Retiring
<1>1. CASE Open(s)
  <2>1. CASE lock = None
    <3>1. lock' = [owner |-> s, stamp |-> None] /\ pc' = [pc EXCEPT ![s] = "fill"]
      BY <1>1, <2>1 DEF Open
    <3>2. \A t \in Sessions : pc[t] \notin Locked /\ pc[t] # "retire"
      BY <1>1, <2>1 DEF Open
    <3>3. LockIsOwners' /\ RetiredAlone'
      BY <3>1, <3>2
    <3>4. QED
      BY <1>1, <3>1, <3>2, <3>3 DEF Open
  <2>2. CASE lock # None
    BY <1>1, <2>2 DEF Open
  <2>3. QED
    BY <2>1, <2>2
<1>2. CASE Fill(s)
  <2>1. lock # None /\ lock.owner = s
    BY <1>2 DEF Fill
  <2>2. lock' = [owner |-> s, stamp |-> now] /\ pc' = [pc EXCEPT ![s] = "read"]
    BY <1>2, <2>1 DEF Fill
  <2>3. \A t \in Sessions \ {s} : pc[t] \notin Locked /\ pc[t] # "retire"
    BY <1>2, <2>1 DEF Fill
  <2>4. now < now + StaleAfter /\ now # None
    OBVIOUS
  <2>5. LockIsOwners' /\ RetiredAlone'
    BY <1>2, <2>2, <2>3, <2>4 DEF Fill
  <2>6. QED
    BY <1>2, <2>2, <2>3, <2>5 DEF Fill
<1>3. CASE Judge(s)
  <2>1. Condemned => \A t \in Sessions : pc[t] \notin Locked
    BY <1>3 DEF Judge, Condemned, Filling
  <2>2. QED
    BY <1>3, <2>1 DEF Judge
<1>4. CASE Retire(s)
  BY <1>4 DEF Retire
<1>5. CASE TimeOut(s)
  BY <1>5 DEF TimeOut
<1>6. QED
  BY <1>1, <1>2, <1>3, <1>4, <1>5

\* Working under the lock: nobody else reads or writes the index meanwhile.
LEMMA WorkIInv ==
  ASSUME LockWorks, IInv, TypeOK', NEW s \in Sessions,
         Change(s) \/ Read(s) \/ Write(s) \/ Check(s) \/ Remove(s) \/ Crash(s)
  PROVE  IInv'
<1> USE WakeIndexAssumption DEF WakeIndexAssumption, LockWorks, IInv, TypeOK, Locked, Holding,
      Steps, Goto, LockIsOwners, RetiredAlone, ReadIsCurrent, EntryWritten, Retiring
<1>1. CASE Change(s)
  BY <1>1 DEF Change
<1>2. CASE Read(s)
  BY <1>2 DEF Read
<1>3. CASE Write(s)
  <2>1. \A t \in Sessions \ {s} : pc[t] \notin Locked
    BY <1>3 DEF Write
  <2>2. \A t \in Sessions \ {s} : index'[t] = index[t]
    BY <1>3 DEF Write
  <2>3. QED
    BY <1>3, <2>1, <2>2 DEF Write
<1>4. CASE Check(s)
  BY <1>4 DEF Check
<1>5. CASE Remove(s)
  BY <1>5 DEF Remove
<1>6. CASE Crash(s)
  BY <1>6 DEF Crash
<1>7. QED
  BY <1>1, <1>2, <1>3, <1>4, <1>5, <1>6

\* The clock stops short of the age at which a running holder's lock is stale.
LEMMA TickIInv == ASSUME LockWorks, IInv, TypeOK', Tick PROVE IInv'
<1> USE WakeIndexAssumption DEF WakeIndexAssumption, LockWorks, IInv, TypeOK, Tick
<1>1. LockIsOwners'
  BY DEF LockIsOwners, Locked, Holding
<1>2. QED
  BY <1>1 DEF RetiredAlone, Retiring, ReadIsCurrent, EntryWritten, Locked, Holding

\* The index agrees with the journal of every session whose caller is done, for
\* any number of sessions: no rewrite of the whole file by
\* syncPendingWakeSessionIndex loses an entry of a concurrent one, when the lock
\* around it works.
THEOREM EntriesAreKept == ASSUME LockWorks PROVE Spec => []EntriesKept
<1>1. Init => IInv
  <2>1. Init => TypeOK
    BY WakeIndexAssumption DEF Init, TypeOK, Blank, Steps, WakeIndexAssumption
  <2>2. QED
    BY <2>1 DEF Init, IInv, LockIsOwners, RetiredAlone, Retiring, ReadIsCurrent, EntryWritten,
         Locked, Holding
<1>2. IInv /\ TypeOK' /\ [Next]_vars => IInv'
  <2> SUFFICES ASSUME IInv, TypeOK', [Next]_vars PROVE IInv'
    OBVIOUS
  <2>1. CASE UNCHANGED vars
    BY <2>1 DEF vars, IInv, TypeOK, LockIsOwners, RetiredAlone, Retiring, ReadIsCurrent,
         EntryWritten
  <2>2. QED
    BY <2>1, LockIInv, WorkIInv, TickIInv DEF Next, Sync
<1>3. IInv => EntriesKept
  BY DEF IInv, EntryWritten, EntriesKept
<1>4. QED
  BY <1>1, <1>2, <1>3, TypeCorrect, PTL DEF Spec
=============================================================================
