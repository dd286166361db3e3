-------------------------- MODULE LeaseFile_proofs --------------------------
(* Theorems about LeaseFile for every set of attempts, owner naming, clock  *)
(* bound and staleness.                                                     *)
EXTENDS LeaseFile, TLAPS

Owning == {"acquired", "linked", "held", "removing"}

\* The file at the lock path is the file of every attempt that owns it.
OwnersFile == \A p \in Attempts : pc[p] \in Owning => lock = p

\* What BeatsDeadline keeps true: no live record, heartbeat in flight or index
\* entry of a held lease has reached the staleness age.
Fresh ==
  \A p \in Attempts :
    /\ pc[p] \in Alive => now < stamp[p] + StaleAfter
    /\ beat[p] # "off" => now < beatAt[p] + StaleAfter
    /\ pc[p] \in {"held", "removing"} /\ index # None => now < index + StaleAfter

\* Whoever has judged the lock stale is alone in that, and the file there is
\* nobody's.
JudgedIsDead ==
  /\ \A p \in Attempts : pc[p] = "judged" =>
       /\ lock # None /\ pc[lock] \notin Owning
       /\ \A q \in Attempts : pc[q] = "judged" => q = p
       /\ \A s \in Sweepers : sweep[s] # "judged"
  /\ \A s \in Sweepers : sweep[s] = "judged" =>
       /\ lock # None /\ pc[lock] \notin Owning
       /\ \A r \in Sweepers : sweep[r] = "judged" => r = s

IInv == TypeOK /\ OwnersFile /\ Fresh /\ JudgedIsDead

\* A wake lease whose holders beat the deadline, and takeovers one at a time
WakeLease == ~InvalidIsStale /\ Timely /\ Solo

-----------------------------------------------------------------------------

\* Every variable keeps its type, whatever the callers, the clock and the
\* crashes do (all actions of the lease protocol).
THEOREM TypeCorrect == Spec => []TypeOK
<1>1. Init => TypeOK
  BY LeaseAssumption DEF Init, TypeOK, Alive
<1>2. TypeOK /\ [Next]_vars => TypeOK'
  <2> SUFFICES ASSUME TypeOK, [Next]_vars PROVE TypeOK'
    OBVIOUS
  <2> USE LeaseAssumption
  <2>1. ASSUME NEW p \in Attempts, Acquire(p) PROVE TypeOK'
    BY <2>1 DEF TypeOK, Alive, Acquire, Prepare, Link, Relink, LinkCandidate, Judge, Retire,
         CleanUp, IndexAcquired, Goto, heartbeats, files
  <2>2. ASSUME NEW p \in Attempts, Renew(p) PROVE TypeOK'
    <3>1. CASE RenewOpen(p)
      BY <3>1 DEF TypeOK, RenewOpen, ReadsOwn
    <3>2. CASE RenewWrite(p)
      BY <3>2 DEF TypeOK, RenewWrite
    <3>3. CASE RenewIndex(p)
      BY <3>3 DEF TypeOK, RenewIndex, HeartbeatOver, files
    <3>4. QED
      BY <2>2, <3>1, <3>2, <3>3 DEF Renew
  <2>3. ASSUME NEW p \in Attempts, Quit(p) PROVE TypeOK'
    BY <2>3 DEF TypeOK, Alive, Quit, Release, ReleaseRemove, ReleaseIndex,
         Goto, heartbeats, files
  <2>4. ASSUME NEW p \in Attempts, Crash(p) PROVE TypeOK'
    BY <2>4 DEF TypeOK, Alive, Crash, HeartbeatOver, Goto, files
  <2>5. ASSUME NEW s \in Sweepers, Sweep(s) PROVE TypeOK'
    BY <2>5 DEF TypeOK, Alive, Sweep, SweepJudge, SweepRemove, SweepUnindex,
         SweepTo, heartbeats, files
  <2>6. CASE SweepIndex
    BY <2>6 DEF TypeOK, Alive, SweepIndex, heartbeats
  <2>7. CASE Tick
    BY <2>7 DEF TypeOK, Alive, Tick, heartbeats, files
  <2>8. CASE UNCHANGED vars
    BY <2>8 DEF TypeOK, Alive, vars
  <2>9. QED
    BY <2>1, <2>2, <2>3, <2>4, <2>5, <2>6, <2>7, <2>8 DEF Next
<1>3. QED
  BY <1>1, <1>2, PTL DEF Spec
-----------------------------------------------------------------------------

LEMMA InitIInv == ASSUME WakeLease PROVE Init => IInv
<1>1. Init => TypeOK
  BY LeaseAssumption DEF Init, TypeOK, Alive
<1>2. QED
  BY <1>1 DEF Init, IInv, OwnersFile, Fresh, JudgedIsDead, Owning, Alive

\* The acquire steps: a link succeeds only on an empty path, and a judgement
\* falls only on a file nobody owns.
LEMMA AcquireIInv ==
  ASSUME WakeLease, IInv, TypeOK', NEW p \in Attempts, Acquire(p)
  PROVE  IInv'
<1> USE LeaseAssumption DEF LeaseAssumption, IInv, Owning, Alive, TypeOK, Goto, heartbeats
<1>1. CASE Prepare(p)
  BY <1>1 DEF Prepare, OwnersFile, Fresh, JudgedIsDead
<1>2. CASE Link(p)
  BY <1>2 DEF Link, LinkCandidate, OwnersFile, Fresh, JudgedIsDead
<1>3. CASE Judge(p)
  <2>1. LooksStale => \A q \in Attempts : pc[q] \in Owning => lock # q
    BY DEF LooksStale, WakeLease, Fresh
  <2>2. LooksStale => lock # None
    BY DEF LooksStale, WakeLease
  <2>3. QED
    BY <1>3, <2>1, <2>2 DEF Judge, OwnersFile, Fresh, JudgedIsDead, WakeLease,
         NoTakeover, files
<1>4. CASE Retire(p)
  BY <1>4 DEF Retire, OwnersFile, Fresh, JudgedIsDead
<1>5. CASE Relink(p)
  BY <1>5 DEF Relink, LinkCandidate, OwnersFile, Fresh, JudgedIsDead
<1>6. CASE CleanUp(p)
  BY <1>6 DEF CleanUp, OwnersFile, Fresh, JudgedIsDead
<1>7. CASE IndexAcquired(p)
  BY <1>7 DEF IndexAcquired, OwnersFile, Fresh, JudgedIsDead, files, WakeLease
<1>8. QED
  BY <1>1, <1>2, <1>3, <1>4, <1>5, <1>6, <1>7 DEF Acquire

\* The handle: heartbeats write fresh times only, and release removes a path
\* that still leads to the releaser's own file.
LEMMA HandleIInv ==
  ASSUME WakeLease, IInv, TypeOK', NEW p \in Attempts,
         Renew(p) \/ Quit(p) \/ Crash(p)
  PROVE  IInv'
<1> USE LeaseAssumption DEF LeaseAssumption, IInv, Owning, Alive, TypeOK, Goto
<1>1. CASE RenewOpen(p)
  BY <1>1 DEF RenewOpen, OwnersFile, Fresh, JudgedIsDead
<1>2. CASE RenewWrite(p)
  BY <1>2 DEF RenewWrite, OwnersFile, Fresh, JudgedIsDead
<1>3. CASE RenewIndex(p)
  BY <1>3 DEF RenewIndex, HeartbeatOver, OwnersFile, Fresh, JudgedIsDead, files
<1>4. CASE Release(p)
  BY <1>4 DEF Release, OwnersFile, Fresh, JudgedIsDead, files, ReadsOwn
<1>5. CASE ReleaseRemove(p)
  BY <1>5 DEF ReleaseRemove, OwnersFile, Fresh, JudgedIsDead, heartbeats
<1>6. CASE ReleaseIndex(p)
  BY <1>6 DEF ReleaseIndex, OwnersFile, Fresh, JudgedIsDead, files, heartbeats
<1>7. CASE Crash(p)
  BY <1>7 DEF Crash, HeartbeatOver, OwnersFile, Fresh, JudgedIsDead, files
<1>8. QED
  BY <1>1, <1>2, <1>3, <1>4, <1>5, <1>6, <1>7 DEF Renew, Quit

\* The readers that clean up, and the clock
LEMMA SweepIInv ==
  ASSUME WakeLease, IInv, TypeOK',
         (\E s \in Sweepers : Sweep(s)) \/ SweepIndex \/ Tick
  PROVE  IInv'
<1> USE LeaseAssumption DEF LeaseAssumption, IInv, Owning, Alive, TypeOK, SweepTo, heartbeats
<1>1. ASSUME NEW s \in Sweepers, SweepJudge(s) PROVE IInv'
  <2>1. \A q \in Attempts : pc[q] \in Owning => lock # q
    BY <1>1 DEF SweepJudge, LooksStale, Fresh
  <2>2. QED
    BY <1>1, <2>1 DEF SweepJudge, OwnersFile, Fresh, JudgedIsDead, WakeLease,
         NoTakeover, files
<1>2. ASSUME NEW s \in Sweepers, SweepRemove(s) PROVE IInv'
  BY <1>2 DEF SweepRemove, OwnersFile, Fresh, JudgedIsDead
<1>3. ASSUME NEW s \in Sweepers, SweepUnindex(s) PROVE IInv'
  BY <1>3 DEF SweepUnindex, OwnersFile, Fresh, JudgedIsDead, files
<1>4. CASE SweepIndex
  <2>1. \A q \in Attempts : pc[q] \notin Owning
    BY <1>4 DEF SweepIndex, IndexStale, NoneUnindexed, Fresh, WakeLease
  <2>2. QED
    BY <1>4, <2>1 DEF SweepIndex, OwnersFile, Fresh, JudgedIsDead, NoTakeover,
         WakeLease
<1>5. CASE Tick
  BY <1>5 DEF Tick, BeatsDeadline, OwnersFile, Fresh, JudgedIsDead, WakeLease,
       files
<1>6. QED
  BY <1>1, <1>2, <1>3, <1>4, <1>5 DEF Sweep

LEMMA StepIInv == ASSUME WakeLease PROVE IInv /\ TypeOK' /\ [Next]_vars => IInv'
<1> SUFFICES ASSUME IInv, TypeOK', [Next]_vars PROVE IInv'
  OBVIOUS
<1>1. CASE UNCHANGED vars
  BY <1>1 DEF vars, IInv, TypeOK, OwnersFile, Fresh, JudgedIsDead, Owning, Alive
<1>2. QED
  BY <1>1, AcquireIInv, HandleIInv, SweepIInv DEF Next

LEMMA Invariance == ASSUME WakeLease PROVE Spec => []IInv
<1>1. Spec => []TypeOK
  BY TypeCorrect
<1>2. Init => IInv
  BY InitIInv
<1>3. IInv /\ TypeOK' /\ [Next]_vars => IInv'
  BY StepIInv
<1>4. QED
  BY <1>1, <1>2, <1>3, PTL DEF Spec

\* At most one attempt believes it holds a wake lease: every interleaving of
\* acquire, renew, release, sweeps and crashes (tryAcquireLeaseRecord and the
\* handle of acquireWakeLease), provided heartbeats beat staleAfterMs and
\* takeovers do not overlap.
THEOREM MutualExclusion == ASSUME WakeLease PROVE Spec => []Exclusion
<1>1. IInv => Exclusion
  BY DEF IInv, OwnersFile, Exclusion, Holders, Owning
<1>2. QED
  BY <1>1, Invariance, PTL

\* No step takes the lock file away from an attempt that is running under it
\* (rename in tryAcquireLeaseRecord and every rm of the lock path).
THEOREM LiveLeaseStays == ASSUME WakeLease PROVE Spec => OnlyDeadAreRetired
<1>1. IInv /\ [Next]_vars => (lock' # lock => lock \notin Holders)
  <2> SUFFICES ASSUME IInv, [Next]_vars, lock' # lock, lock \in Holders
               PROVE  FALSE
    OBVIOUS
  <2> USE LeaseAssumption DEF LeaseAssumption, Holders, IInv, Owning, OwnersFile
  <2>1. ASSUME NEW p \in Attempts, Acquire(p) PROVE FALSE
    BY <2>1 DEF Acquire, Prepare, Link, Relink, LinkCandidate, Judge, Retire,
         CleanUp, IndexAcquired, files, JudgedIsDead
  <2>2. ASSUME NEW p \in Attempts, Renew(p) \/ Quit(p) \/ Crash(p) PROVE FALSE
    BY <2>2 DEF Renew, RenewOpen, RenewWrite, RenewIndex, Quit, Release,
         ReleaseRemove, ReleaseIndex, Crash, files
  <2>3. ASSUME NEW s \in Sweepers, Sweep(s) PROVE FALSE
    BY <2>3 DEF Sweep, SweepJudge, SweepRemove, SweepUnindex, files, JudgedIsDead
  <2>4. CASE SweepIndex
    BY <2>4 DEF SweepIndex, IndexStale, NoneUnindexed, Fresh, WakeLease, TypeOK
  <2> QED
    BY <2>1, <2>2, <2>3, <2>4 DEF Next, Tick, files, vars
<1>2. [](IInv) /\ [][Next]_vars => OnlyDeadAreRetired
  BY <1>1, PTL DEF OnlyDeadAreRetired
<1>3. QED
  BY <1>2, Invariance, PTL DEF Spec

\* The lock file with its takeovers, heartbeats and sweeps implements the lease of
\* module Lease: every step acquires it, ends the owner's work, ends the lease, or
\* changes nothing of it.
THEOREM FilesImplementLease == ASSUME WakeLease PROVE Spec => ImplementsLease
<1>1. Init => Promise!Init
  BY DEF Init, Promise!Init, Holders
<1>2. IInv /\ [Next]_vars => [Promise!Next]_(Promise!leaseVars)
  <2> SUFFICES ASSUME IInv, [Next]_vars
               PROVE  Promise!Next \/ UNCHANGED <<lock, Holders>>
    BY DEF Promise!leaseVars
  <2> USE LeaseAssumption DEF IInv, TypeOK, Owning, OwnersFile, Alive
  <2>1. ASSUME NEW p \in Attempts, Link(p) \/ Relink(p)
        PROVE  Promise!Next \/ UNCHANGED <<lock, Holders>>
    <3>1. CASE lock = None
      <4>1. lock' = p /\ Holders' = Holders \cup {p}
        BY <2>1, <3>1 DEF Link, Relink, LinkCandidate, Goto, Holders
      <4>2. QED
        BY <3>1, <4>1 DEF Promise!Next, Promise!Acquire
    <3>2. CASE lock # None
      BY <2>1, <3>2 DEF Link, Relink, LinkCandidate, Goto, Holders
    <3>3. QED
      BY <3>1, <3>2
  <2>2. ASSUME NEW p \in Attempts, Retire(p)
        PROVE  Promise!Next \/ UNCHANGED <<lock, Holders>>
    <3>1. lock \notin Holders /\ lock' = None /\ Holders' = Holders
      BY <2>2 DEF Retire, Goto, Holders, JudgedIsDead
    <3>2. QED
      BY <3>1 DEF Promise!Next, Promise!End
  <2>3. ASSUME NEW p \in Attempts, Prepare(p) \/ Judge(p) \/ CleanUp(p) \/ IndexAcquired(p)
        PROVE  UNCHANGED <<lock, Holders>>
    BY <2>3 DEF Prepare, Judge, CleanUp, IndexAcquired, Goto, files, Holders
  <2>4. ASSUME NEW p \in Attempts, Renew(p) PROVE UNCHANGED <<lock, Holders>>
    BY <2>4 DEF Renew, RenewOpen, RenewWrite, RenewIndex, files, Holders
  <2>5. ASSUME NEW p \in Attempts, Release(p) \/ Crash(p)
        PROVE  Promise!Next \/ UNCHANGED <<lock, Holders>>
    <3>1. lock' = lock /\ Holders' = Holders \ {p}
      BY <2>5 DEF Release, Crash, Goto, files, Holders
    <3>2. QED
      BY <3>1 DEF Promise!Next, Promise!Stop
  <2>6. ASSUME NEW p \in Attempts, ReleaseRemove(p)
        PROVE  Promise!Next \/ UNCHANGED <<lock, Holders>>
    <3>1. lock \notin Holders /\ lock' = None /\ Holders' = Holders
      BY <2>6 DEF ReleaseRemove, Goto, Holders
    <3>2. QED
      BY <3>1 DEF Promise!Next, Promise!End
  <2>7. ASSUME NEW p \in Attempts, ReleaseIndex(p) PROVE UNCHANGED <<lock, Holders>>
    BY <2>7 DEF ReleaseIndex, Goto, files, Holders
  <2>8. ASSUME NEW s \in Sweepers, Sweep(s)
        PROVE  Promise!Next \/ UNCHANGED <<lock, Holders>>
    <3>1. Holders' = Holders /\ (lock' = lock \/ (lock \notin Holders /\ lock' = None))
      BY <2>8 DEF Sweep, SweepJudge, SweepRemove, SweepUnindex, files, Holders, JudgedIsDead
    <3>2. QED
      BY <3>1 DEF Promise!Next, Promise!End
  <2>9. CASE SweepIndex
    <3>1. lock \notin Holders /\ lock' = None /\ Holders' = Holders
      BY <2>9 DEF SweepIndex, IndexStale, NoneUnindexed, Fresh, WakeLease, Holders
    <3>2. QED
      BY <3>1 DEF Promise!Next, Promise!End
  <2>10. CASE Tick \/ UNCHANGED vars
    BY <2>10 DEF Tick, files, vars, Holders
  <2>11. QED
    BY <2>1, <2>2, <2>3, <2>4, <2>5, <2>6, <2>7, <2>8, <2>9, <2>10
       DEF Next, Acquire, Quit
<1>3. QED
  BY <1>1, <1>2, Invariance, PTL DEF Spec, ImplementsLease, Promise!Spec

\* What the abstract lease is for: only its owner works under it.  A lease is
\* acquired when nobody has it, and ends when its owner does not work; the lock
\* file's holder and the attempts that hold it keep that promise.
THEOREM OnlyOwnerWorks == Promise!Spec => []Promise!OwnerWorks
<1>1. Promise!Init => Promise!OwnerWorks
  BY DEF Promise!Init, Promise!OwnerWorks
<1>2. Promise!OwnerWorks /\ [Promise!Next]_(Promise!leaseVars) => Promise!OwnerWorks'
  <2>. SUFFICES ASSUME Promise!OwnerWorks, [Promise!Next]_(Promise!leaseVars)
                PROVE  Promise!OwnerWorks'
    OBVIOUS
  <2>. None \notin Attempts
    BY LeaseAssumption
  <2>. QED
    BY DEF Promise!OwnerWorks, Promise!Next, Promise!Acquire, Promise!Stop, Promise!End,
           Promise!leaseVars
<1>. QED
  BY <1>1, <1>2, PTL DEF Promise!Spec
=============================================================================
