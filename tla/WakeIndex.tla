------------------------------ MODULE WakeIndex ------------------------------
(***************************************************************************)
(* The agent's pending-wake index and the lock file around it              *)
(* (src/src/agents/runtime/session-wake-queue.ts): one JSON file with an   *)
(* entry per session, rewritten whole by syncPendingWakeSessionIndex.      *)
(*                                                                         *)
(* Each session has one caller, the worker that holds its wake lease and   *)
(* has just changed its wake journal; callers of different sessions run at *)
(* the same time.  The lock of withPendingWakeIndexLock is a file created  *)
(* with "wx" and filled afterwards; a contender that cannot make sense of  *)
(* it, or finds it old, removes it and tries again.                        *)
(***************************************************************************)
EXTENDS Naturals, FiniteSets

CONSTANTS
  Sessions,
  Dues,        \* what a session's earliest pending wake may be due at
  None,
  StaleAfter,  \* DEFAULT_PENDING_WAKE_INDEX_LOCK_STALE_MS
  MaxTime,     \* bound on the clock
  Timely,      \* a running holder is done before its lock grows stale
  Solo         \* a lock file is filled, and a stale one removed, undisturbed

ASSUME WakeIndexAssumption ==
  /\ StaleAfter \in Nat \ {0} /\ MaxTime \in Nat
  /\ Timely \in BOOLEAN /\ Solo \in BOOLEAN
  /\ None \notin Dues \cup Nat \cup Sessions \cup [owner : Sessions, stamp : Nat \cup {None}]

VARIABLES
  now,
  lock,   \* the lock file: None, or its creator and the stamp written into it
  index,  \* the entry of each session in the file: nextDueAt, or None
  want,   \* the earliest pending wake in each session's journal
  seen,   \* the file as the caller read it, until it has written it back
  pc

vars == <<now, lock, index, want, seen, pc>>

Blank == [s \in Sessions |-> None]
Holding == {"read", "write", "check", "remove"}
Steps == Holding \cup {"idle", "open", "fill", "judge", "retire", "failed", "dead"}

Init ==
  /\ now = 0 /\ lock = None /\ index = Blank /\ want = Blank
  /\ seen = [s \in Sessions |-> Blank]
  /\ pc = [s \in Sessions |-> "idle"]

Goto(s, step) == pc' = [pc EXCEPT ![s] = step]
Retiring == \E s \in Sessions : pc[s] = "retire"
Filling == \E s \in Sessions : pc[s] = "fill"

\* the worker has appended to its session's journal and goes to sync the index
Change(s) ==
  /\ pc[s] = "idle"
  /\ \E due \in (Dues \cup {None}) \ {want[s]} : want' = [want EXCEPT ![s] = due]
  /\ Goto(s, "open")
  /\ UNCHANGED <<now, lock, index, seen>>

\* open(lockPath, "wx")
Open(s) ==
  /\ pc[s] = "open"
  /\ Solo => ~Retiring
  /\ IF lock = None
       THEN lock' = [owner |-> s, stamp |-> None] /\ Goto(s, "fill")
       ELSE lock' = lock /\ Goto(s, "judge")
  /\ UNCHANGED <<now, index, want, seen>>

\* MUTANT of Fill: the record says when the lock ends, not when it was taken
FillAhead(s) ==
  /\ pc[s] = "fill"
  /\ lock' = IF lock # None /\ lock.owner = s
             THEN [owner |-> s, stamp |-> now + StaleAfter] ELSE lock
  /\ Goto(s, "read")
  /\ UNCHANGED <<now, index, want, seen>>

\* handle.writeFile: the record lands in the path only if the file is still there
Fill(s) ==
  /\ pc[s] = "fill"
  /\ lock' = IF lock # None /\ lock.owner = s THEN [owner |-> s, stamp |-> now] ELSE lock
  /\ Goto(s, "read")
  /\ UNCHANGED <<now, index, want, seen>>

\* no file, an unreadable one and an old one are all the same to a contender
Condemned == lock = None \/ lock.stamp = None \/ now - lock.stamp >= StaleAfter

\* read the record; wait and retry, or go and remove the file
Judge(s) ==
  /\ pc[s] = "judge"
  /\ Solo => ~Retiring /\ ~Filling
  /\ Goto(s, IF Condemned THEN "retire" ELSE "open")
  /\ UNCHANGED <<now, lock, index, want, seen>>

\* MUTANT of Retire: a stale lock is looked at and left in place
RetireNothing(s) ==
  /\ pc[s] = "retire"
  /\ Goto(s, "open")
  /\ UNCHANGED <<now, lock, index, want, seen>>

\* rm(lockPath, force), whatever is there by now
Retire(s) ==
  /\ pc[s] = "retire"
  /\ lock' = None
  /\ Goto(s, "open")
  /\ UNCHANGED <<now, index, want, seen>>

\* "Timed out acquiring pending wake index lock": the caller's operation throws
TimeOut(s) ==
  /\ pc[s] = "judge" /\ ~Condemned
  /\ Goto(s, "failed")
  /\ UNCHANGED <<now, lock, index, want, seen>>

Read(s) ==
  /\ pc[s] = "read"
  /\ seen' = [seen EXCEPT ![s] = index]
  /\ Goto(s, "write")
  /\ UNCHANGED <<now, lock, index, want>>

\* MUTANT of Write: the caller's own entry is written into a fresh file
WriteOwn(s) ==
  /\ pc[s] = "write"
  /\ index' = [Blank EXCEPT ![s] = want[s]]
  /\ seen' = [seen EXCEPT ![s] = Blank]
  /\ Goto(s, "check")
  /\ UNCHANGED <<now, lock, want>>

\* the other sessions' entries as read, the caller's own from its journal
Write(s) ==
  /\ pc[s] = "write"
  /\ index' = [seen[s] EXCEPT ![s] = want[s]]
  /\ seen' = [seen EXCEPT ![s] = Blank]
  /\ Goto(s, "check")
  /\ UNCHANGED <<now, lock, want>>

\* finally: is the file still the caller's?
Check(s) ==
  /\ pc[s] = "check"
  /\ Goto(s, IF lock # None /\ lock.stamp # None /\ lock.owner = s THEN "remove" ELSE "idle")
  /\ UNCHANGED <<now, lock, index, want, seen>>

Remove(s) ==
  /\ pc[s] = "remove"
  /\ lock' = None
  /\ Goto(s, "idle")
  /\ UNCHANGED <<now, index, want, seen>>

Crash(s) ==
  /\ pc[s] \notin {"idle", "failed", "dead"}
  /\ Goto(s, "dead")
  /\ UNCHANGED <<now, lock, index, want, seen>>

Tick ==
  /\ now < MaxTime
  /\ Timely => ~ \E s \in Sessions :
       /\ pc[s] \in Holding /\ lock # None /\ lock.owner = s
       /\ lock.stamp # None /\ now + 1 - lock.stamp >= StaleAfter
  /\ now' = now + 1
  /\ UNCHANGED <<lock, index, want, seen, pc>>

Sync(s) == Open(s) \/ Fill(s) \/ Judge(s) \/ Retire(s) \/ Read(s) \/ Write(s)
             \/ Check(s) \/ Remove(s)

Next == Tick \/ \E s \in Sessions : Change(s) \/ Sync(s) \/ TimeOut(s) \/ Crash(s)

Spec == Init /\ [][Next]_vars

\* A caller that is not dead runs its steps to the end.
FairSpec == Spec /\ \A s \in Sessions : WF_vars(Sync(s))

-----------------------------------------------------------------------------

TypeOK ==
  /\ now \in 0..MaxTime
  /\ lock = None \/ lock \in [owner : Sessions, stamp : 0..MaxTime \cup {None}]
  /\ index \in [Sessions -> Dues \cup {None}] /\ want \in [Sessions -> Dues \cup {None}]
  /\ seen \in [Sessions -> [Sessions -> Dues \cup {None}] ]
  /\ pc \in [Sessions -> Steps]

LockIsDead == lock # None /\ pc[lock.owner] = "dead"

\* The index agrees with the journal of every session whose caller is done,
\* however the callers of other sessions interleave, crash or time out: nobody's
\* rewrite of the file loses a wake that another session has queued.
EntriesKept == \A s \in Sessions : pc[s] = "idle" => index[s] = want[s]

\* A lock left by a crashed caller blocks the others only until it is stale: a
\* contender that meets it then gets rid of it, whoever crashes meanwhile.
StaleIsRetired ==
  \A s \in Sessions :
    (LockIsDead /\ Condemned /\ pc[s] \in {"open", "judge"})
      ~> (~LockIsDead \/ pc[s] = "dead")
=============================================================================
