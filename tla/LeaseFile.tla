------------------------------ MODULE LeaseFile ------------------------------
(***************************************************************************)
(* The file protocol behind every lease and lock of the session store      *)
(* (src/src/agents/sessions/session-store.ts): one lock path, taken by     *)
(* hard-linking a candidate file to it, kept alive by rewriting its        *)
(* record, taken over by renaming a stale file away, and mirrored in the   *)
(* agent's active-wake-leases index.                                       *)
(*                                                                         *)
(* An attempt is one call of acquireWakeLease and the handle it returns;   *)
(* it creates at most one inode, so attempts name inodes too.  Every await *)
(* of the code at which another process can see or change the files is a   *)
(* step.  The runtime-index lock is taken as given: a read-modify-write of *)
(* the index is one step.                                                  *)
(***************************************************************************)
EXTENDS Naturals

CONSTANTS
  Attempts,        \* calls of acquireWakeLease
  Sweepers,        \* calls of hasActiveWakeLease / readActiveWakeLeaseForAgentSession
  Owners,          \* owner names the callers pass
  OwnerOf,         \* the name each attempt passes; it need not be unique
  None,            \* no file, no index entry
  StaleAfter,      \* staleAfterMs
  MaxTime,         \* bound on the clock
  InvalidIsStale,  \* treatInvalidAsStale: FALSE for the wake leases, TRUE for the
                   \* mutation and index locks, which are not renewed or indexed
  Timely,          \* TRUE: heartbeats and releases beat the staleness deadline
  Solo             \* TRUE: takeovers of a stale file do not overlap

ASSUME LeaseAssumption ==
  /\ OwnerOf \in [Attempts -> Owners]
  /\ None \notin Attempts /\ None \notin Nat
  /\ StaleAfter \in Nat \ {0} /\ MaxTime \in Nat
  /\ InvalidIsStale \in BOOLEAN /\ Timely \in BOOLEAN /\ Solo \in BOOLEAN

VARIABLES
  now,        \* the clock
  lock,       \* the inode at the lock path, or None
  candidate,  \* the inode at each owner's candidate path, or None
  stamp,      \* acquiredAt in each inode
  torn,       \* the inodes truncated and not yet rewritten
  index,      \* acquiredAt of the session's active-wake-leases entry, or None
  pc,         \* where each attempt is
  released,   \* the handle's released flag
  beat,       \* where each handle's heartbeat (renew) is
  beatAt,     \* the acquiredAt the heartbeat is going to write
  beatFile,   \* the inode the heartbeat has open
  sweep       \* where each sweeper is

files == <<lock, candidate, stamp, torn>>
vars  == <<now, lock, candidate, stamp, torn, index, pc, released,
           beat, beatAt, beatFile, sweep>>

-----------------------------------------------------------------------------

\* MUTANT of LooksStale: one unit of time too early
LooksStaleEarly ==
  \/ lock # None /\ lock \notin torn /\ now >= stamp[lock] + StaleAfter - 1
  \/ (lock = None \/ lock \in torn) /\ InvalidIsStale

\* What a reader of the lock path makes of it: readWakeLease then
\* isWakeLeaseStale.  A missing or truncated file has no record.
LooksStale ==
  \/ lock # None /\ lock \notin torn /\ now >= stamp[lock] + StaleAfter
  \/ (lock = None \/ lock \in torn) /\ InvalidIsStale

\* current?.owner === owner, read from the lock path
ReadsOwn(p) == lock # None /\ lock \notin torn /\ OwnerOf[lock] = OwnerOf[p]

IndexStale == index # None /\ now >= index + StaleAfter

\* An attempt whose file is, or may become, the lock file of a running turn.
Alive == {"prepared", "blocked", "judged", "retired", "acquired", "linked",
          "held", "removing"}

\* The attempts whose callers believe they own the session: from the link that
\* won the lock path until release starts.  A handle that lost its lease in
\* renew is still here, because nothing tells the running turn.
Holders == {p \in Attempts : pc[p] \in {"acquired", "linked", "held"}}

\* Nobody is between judging a file stale and removing it.
NoTakeover == /\ \A q \in Attempts : pc[q] # "judged"
              /\ \A s \in Sweepers : sweep[s] # "judged"

\* ... or between winning the path and putting the win in the index.
NoneUnindexed == \A q \in Attempts : pc[q] \notin {"acquired", "linked"}

Init ==
  /\ now = 0 /\ lock = None /\ index = None
  /\ candidate = [o \in Owners |-> None]
  /\ stamp = [p \in Attempts |-> 0]
  /\ torn = {}
  /\ pc = [p \in Attempts |-> "new"]
  /\ released = [p \in Attempts |-> FALSE]
  /\ beat = [p \in Attempts |-> "off"]
  /\ beatAt = [p \in Attempts |-> 0]
  /\ beatFile = [p \in Attempts |-> None]
  /\ sweep = [s \in Sweepers |-> "ready"]

Goto(p, l) == pc' = [pc EXCEPT ![p] = l]
heartbeats == <<released, beat, beatAt, beatFile>>
HeartbeatOver(p) == /\ beat' = [beat EXCEPT ![p] = "off"]
                    /\ beatAt' = [beatAt EXCEPT ![p] = 0]
                    /\ beatFile' = [beatFile EXCEPT ![p] = None]

-----------------------------------------------------------------------------
(* tryAcquireLeaseRecord *)

\* open(candidate, "wx") outside any try: EEXIST propagates to the caller.
Prepare(p) ==
  /\ pc[p] = "new"
  /\ IF candidate[OwnerOf[p]] = None
       THEN /\ candidate' = [candidate EXCEPT ![OwnerOf[p]] = p]
            /\ stamp' = [stamp EXCEPT ![p] = now]
            /\ Goto(p, "prepared")
       ELSE Goto(p, "threw") /\ UNCHANGED <<candidate, stamp>>
  /\ UNCHANGED <<now, lock, torn, index, heartbeats, sweep>>

\* MUTANT of LinkCandidate: rename(candidate, lock), which replaces a held lock
RenameCandidate(p, from, otherwise) ==
  /\ pc[p] = from
  /\ lock' = p /\ Goto(p, "acquired")
  /\ UNCHANGED <<now, candidate, stamp, torn, index, heartbeats, sweep>>

\* link(candidate, lock): the first try, and the one after a takeover
LinkCandidate(p, from, otherwise) ==
  /\ pc[p] = from
  /\ IF lock = None THEN lock' = p /\ Goto(p, "acquired")
                    ELSE Goto(p, otherwise) /\ UNCHANGED lock
  /\ UNCHANGED <<now, candidate, stamp, torn, index, heartbeats, sweep>>

Link(p)   == LinkCandidate(p, "prepared", "blocked")
Relink(p) == LinkCandidate(p, "retired", "refusing")

\* MUTANT of Judge: a lock is only ever found held
JudgeAlwaysFresh(p) ==
  /\ pc[p] = "blocked"
  /\ Goto(p, "refusing")
  /\ UNCHANGED <<now, files, index, heartbeats, sweep>>

\* read the record at the lock path and decide
Judge(p) ==
  /\ pc[p] = "blocked"
  /\ IF LooksStale THEN (Solo => NoTakeover) /\ Goto(p, "judged")
                   ELSE Goto(p, "refusing")
  /\ UNCHANGED <<now, files, index, heartbeats, sweep>>

\* rename(lock, retired): whatever is at the lock path by now
Retire(p) ==
  /\ pc[p] = "judged"
  /\ lock' = None
  /\ Goto(p, IF lock = None THEN "refusing" ELSE "retired")
  /\ UNCHANGED <<now, candidate, stamp, torn, index, heartbeats, sweep>>

\* the finally block: rm(candidate), rm(retired)
CleanUp(p) ==
  /\ pc[p] \in {"acquired", "refusing"}
  /\ candidate' = [candidate EXCEPT ![OwnerOf[p]] = None]
  /\ Goto(p, IF pc[p] = "acquired" THEN "linked" ELSE "refused")
  /\ UNCHANGED <<now, lock, stamp, torn, index, heartbeats, sweep>>

\* MUTANT of IndexAcquired: the entry gets the owner, not the time
IndexAcquiredOwner(p) ==
  /\ pc[p] = "linked"
  /\ index' = p
  /\ Goto(p, "held")
  /\ UNCHANGED <<now, files, heartbeats, sweep>>

\* acquireWakeLease puts the acquired record in the index and returns; the
\* callers of the two locks go straight to their critical section
IndexAcquired(p) ==
  /\ pc[p] = "linked"
  /\ index' = IF InvalidIsStale THEN index ELSE stamp[p]
  /\ Goto(p, "held")
  /\ UNCHANGED <<now, files, heartbeats, sweep>>

-----------------------------------------------------------------------------
(* The handle: renew, on a timer nobody awaits, and release *)

\* renew, up to the truncate: build the record, open the lock path, check the
\* owner.  One heartbeat of a handle is in flight at a time.
RenewOpen(p) ==
  /\ pc[p] = "held" /\ ~released[p] /\ beat[p] = "off" /\ ~InvalidIsStale
  /\ beatAt' = [beatAt EXCEPT ![p] = now]
  /\ beatFile' = [beatFile EXCEPT ![p] = lock]
  /\ IF ReadsOwn(p)
       THEN torn' = torn \cup {lock} /\ beat' = [beat EXCEPT ![p] = "cut"]
       ELSE beat' = [beat EXCEPT ![p] = "lost"] /\ UNCHANGED torn
  /\ UNCHANGED <<now, lock, candidate, stamp, index, pc, released, sweep>>

\* handle.write goes to the inode that was opened, wherever it is now
RenewWrite(p) ==
  /\ beat[p] = "cut"
  /\ stamp' = [stamp EXCEPT ![beatFile[p]] = beatAt[p]]
  /\ torn' = torn \ {beatFile[p]}
  /\ beat' = [beat EXCEPT ![p] = "written"]
  /\ UNCHANGED <<now, lock, candidate, index, pc, released, beatAt, beatFile,
                 sweep>>

\* the owned renewal enters the index; a lost one leaves it, without an error
RenewIndex(p) ==
  /\ beat[p] \in {"written", "lost"}
  /\ index' = IF beat[p] = "written" THEN beatAt[p] ELSE None
  /\ released' = IF beat[p] = "lost" THEN [released EXCEPT ![p] = TRUE] ELSE released
  /\ HeartbeatOver(p)
  /\ UNCHANGED <<now, files, pc, sweep>>

\* release: once, and only a record that reads as one's own is removed
Release(p) ==
  /\ pc[p] = "held"
  /\ released' = [released EXCEPT ![p] = TRUE]
  /\ Goto(p, IF ~released[p] /\ ReadsOwn(p) THEN "removing" ELSE "done")
  /\ UNCHANGED <<now, files, index, beat, beatAt, beatFile, sweep>>

\* rm(lock), not conditioned on what is there
ReleaseRemove(p) ==
  /\ pc[p] = "removing"
  /\ lock' = None
  /\ Goto(p, "unindexing")
  /\ UNCHANGED <<now, candidate, stamp, torn, index, heartbeats, sweep>>

ReleaseIndex(p) ==
  /\ pc[p] = "unindexing"
  /\ index' = None
  /\ Goto(p, "done")
  /\ UNCHANGED <<now, files, heartbeats, sweep>>

\* The process dies at any point of an attempt; its files stay.
Crash(p) ==
  /\ pc[p] \notin {"new", "threw", "refused", "done", "dead"}
  /\ Goto(p, "dead")
  /\ HeartbeatOver(p)
  /\ UNCHANGED <<now, files, index, released, sweep>>

-----------------------------------------------------------------------------
(* Readers that clean up stale leases, and time *)

\* listActiveWakeLeaseSessionIds: the age of the index entry condemns the file
SweepIndex ==
  /\ IndexStale
  /\ Solo => NoTakeover /\ NoneUnindexed
  /\ lock' = None /\ index' = None
  /\ UNCHANGED <<now, candidate, stamp, torn, pc, heartbeats, sweep>>

SweepTo(s, l) == sweep' = [sweep EXCEPT ![s] = l]

\* hasActiveWakeLease and readActiveWakeLeaseForAgentSession read the file ...
SweepJudge(s) ==
  /\ sweep[s] = "ready" /\ ~InvalidIsStale
  /\ lock # None /\ lock \notin torn /\ LooksStale
  /\ Solo => NoTakeover
  /\ SweepTo(s, "judged")
  /\ UNCHANGED <<now, files, index, pc, heartbeats>>

\* ... and remove what is there by then; only the second also syncs the index
SweepRemove(s) ==
  /\ sweep[s] = "judged"
  /\ lock' = None
  /\ \E l \in {"ready", "removed"} : SweepTo(s, l)
  /\ UNCHANGED <<now, candidate, stamp, torn, index, pc, heartbeats>>

SweepUnindex(s) ==
  /\ sweep[s] = "removed"
  /\ index' = None
  /\ SweepTo(s, "ready")
  /\ UNCHANGED <<now, files, pc, heartbeats>>

\* What Timely asks of the heartbeat interval (60 s against 10 min): no
\* record of a live attempt, no heartbeat in flight, and no index entry under a
\* held lease grows old.
BeatsDeadline ==
  \A p \in Attempts :
    /\ pc[p] \in Alive => now + 1 < stamp[p] + StaleAfter
    /\ beat[p] # "off" => now + 1 < beatAt[p] + StaleAfter
    /\ pc[p] \in {"held", "removing", "unindexing"} /\ index # None
         => now + 1 < index + StaleAfter

Tick ==
  /\ now < MaxTime
  /\ Timely => BeatsDeadline
  /\ now' = now + 1
  /\ UNCHANGED <<files, index, pc, heartbeats, sweep>>

-----------------------------------------------------------------------------

Acquire(p) == Prepare(p) \/ Link(p) \/ Judge(p) \/ Retire(p) \/ Relink(p)
                \/ CleanUp(p) \/ IndexAcquired(p)
Renew(p)   == RenewOpen(p) \/ RenewWrite(p) \/ RenewIndex(p)
Quit(p)    == Release(p) \/ ReleaseRemove(p) \/ ReleaseIndex(p)
Sweep(s)   == SweepJudge(s) \/ SweepRemove(s) \/ SweepUnindex(s)

Next == \/ \E p \in Attempts : Acquire(p) \/ Renew(p) \/ Quit(p) \/ Crash(p)
        \/ \E s \in Sweepers : Sweep(s)
        \/ SweepIndex
        \/ Tick

Spec == Init /\ [][Next]_vars

\* A process that does not crash goes on with its call; starting one, renewing
\* and releasing are the caller's choice.
Progress(p) == \/ Link(p) \/ Judge(p) \/ Retire(p) \/ Relink(p) \/ CleanUp(p)
               \/ IndexAcquired(p) \/ RenewWrite(p) \/ RenewIndex(p)
               \/ ReleaseRemove(p) \/ ReleaseIndex(p)
FairSpec == Spec /\ \A p \in Attempts : WF_vars(Progress(p))
                 /\ \A s \in Sweepers : WF_vars(SweepRemove(s) \/ SweepUnindex(s))

-----------------------------------------------------------------------------

TypeOK ==
  /\ now \in Nat
  /\ lock \in Attempts \cup {None}
  /\ candidate \in [Owners -> Attempts \cup {None}]
  /\ stamp \in [Attempts -> Nat]
  /\ torn \subseteq Attempts
  /\ index \in Nat \cup {None}
  /\ pc \in [Attempts -> Alive \cup {"new", "refusing", "unindexing", "threw",
                                     "refused", "done", "dead"}]
  /\ released \in [Attempts -> BOOLEAN]
  /\ beat \in [Attempts -> {"off", "cut", "written", "lost"}]
  /\ beatAt \in [Attempts -> Nat]
  /\ beatFile \in [Attempts -> Attempts \cup {None}]
  /\ sweep \in [Sweepers -> {"ready", "judged", "removed"}]

\* Two turns never run the same session: at most one attempt believes it holds
\* the lease.  It relates the holders' progress to the one lock path that
\* tryAcquireLeaseRecord, renew, release and the three sweeps all rewrite.
Exclusion == \A p, q \in Holders : p = q

\* While somebody may still run under the file at the lock path, nobody but its
\* creator unlinks or replaces it: takeovers hit only the files of the dead.
OnlyDeadAreRetired == [][lock' # lock => lock \notin Holders]_vars

\* A stale lease is recovered: a contender that meets the well-formed stale file
\* of a dead process sees it replaced, unless it dies on the way.
StaleIsReplaced ==
  \A d, p \in Attempts :
    (pc[d] = "dead" /\ lock = d /\ d \notin torn /\ LooksStale
        /\ pc[p] \in {"prepared", "blocked"})
      ~> (lock # d \/ pc[p] = "dead")

\* The files implement the lease: whoever wins the lock path acquires it, its work
\* under it ends when it starts to release or dies, and the file goes away after.
Promise == INSTANCE Lease WITH Callers <- Attempts, owner <- lock, working <- Holders
ImplementsLease == Promise!Spec
=============================================================================
