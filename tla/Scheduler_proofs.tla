-------------------------- MODULE Scheduler_proofs --------------------------
(* Theorems about Scheduler for any number of loops and sessions, whatever   *)
(* their priorities, arrivals and modes.  Nothing here needs its fairness.   *)
EXTENDS Scheduler, TLAPS

\* A loop inside an activation holds the wake lease of its session, and lives.
Working == {"wake", "turn", "release"}
HolderWorks ==
  \A l \in Loops : pc[l] \in Working =>
    pick[l].session \in Sessions /\ lease[pick[l].session] = l /\ pick[l].session \notin stale

\* What a loop has found to do is a session.
PickIsSession ==
  \A l \in Loops : pc[l] \in {"claim", "reconcile", "backoff"} => pick[l].session \in Sessions

\* A session that waits has been ready and free all the time, and is so now.
WaitingIsReady == \A l \in Loops : waiting[l] \subseteq Ready

\* What a loop does not look at any more in this cycle it has tried, or it was
\* leased to another loop and does not wait.
ExcludedIsTried ==
  \A l \in Loops : pc[l] \in {"find", "claim"} => waiting[l] \cap excluded[l] \subseteq attempted[l]

SweepInv == HolderWorks /\ PickIsSession /\ WaitingIsReady /\ ExcludedIsTried /\ CycleSweeps

-----------------------------------------------------------------------------

\* The sets of TypeOK that the proofs name
Ears == {"off", "quiet", "told", "deaf"}

Picks == [session : Sessions \cup {None}, took : BOOLEAN,
          kind : {"none", "pending_events", "queued_wake"},
          end : {"none", "idle", "acked", "failed"}]

PCs == {"cycle", "lease", "find", "claim", "wake", "turn", "release",
        "reconcile", "backoff", "rest", "check", "asleep", "stopped", "dead"}

SearchTypeOK ==
  /\ attempted \in [Loops -> SUBSET Sessions] /\ excluded \in [Loops -> SUBSET Sessions]
  /\ blocked \in [Loops -> Sessions \cup {None}] /\ ran \in [Loops -> BOOLEAN]
  /\ pick \in [Loops -> Picks]
  /\ waiting \in [Loops -> SUBSET Sessions]

\* What the writers of an index do to the listeners keeps their type, and leaves
\* none quiet.
LEMMA Listeners ==
  ASSUME ear \in [Loops -> Ears], Told \/ Untold
  PROVE  /\ ear' \in [Loops -> Ears]
         /\ \A l \in Loops : ear'[l] # "quiet"
<1>1. CASE Told
  <2>1. PICK lost \in SUBSET {l \in Loops : ear[l] = "quiet"} :
          ear' = [l \in Loops |-> IF l \in lost THEN "deaf"
                                  ELSE IF ear[l] = "quiet" THEN "told" ELSE ear[l]]
    BY <1>1 DEF Told
  <2>2. QED
    BY <2>1 DEF Ears
<1>2. CASE Untold
  BY <1>2 DEF Untold, Ears
<1>3. QED
  BY <1>1, <1>2

\* A map to sets stays one when a set is replaced.
LEMMA Replaced ==
  ASSUME NEW f \in [Loops -> SUBSET Sessions], NEW g, NEW l \in Loops,
         g = f \/ \E S \in SUBSET Sessions : g = [f EXCEPT ![l] = S]
  PROVE  g \in [Loops -> SUBSET Sessions]
OBVIOUS

\* The end of a cycle keeps the types of the loop's variables.
LEMMA ForgetsTypes ==
  ASSUME SearchTypeOK, NEW l \in Loops, Forgets(l) PROVE SearchTypeOK'
<1>1. NoPick \in Picks
  BY DEF NoPick, Picks
<1>2. QED
  BY <1>1 DEF SearchTypeOK, Forgets

\* The steps around the loops keep the types.
LEMMA AroundTypes == ASSUME TypeOK, Around PROVE TypeOK'
<1> USE DEF TypeOK, Ears
<1>1. ASSUME NEW s \in Sessions, Emit(s) PROVE TypeOK'
  <2>1. ear' \in [Loops -> Ears]
    BY <1>1, Listeners DEF Emit
  <2>2. QED
    BY <1>1, <2>1 DEF Emit, leases, search
<1>2. ASSUME NEW s \in Sessions, NEW when \in {"due", "later"}, Enqueue(s, when) PROVE TypeOK'
  <2>1. ear' \in [Loops -> Ears]
    BY <1>2, Listeners DEF Enqueue
  <2>2. QED
    BY <1>2, <2>1 DEF Enqueue, leases, search
<1>3. ASSUME NEW s \in Sessions, Elapse(s) PROVE TypeOK'
  <2>1. ear' \in [Loops -> Ears]
    BY <1>3, Listeners DEF Elapse
  <2>2. /\ events' \in [Sessions -> {"none", "now", "later"}]
        /\ wakes' \in [Sessions -> {"none", "due", "later"}]
    BY <1>3 DEF Elapse
  <2>3. QED
    BY <1>3, <2>1, <2>2 DEF Elapse, leases, search
<1>4. ASSUME NEW l \in Loops, Die(l) \/ Interrupted(l) PROVE TypeOK'
  <2>1. SearchTypeOK'
    BY <1>4, ForgetsTypes DEF Die, Interrupted, SearchTypeOK, Picks
  <2>2. pc' \in [Loops -> PCs]
    BY <1>4 DEF Die, Interrupted, Goto, PCs
  <2>3. QED
    BY <1>4, <2>1, <2>2 DEF Die, Interrupted, indexes, leases, SearchTypeOK, PCs, Picks
<1>5. ASSUME NEW s \in Sessions, GrowStale(s) PROVE TypeOK'
  <2>1. ear' \in [Loops -> Ears]
    BY <1>5, Listeners DEF GrowStale
  <2>2. QED
    BY <1>5, <2>1 DEF GrowStale, indexes, search
<1>6. QED
  BY <1>1, <1>2, <1>3, <1>4, <1>5 DEF Around

\* The steps of a cycle up to the claim of a session keep the types.
LEMMA SearchTypes ==
  ASSUME TypeOK, PickIsSession, NEW l \in Loops,
         StartCycle(l) \/ ListLeases(l) \/ Find(l) \/ Claim(l)
  PROVE  TypeOK'
<1> USE DEF TypeOK, Goto, Ears, Picks
<1>1. CASE StartCycle(l)
  BY <1>1 DEF StartCycle, Ready, Leased, indexes, leases
<1>2. CASE ListLeases(l)
  BY <1>2 DEF ListLeases, Leased, indexes, leases
<1>3. CASE Find(l)
  <2>1. UNCHANGED <<indexes, leases, mode, excluded, ran, ear, waiting>>
    BY <1>3 DEF Find
  <2>2. attempted' \in [Loops -> SUBSET Sessions] /\ blocked' \in [Loops -> Sessions \cup {None}]
    <3>1. attempted' = attempted \/ attempted' = [attempted EXCEPT ![l] = @ \cup ({blocked[l]} \ {None})]
      <4>1. CASE Candidates(l) = {}
        BY <1>3, <4>1 DEF Find
      <4>2. CASE Candidates(l) # {}
        BY <1>3, <4>2 DEF Find
      <4>3. QED
        BY <4>1, <4>2
    <3>2. blocked' = blocked \/ blocked' = [blocked EXCEPT ![l] = None]
      BY <1>3 DEF Find
    <3>3. {blocked[l]} \ {None} \in SUBSET Sessions
      OBVIOUS
    <3>4. attempted' \in [Loops -> SUBSET Sessions]
      BY <3>1, <3>3, Replaced, attempted[l] \cup ({blocked[l]} \ {None}) \in SUBSET Sessions
    <3>5. QED
      BY <3>2, <3>4
  <2>3. pc' \in [Loops -> PCs]
    <3>1. \E step \in PCs : pc' = [pc EXCEPT ![l] = step]
      BY <1>3 DEF Find, PCs
    <3>2. QED
      BY <3>1 DEF PCs
  <2>4. pick' \in [Loops -> Picks]
    <3>1. NoPick \in Picks
      BY DEF NoPick
    <3>2. \A s \in Candidates(l) : [NoPick EXCEPT !.session = s, !.kind = Kind(s)] \in Picks
      BY DEF NoPick, Kind, Candidates, Ready
    <3>3. \E p \in Picks : pick' = [pick EXCEPT ![l] = p]
      BY <1>3, <3>1, <3>2 DEF Find
    <3>4. QED
      BY <3>3
  <2>5. QED
    BY <2>1, <2>2, <2>3, <2>4 DEF indexes, leases, PCs
<1>4. CASE Claim(l)
  <2>1. pick[l].session \in Sessions
    BY <1>4 DEF Claim, PickIsSession
  <2>2. ear' \in [Loops -> Ears]
    BY <1>4, Listeners DEF Claim
  <2>3. stale' \subseteq {s \in Sessions : lease'[s] # None}
    BY <1>4, <2>1, SchedulerAssumption DEF Claim, Fresh, leases, SchedulerAssumption
  <2>4. lease' \in [Sessions -> Loops \cup {None}] /\ pc' \in [Loops -> PCs]
    <3>1. lease' = lease \/ lease' = [lease EXCEPT ![pick[l].session] = l]
      BY <1>4 DEF Claim, leases
    <3>2. \E step \in PCs : pc' = [pc EXCEPT ![l] = step]
      BY <1>4 DEF Claim, PCs
    <3>3. lease' \in [Sessions -> Loops \cup {None}]
      BY <2>1, <3>1
    <3>4. pc' \in [Loops -> PCs]
      BY <3>2 DEF PCs
    <3>5. QED
      BY <3>3, <3>4
  <2>5. SearchTypeOK'
    <3>1. excluded' = [excluded EXCEPT ![l] = {}]
             \/ excluded' = [excluded EXCEPT ![l] = @ \cup {pick[l].session}]
      BY <1>4 DEF Claim
    <3>2. excluded' \in [Loops -> SUBSET Sessions]
      BY <2>1, <3>1, Replaced, {} \in SUBSET Sessions, excluded[l] \cup {pick[l].session} \in SUBSET Sessions
    <3>3. attempted' = attempted \/ attempted' = [attempted EXCEPT ![l] = @ \cup {pick[l].session}]
      BY <1>4 DEF Claim, Tried
    <3>4. attempted' \in [Loops -> SUBSET Sessions]
      BY <2>1, <3>3, Replaced, attempted[l] \cup {pick[l].session} \in SUBSET Sessions
    <3>5. waiting' \in [Loops -> SUBSET Sessions]
      BY <1>4 DEF Claim, NoLongerWaiting
    <3>6. blocked' \in [Loops -> Sessions \cup {None}]
      BY <1>4, <2>1 DEF Claim
    <3>7. UNCHANGED <<pick, ran>>
      BY <1>4 DEF Claim
    <3>8. QED
      BY <3>2, <3>4, <3>5, <3>6, <3>7 DEF SearchTypeOK
  <2>6. QED
    BY <1>4, <2>2, <2>3, <2>4, <2>5 DEF Claim, indexes, PCs, SearchTypeOK
<1>5. QED
  BY <1>1, <1>2, <1>3, <1>4

\* So do the steps of an activation.
LEMMA TurnTypes ==
  ASSUME TypeOK, HolderWorks, PickIsSession, NEW l \in Loops, Turn(l) PROVE TypeOK'
<1> DEFINE s == pick[l].session
<1>1. s \in Sessions /\ pick[l] \in Picks
  BY DEF Turn, BeginTurn, EndTurn, Release, Reconcile, Backoff, HolderWorks, PickIsSession,
         Working, TypeOK, Picks
<1>2. ear' \in [Loops -> Ears]
  BY Listeners DEF Turn, BeginTurn, EndTurn, Release, TellRelease, Reconcile, Backoff, TypeOK, Ears
<1>3. events' \in [Sessions -> {"none", "now", "later"}]
  <2>1. events' = events \/ \E e \in {"none", "now", "later"} : events' = [events EXCEPT ![s] = e]
    BY DEF Turn, BeginTurn, EndTurn, Release, Reconcile, Backoff, Completes, Defers, Throws,
           indexes, TypeOK
  <2>2. QED
    BY <2>1 DEF TypeOK
<1>4. wakes' \in [Sessions -> {"none", "due", "later"}]
  <2>1. wakes' = wakes \/ \E w \in {"none", "later"} : wakes' = [wakes EXCEPT ![s] = w]
                       \/ wakes' = [wakes EXCEPT ![s] = wakes[s]]
    BY DEF Turn, BeginTurn, EndTurn, Release, Reconcile, Backoff, Completes, Defers, Throws, Later,
           indexes
  <2>2. QED
    BY <1>1, <2>1 DEF TypeOK
<1>5. arrived' \subseteq Sessions
  BY DEF Turn, BeginTurn, EndTurn, Release, Reconcile, Backoff, indexes, TypeOK
<1>6. /\ lease' \in [Sessions -> Loops \cup {None}]
      /\ stale' \subseteq {t \in Sessions : lease'[t] # None}
  <2>1. CASE Release(l)
    BY <1>1, <2>1 DEF Release, HolderWorks, Working, TypeOK
  <2>2. CASE ~Release(l)
    BY <2>2 DEF Turn, BeginTurn, EndTurn, Reconcile, Backoff, leases, TypeOK
  <2>3. QED
    BY <2>1, <2>2
<1>7. pc' \in [Loops -> PCs]
  <2>1. \E step \in PCs : pc' = [pc EXCEPT ![l] = step]
    BY DEF Turn, BeginTurn, EndTurn, Release, Reconcile, Backoff, Goto, PCs
  <2>2. QED
    BY <2>1 DEF TypeOK, PCs
<1>8. pick' \in [Loops -> Picks]
  <2>1. NoPick \in Picks /\ \A took \in BOOLEAN : [pick[l] EXCEPT !.took = took] \in Picks
    BY <1>1 DEF NoPick, Picks
  <2>2. \A end \in {"idle", "acked", "failed"} : [pick[l] EXCEPT !.end = end] \in Picks
    BY <1>1 DEF Picks
  <2>3. pick' = pick \/ \E p \in Picks : pick' = [pick EXCEPT ![l] = p]
    BY <1>1, <2>1, <2>2 DEF Turn, BeginTurn, EndTurn, Release, Reconcile, Backoff, search
  <2>4. QED
    BY <2>3 DEF TypeOK, Picks
<1>9. ran' \in [Loops -> BOOLEAN] /\ waiting' \in [Loops -> SUBSET Sessions]
  <2>1. waiting' \in [Loops -> SUBSET Sessions]
    BY DEF Turn, BeginTurn, EndTurn, Release, Reconcile, Backoff, NoLongerWaiting, TypeOK
  <2>2. (ran[l] \/ pick[l].end = "acked") \in BOOLEAN
    OBVIOUS
  <2>3. ran' = ran \/ \E b \in BOOLEAN : ran' = [ran EXCEPT ![l] = b]
    BY <2>2 DEF Turn, BeginTurn, EndTurn, Release, Reconcile, Backoff
  <2>4. QED
    BY <2>1, <2>3 DEF TypeOK
<1>10. UNCHANGED <<mode, attempted, excluded, blocked>>
  BY DEF Turn, BeginTurn, EndTurn, Release, Reconcile, Backoff, search
<1>11. QED
  BY <1>2, <1>3, <1>4, <1>5, <1>6, <1>7, <1>8, <1>9, <1>10 DEF TypeOK, Ears, PCs, Picks

\* So do the steps between cycles.
LEMMA RestTypes ==
  ASSUME TypeOK, NEW l \in Loops,
         Drain(l) \/ Listen(l) \/ LastCycle(l) \/ Check(l) \/ Woken(l) \/ Timeout(l)
  PROVE  TypeOK'
<1>1. SearchTypeOK'
  <2>1. SearchTypeOK
    BY DEF TypeOK, SearchTypeOK, Picks
  <2>2. CASE Forgets(l)
    BY <2>1, <2>2, ForgetsTypes
  <2>3. CASE ~Forgets(l)
    BY <2>1, <2>3
    DEF Drain, Listen, LastCycle, Check, Woken, Timeout, Hangup, SearchTypeOK, search
  <2>4. QED
    BY <2>2, <2>3
<1>2. pc' \in [Loops -> PCs]
  <2>1. \E step \in PCs : pc' = [pc EXCEPT ![l] = step]
    BY DEF Drain, Listen, LastCycle, Check, Woken, Timeout, Hangup, Goto, PCs
  <2>2. QED
    BY <2>1 DEF TypeOK, PCs
<1>3. ear' \in [Loops -> Ears]
  BY DEF Drain, Listen, LastCycle, Check, Woken, Timeout, Hangup, TypeOK, Ears
<1>4. mode' \in [Loops -> LoopModes \cup {"last"}]
  BY DEF Drain, Listen, LastCycle, Check, Woken, Timeout, Hangup, TypeOK, LoopModes
<1>5. UNCHANGED <<indexes, leases>>
  BY DEF Drain, Listen, LastCycle, Check, Woken, Timeout, Hangup
<1>6. QED
  BY <1>1, <1>2, <1>3, <1>4, <1>5
  DEF TypeOK, SearchTypeOK, Ears, PCs, Picks, indexes, leases

-----------------------------------------------------------------------------

\* The steps around the loops: work comes, and a loop that dies or is interrupted
\* forgets its cycle.
LEMMA AroundSweeps == ASSUME TypeOK, SweepInv, Around PROVE SweepInv'
<1> USE DEF SweepInv
<1>1. ASSUME NEW s \in Sessions, Emit(s) \/ Enqueue(s, "due") \/ Enqueue(s, "later") \/ Elapse(s)
      PROVE SweepInv'
  <2>1. Ready \subseteq Ready'
    BY <1>1 DEF Emit, Enqueue, Elapse, Ready, Free, Work, leases, TypeOK
  <2>2. UNCHANGED <<leases, pc, search, waiting>>
    BY <1>1 DEF Emit, Enqueue, Elapse
  <2>3. QED
    BY <2>1, <2>2
    DEF HolderWorks, PickIsSession, WaitingIsReady, ExcludedIsTried, CycleSweeps, leases, search
<1>2. ASSUME NEW l \in Loops, Die(l) \/ Interrupted(l) PROVE SweepInv'
  <2>1. /\ waiting' = [waiting EXCEPT ![l] = {}] /\ UNCHANGED <<indexes, leases>>
        /\ pick' = [pick EXCEPT ![l] = NoPick]
        /\ attempted' = [attempted EXCEPT ![l] = {}] /\ excluded' = [excluded EXCEPT ![l] = {}]
        /\ \E step \in {"dead", "stopped"} : pc' = [pc EXCEPT ![l] = step]
    BY <1>2 DEF Die, Interrupted, Forgets, Goto
  <2>2. Ready' = Ready
    BY <2>1 DEF Ready, Free, Work, indexes, leases
  <2>3. QED
    BY <2>1, <2>2
    DEF HolderWorks, PickIsSession, WaitingIsReady, ExcludedIsTried, CycleSweeps, leases, Working,
        TypeOK
<1>3. ASSUME NEW s \in Sessions, GrowStale(s) PROVE SweepInv'
  <2>1. Ready \subseteq Ready'
    BY <1>3 DEF GrowStale, Ready, Free, Work, indexes
  <2>2. UNCHANGED <<lease, pc, search, waiting>> /\ stale' = stale \cup {s} /\ pc[lease[s]] = "dead"
    BY <1>3 DEF GrowStale
  <2>3. QED
    BY <2>1, <2>2
    DEF HolderWorks, PickIsSession, WaitingIsReady, ExcludedIsTried, CycleSweeps, Working, search
<1>4. QED
  BY <1>1, <1>2, <1>3 DEF Around

\* The search of a cycle: what a loop leaves out is leased, so that nobody who
\* waits is among it, and it ends only when no other session is ready.
LEMMA SearchSweeps ==
  ASSUME TypeOK, SweepInv, NEW l \in Loops,
         StartCycle(l) \/ ListLeases(l) \/ Find(l) \/ Claim(l)
  PROVE  SweepInv'
<1> USE DEF SweepInv
<1>1. CASE StartCycle(l) \/ ListLeases(l)
  <2>1. Leased \cap Ready = {}
    BY DEF Leased, Ready
  <2>2. UNCHANGED <<indexes, leases, attempted, pick>> /\ pc' = [pc EXCEPT ![l] = "find"]
    BY <1>1 DEF StartCycle, ListLeases, Goto
  <2>3. Ready' = Ready
    BY <2>2 DEF Ready, Free, Work, indexes, leases
  <2>4. /\ \A m \in Loops : waiting'[m] \subseteq Ready
        /\ \A m \in Loops \ {l} : waiting'[m] = waiting[m] /\ excluded'[m] = excluded[m]
        /\ excluded'[l] = Leased \/ excluded'[l] = attempted[l] \cup Leased
    BY <1>1 DEF StartCycle, ListLeases, WaitingIsReady, TypeOK
  <2>5. ExcludedIsTried'
    BY <2>1, <2>2, <2>4 DEF ExcludedIsTried, TypeOK
  <2>6. QED
    BY <2>2, <2>3, <2>4, <2>5
    DEF HolderWorks, PickIsSession, WaitingIsReady, CycleSweeps, Working, leases, TypeOK
<1>2. CASE Find(l)
  <2>1. UNCHANGED <<indexes, leases, excluded, waiting>> /\ pc[l] = "find"
    BY <1>2 DEF Find
  <2>2. Ready' = Ready
    BY <2>1 DEF Ready, Free, Work, indexes, leases
  <2>3. CASE Candidates(l) = {}
    <3>1. \E step \in {"rest", "lease"} : pc' = [pc EXCEPT ![l] = step]
      BY <1>2, <2>3 DEF Find, Goto
    <3>2. /\ pick' = [pick EXCEPT ![l] = NoPick]
          /\ attempted' = [attempted EXCEPT ![l] = @ \cup ({blocked[l]} \ {None})]
      BY <1>2, <2>3 DEF Find
    <3>3. waiting[l] \subseteq attempted[l]
      BY <2>1, <2>3 DEF Candidates, WaitingIsReady, ExcludedIsTried
    <3>4. QED
      BY <2>1, <2>2, <3>1, <3>2, <3>3
      DEF HolderWorks, PickIsSession, WaitingIsReady, ExcludedIsTried, CycleSweeps, Working,
          leases, TypeOK
  <2>4. CASE Candidates(l) # {}
    <3>1. PICK s \in Candidates(l) :
            pick' = [pick EXCEPT ![l] = [NoPick EXCEPT !.session = s, !.kind = Kind(s)]]
      BY <1>2, <2>4 DEF Find
    <3>2. pick'[l].session = s /\ s \in Sessions
      BY <3>1 DEF NoPick, Candidates, Ready, TypeOK
    <3>3. pc' = [pc EXCEPT ![l] = "claim"] /\ attempted' = attempted
      BY <1>2, <2>4 DEF Find, Goto
    <3>4. QED
      BY <2>1, <2>2, <3>1, <3>2, <3>3
      DEF HolderWorks, PickIsSession, WaitingIsReady, ExcludedIsTried, CycleSweeps, Working,
          leases, TypeOK
  <2>5. QED
    BY <2>3, <2>4
<1>3. CASE Claim(l)
  <2> DEFINE s == pick[l].session
  <2>1. s \in Sessions /\ UNCHANGED <<indexes, pick>> /\ pc[l] = "claim"
    BY <1>3 DEF Claim, PickIsSession
  <2>2. CASE Free(s)
    <3>1. /\ lease' = [lease EXCEPT ![s] = l] /\ stale' = stale \ {s}
          /\ attempted' = [attempted EXCEPT ![l] = @ \cup {s}]
          /\ pc' = [pc EXCEPT ![l] = "wake"]
          /\ waiting' = [m \in Loops |-> waiting[m] \ {s}]
          /\ excluded' = [excluded EXCEPT ![l] = {}]
      BY <1>3, <2>2 DEF Claim, Fresh, Tried, NoLongerWaiting, Goto
    <3>2. \A t \in Sessions \ {s} : t \in Ready => t \in Ready'
      BY <2>1, <3>1 DEF Ready, Free, Work, indexes, TypeOK
    <3>3. HolderWorks'
      <4>1. \A m \in Loops \ {l} : pc[m] \in Working => pick[m].session # s
        BY <2>1, <2>2, SchedulerAssumption DEF Free, HolderWorks, SchedulerAssumption
      <4>2. QED
        BY <2>1, <3>1, <4>1 DEF HolderWorks, Working, TypeOK
    <3>4. QED
      BY <2>1, <3>1, <3>2, <3>3
      DEF PickIsSession, WaitingIsReady, ExcludedIsTried, CycleSweeps, TypeOK
  <2>3. CASE ~Free(s)
    <3>1. /\ UNCHANGED <<leases, attempted, waiting>> /\ pc' = [pc EXCEPT ![l] = "find"]
          /\ excluded' = [excluded EXCEPT ![l] = @ \cup {s}]
      BY <1>3, <2>3 DEF Claim, Goto
    <3>2. Ready' = Ready
      BY <2>1, <3>1 DEF Ready, Free, Work, indexes, leases
    <3>3. s \notin waiting[l]
      BY <2>3 DEF WaitingIsReady, Ready
    <3>4. QED
      BY <2>1, <3>1, <3>2, <3>3
      DEF HolderWorks, PickIsSession, WaitingIsReady, ExcludedIsTried, CycleSweeps, Working,
          leases, TypeOK
  <2>4. QED
    BY <2>2, <2>3
<1>4. QED
  BY <1>1, <1>2, <1>3

\* An activation: the session is leased, so that nobody waits for it, until it is
\* given back.
LEMMA TurnSweeps == ASSUME TypeOK, SweepInv, NEW l \in Loops, Turn(l) PROVE SweepInv'
<1> USE DEF SweepInv
<1> DEFINE s == pick[l].session
<1>1. s \in Sessions
  BY DEF Turn, BeginTurn, EndTurn, Release, Reconcile, Backoff, HolderWorks, PickIsSession, Working
<1>2. UNCHANGED <<attempted, excluded>> /\ \A m \in Loops \ {l} : pick'[m] = pick[m]
  BY DEF Turn, BeginTurn, EndTurn, Release, Reconcile, Backoff, search, TypeOK
<1>3. CASE BeginTurn(l) \/ EndTurn(l)
  <2>1. s \notin Ready
    <3>1. lease[s] = l /\ s \notin stale
      BY <1>3 DEF BeginTurn, EndTurn, HolderWorks, Working
    <3>2. QED
      BY <3>1, SchedulerAssumption DEF Ready, Free, SchedulerAssumption
  <2>2. UNCHANGED <<leases, waiting>> /\ \E step \in Working : pc' = [pc EXCEPT ![l] = step]
    BY <1>3 DEF BeginTurn, EndTurn, Goto, Working
  <2>3. \A t \in Sessions \ {s} : events'[t] = events[t] /\ wakes'[t] = wakes[t]
    BY <1>1, <1>3 DEF BeginTurn, EndTurn, Completes, Defers, Throws, Later, indexes, TypeOK
  <2>4. \A t \in Sessions : t \in Ready => t \in Ready'
    BY <2>1, <2>2, <2>3 DEF Ready, Free, Work, leases
  <2>5. pick'[l].session = s /\ pc[l] \in Working
    BY <1>3 DEF BeginTurn, EndTurn, TypeOK, Working
  <2>6. QED
    BY <1>2, <2>2, <2>4, <2>5
    DEF HolderWorks, PickIsSession, WaitingIsReady, ExcludedIsTried, CycleSweeps, Working,
        leases, TypeOK, Ready
<1>4. CASE Release(l)
  <2>1. /\ lease' = [lease EXCEPT ![s] = None] /\ UNCHANGED <<indexes, stale, waiting>>
        /\ \E step \in {"reconcile", "lease"} :
             /\ pc' = [pc EXCEPT ![l] = step]
             /\ step = "reconcile" => pick'[l] = pick[l]
    BY <1>4 DEF Release, Goto, TypeOK
  <2>2. Ready \subseteq Ready'
    BY <1>1, <2>1 DEF Ready, Free, Work, indexes, TypeOK
  <2>3. \A m \in Loops \ {l} : pc[m] \in Working => pick[m].session # s
    BY <1>4 DEF Release, HolderWorks, Working
  <2>4. HolderWorks' /\ PickIsSession'
    BY <1>1, <1>2, <2>1, <2>3 DEF HolderWorks, PickIsSession, Working, TypeOK
  <2>5. QED
    BY <1>2, <2>1, <2>2, <2>4 DEF WaitingIsReady, ExcludedIsTried, CycleSweeps, TypeOK
<1>5. CASE Reconcile(l) \/ Backoff(l)
  <2>1. /\ UNCHANGED <<leases, wakes, pick>> /\ pc[l] \in {"reconcile", "backoff"}
        /\ \E step \in {"backoff", "lease"} : pc' = [pc EXCEPT ![l] = step]
    BY <1>5 DEF Reconcile, Backoff, Goto, search
  <2>2. \A m \in Loops : waiting'[m] \subseteq waiting[m] /\ waiting'[m] \subseteq Ready'
    <3>1. CASE Reconcile(l)
      <4>1. Ready \subseteq Ready'
        BY <2>1, <3>1 DEF Reconcile, Ready, Free, Work, leases, TypeOK
      <4>2. QED
        BY <3>1, <4>1 DEF Reconcile, WaitingIsReady
    <3>2. CASE Backoff(l)
      <4>1. \A t \in Sessions \ {s} : t \in Ready => t \in Ready'
        BY <2>1, <3>2 DEF Backoff, Ready, Free, Work, leases, TypeOK
      <4>2. waiting' = [m \in Loops |-> waiting[m] \ {s}]
        BY <3>2 DEF Backoff, NoLongerWaiting
      <4>3. QED
        BY <4>1, <4>2 DEF WaitingIsReady, Ready
    <3>3. QED
      BY <1>5, <3>1, <3>2
  <2>3. QED
    BY <1>1, <1>2, <2>1, <2>2
    DEF HolderWorks, PickIsSession, WaitingIsReady, ExcludedIsTried, CycleSweeps, Working,
        leases, TypeOK
<1>6. QED
  BY <1>3, <1>4, <1>5 DEF Turn

\* Between cycles a loop has no session, and nothing waits for it that it has not
\* tried.
LEMMA RestSweeps ==
  ASSUME TypeOK, SweepInv, NEW l \in Loops,
         Drain(l) \/ Listen(l) \/ LastCycle(l) \/ Check(l) \/ Woken(l) \/ Timeout(l)
  PROVE  SweepInv'
<1> USE DEF SweepInv
<1>1. UNCHANGED <<indexes, leases>>
  BY DEF Drain, Listen, LastCycle, Check, Woken, Timeout, Hangup
<1>2. \E step \in {"cycle", "stopped", "check", "asleep"} : pc' = [pc EXCEPT ![l] = step]
  BY DEF Drain, Listen, LastCycle, Check, Woken, Timeout, Hangup, Goto
<1>3. \A m \in Loops :
        /\ m # l => attempted'[m] = attempted[m] /\ excluded'[m] = excluded[m] /\ pick'[m] = pick[m]
        /\ waiting'[m] \subseteq waiting[m]
  BY DEF Drain, Listen, LastCycle, Check, Woken, Timeout, Hangup, Forgets, search, TypeOK
<1>4. Ready' = Ready
  BY <1>1 DEF Ready, Free, Work, indexes, leases
<1>5. QED
  BY <1>1, <1>2, <1>3, <1>4
  DEF HolderWorks, PickIsSession, WaitingIsReady, ExcludedIsTried, CycleSweeps, Working,
      leases, TypeOK

-----------------------------------------------------------------------------

LEMMA InitSweeps == Init => TypeOK /\ SweepInv
<1> SUFFICES ASSUME Init PROVE TypeOK /\ SweepInv
  OBVIOUS
<1>1. NoPick \in Picks
  BY DEF NoPick, Picks
<1>2. TypeOK
  BY <1>1 DEF Init, TypeOK, Picks
<1>3. SweepInv
  BY DEF Init, SweepInv, HolderWorks, PickIsSession, WaitingIsReady, ExcludedIsTried, CycleSweeps,
         Working
<1>4. QED
  BY <1>2, <1>3

LEMMA NextSweeps == TypeOK /\ SweepInv /\ [Next]_vars => (TypeOK /\ SweepInv)'
<1> SUFFICES ASSUME TypeOK, SweepInv, [Next]_vars PROVE TypeOK' /\ SweepInv'
  OBVIOUS
<1>1. CASE Around
  BY <1>1, AroundTypes, AroundSweeps
<1>2. ASSUME NEW l \in Loops, LoopStep(l) PROVE TypeOK' /\ SweepInv'
  <2>1. HolderWorks /\ PickIsSession
    BY DEF SweepInv
  <2>2. QED
    BY <1>2, <2>1, SearchTypes, SearchSweeps, TurnTypes, TurnSweeps, RestTypes, RestSweeps
    DEF LoopStep
<1>3. CASE UNCHANGED vars
  BY <1>3
  DEF vars, indexes, leases, search, TypeOK, SweepInv, HolderWorks, PickIsSession, WaitingIsReady,
      ExcludedIsTried, CycleSweeps, Ready, Free, Work
<1>4. QED
  BY <1>1, <1>2, <1>3 DEF Next

\* Every variable keeps its type, and a loop inside an activation holds the wake lease
\* of its session and has not lost it to staleness (AgentOrchestration.wake runs between
\* acquireWakeLease and ack or abandon).
THEOREM WorkingUnderLease == Spec => [](TypeOK /\ HolderWorks)
BY InitSweeps, NextSweeps, PTL DEF Spec, SweepInv

\* No loop reports a cycle over that has passed by a session which was ready and free
\* from the beginning of the cycle to its end, for any number of loops and sessions,
\* contended leases, failing turns and deaths (executeReadyActivationsForCycle).
THEOREM EveryCycleSweeps == Spec => []CycleSweeps
BY InitSweeps, NextSweeps, PTL DEF Spec, SweepInv

-----------------------------------------------------------------------------

\* Whatever makes a session ready reaches every listener, or is known to be lost on
\* it: only a step that tells nobody leaves a loop quiet, and such a step makes no
\* session ready.
LEMMA QuietMeansNothingNew ==
  ASSUME TypeOK, SweepInv, [Next]_vars, NEW l \in Loops, ear[l] = "quiet", ear'[l] = "quiet"
  PROVE  Ready' \subseteq Ready
<1>1. ~(Told \/ Untold)
  BY Listeners DEF TypeOK, Ears
<1>2. ASSUME NEW s \in Sessions,
             Emit(s) \/ Enqueue(s, "due") \/ Enqueue(s, "later") \/ Elapse(s) \/ GrowStale(s)
      PROVE Ready' \subseteq Ready
  <2>1. Emit(s) /\ events[s] = "now"
    BY <1>1, <1>2 DEF Emit, Enqueue, Elapse, GrowStale
  <2>2. events' = events
    BY <2>1 DEF Emit, TypeOK
  <2>3. QED
    BY <2>1, <2>2 DEF Emit, Ready, Free, Work, leases
<1>3. ASSUME NEW m \in Loops, Die(m) \/ Interrupted(m) PROVE Ready' \subseteq Ready
  BY <1>3 DEF Die, Interrupted, Ready, Free, Work, indexes, leases
<1>4. ASSUME NEW m \in Loops, StartCycle(m) \/ ListLeases(m) \/ Find(m) \/ Claim(m)
      PROVE Ready' \subseteq Ready
  <2>1. UNCHANGED <<indexes, leases>>
    BY <1>1, <1>4 DEF StartCycle, ListLeases, Find, Claim
  <2>2. QED
    BY <2>1 DEF Ready, Free, Work, indexes, leases
<1>5. ASSUME NEW m \in Loops, BeginTurn(m) \/ EndTurn(m) \/ Release(m) PROVE Ready' \subseteq Ready
  <2>1. UNCHANGED <<events, wakes, leases>>
    BY <1>1, <1>5 DEF BeginTurn, EndTurn, Release, TellRelease, indexes, TypeOK
  <2>2. QED
    BY <2>1 DEF Ready, Free, Work, leases
<1>6. ASSUME NEW m \in Loops, Reconcile(m) \/ Backoff(m) PROVE Ready' \subseteq Ready
  <2>1. UNCHANGED <<events, wakes, leases>>
    BY <1>1, <1>6 DEF Reconcile, Backoff, TypeOK
  <2>2. QED
    BY <2>1 DEF Ready, Free, Work, leases
<1>7. ASSUME NEW m \in Loops,
             Drain(m) \/ Listen(m) \/ LastCycle(m) \/ Check(m) \/ Woken(m) \/ Timeout(m)
      PROVE Ready' \subseteq Ready
  BY <1>7
  DEF Drain, Listen, LastCycle, Check, Woken, Timeout, Hangup, Ready, Free, Work, indexes, leases
<1>8. CASE UNCHANGED vars
  BY <1>8 DEF vars, indexes, leases, Ready, Free, Work
<1>9. QED
  BY <1>2, <1>3, <1>4, <1>5, <1>6, <1>7, <1>8 DEF Next, Around, LoopStep, Turn

\* A loop goes to sleep only when it has looked and found nothing.
LEMMA SleepsOnNothing ==
  ASSUME TypeOK, [Next]_vars, NEW l \in Loops, pc'[l] = "asleep", pc[l] # "asleep"
  PROVE  Ready' = {}
<1>1. \E m \in Loops : LoopStep(m)
  BY DEF Next, Around, Emit, Enqueue, Elapse, Die, Interrupted, GrowStale, Goto, vars, TypeOK
<1>2. PICK m \in Loops : LoopStep(m)
  BY <1>1
<1>3. Check(m) /\ Ready = {}
  <2>1. ASSUME ~(Check(m) /\ Ready = {})
        PROVE  \E step \in PCs \ {"asleep"} : pc' = [pc EXCEPT ![m] = step]
    <3>1. CASE StartCycle(m) \/ ListLeases(m) \/ Find(m) \/ Claim(m) \/ Turn(m)
      BY <3>1
      DEF StartCycle, ListLeases, Find, Claim, Turn, BeginTurn, EndTurn, Release, Reconcile,
          Backoff, Goto, PCs
    <3>2. CASE Drain(m) \/ Listen(m) \/ LastCycle(m) \/ Check(m) \/ Woken(m) \/ Timeout(m)
      BY <2>1, <3>2 DEF Drain, Listen, LastCycle, Check, Woken, Timeout, Hangup, Goto, PCs
    <3>3. QED
      BY <1>2, <3>1, <3>2 DEF LoopStep
  <2>2. QED
    BY <2>1 DEF TypeOK
<1>4. UNCHANGED <<indexes, leases>>
  BY <1>3 DEF Check, Hangup
<1>5. QED
  BY <1>3, <1>4 DEF Ready, Free, Work, indexes, leases

\* The listeners of a loop that stays asleep are not renewed.
LEMMA AsleepStaysQuiet ==
  ASSUME TypeOK, [Next]_vars, NEW l \in Loops, pc[l] = "asleep", pc'[l] = "asleep",
         ear'[l] = "quiet"
  PROVE  ear[l] = "quiet"
<1>1. CASE Told \/ Untold
  BY <1>1, Listeners DEF TypeOK, Ears
<1>2. CASE ~(Told \/ Untold)
  <2>1. CASE Around
    BY <1>2, <2>1 DEF Around, Emit, Enqueue, Elapse, Die, Interrupted, GrowStale, TypeOK
  <2>2. ASSUME NEW m \in Loops, LoopStep(m) PROVE ear[l] = "quiet"
    <3>1. CASE StartCycle(m) \/ ListLeases(m) \/ Find(m) \/ Claim(m) \/ Turn(m)
      BY <1>2, <3>1
      DEF StartCycle, ListLeases, Find, Claim, Turn, BeginTurn, EndTurn, Release, TellRelease,
          Reconcile, Backoff
    <3>2. CASE Listen(m)
      BY <3>2 DEF Listen, Goto, TypeOK
    <3>3. CASE Drain(m) \/ LastCycle(m) \/ Check(m) \/ Woken(m) \/ Timeout(m)
      BY <3>3 DEF Drain, LastCycle, Check, Woken, Timeout, Hangup, TypeOK
    <3>4. QED
      BY <2>2, <3>1, <3>2, <3>3 DEF LoopStep
  <2>3. QED
    BY <2>1, <2>2 DEF Next, vars
<1>3. QED
  BY <1>1, <1>2

\* No loop sleeps over ready work that it has been told of in time: between its last
\* look and its sleep, and in its sleep, work that another process brings or gives
\* back reaches its listeners (waitForChange sets them before it looks).
THEOREM NoWakeupIsLost == Spec => []NoLostWakeup
<1>1. Init => NoLostWakeup
  BY DEF Init, NoLostWakeup
<1>2. TypeOK /\ SweepInv /\ NoLostWakeup /\ [Next]_vars => NoLostWakeup'
  <2> SUFFICES ASSUME TypeOK, SweepInv, NoLostWakeup, [Next]_vars,
                      NEW l \in Loops, pc'[l] = "asleep", ear'[l] = "quiet"
               PROVE  Ready' = {}
    BY DEF NoLostWakeup
  <2>1. CASE pc[l] # "asleep"
    BY <2>1, SleepsOnNothing
  <2>2. CASE pc[l] = "asleep"
    <3>1. ear[l] = "quiet"
      BY <2>2, AsleepStaysQuiet
    <3>2. Ready = {} /\ Ready' \subseteq Ready
      BY <2>2, <3>1, QuietMeansNothingNew DEF NoLostWakeup
    <3>3. QED
      BY <3>2
  <2>3. QED
    BY <2>1, <2>2
<1>3. QED
  BY <1>1, <1>2, InitSweeps, NextSweeps, PTL DEF Spec

=============================================================================
