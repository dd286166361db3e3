-------------------------- MODULE Substrate_proofs --------------------------
(***************************************************************************)
(* Proofs about the confirmation gate and the substrate behind it, for any *)
(* number of sessions, calls, files, contents and versions.                *)
(*                                                                         *)
(* The gate: that an allowed call runs as it was allowed follows from      *)
(* where answers come from; that a withdrawn one does not run needs that   *)
(* no two sessions ever have the same request.  The substrate: its calls   *)
(* use the gate as ToolGate says, so that what is proved of the gate holds *)
(* of them; the lease is held only inside a call; and a promotion that     *)
(* does not overwrite replaces no file.                                    *)
(***************************************************************************)
EXTENDS Substrate, SequenceTheorems, TLAPS

-----------------------------------------------------------------------------
\* The gate

\* every answer that is pending, or that a turn has seen, was given by the user
Given(as) == \A a \in as : a.id \in (IF a.ok THEN allowed ELSE denied)

AnswersGiven ==
  /\ allowed \cap denied = {}
  /\ \A s \in Sessions : Given(answers[s]) /\ (turn[s] # None => Given(turn[s].seen))

\* the requests a session may still run
Has(s, i) == i \in Ids /\ (i = request[s] \/ (turn[s] # None /\ i = turn[s].request))

RequestsApart ==
  /\ \A s, t \in Sessions : \A i \in Ids : Has(s, i) /\ Has(t, i) => s = t
  /\ \A s \in Sessions : \A i \in Ids : Has(s, i) => i \notin withdrawn

\* what runs was asked for by the request of the turn that runs it
RunsRequest ==
  \A s \in Sessions : running[s] # None =>
    turn[s] # None /\ running[s].id = turn[s].request

GateInv == GateTypeOK /\ AnswersGiven /\ RequestsApart /\ RunsRequest /\ ConfirmedOnly

\* The invariant holds when nothing has been asked.
LEMMA GateInitially == GateInit => GateInv
<1> SUFFICES ASSUME GateInit PROVE GateInv
  OBVIOUS
<1> USE GateAssumption DEF GateInit, GateTypeOK, Ids, Answers
<1>1. GateTypeOK
  OBVIOUS
<1>2. AnswersGiven /\ RequestsApart /\ RunsRequest /\ ConfirmedOnly
  BY DEF AnswersGiven, Given, RequestsApart, Has, RunsRequest, ConfirmedOnly
<1>3. QED
  BY <1>1, <1>2 DEF GateInv

\* The types are kept by every step.
LEMMA GateTypes == ASSUME GateTypeOK, [GateNext]_gateVars PROVE GateTypeOK'
<1> USE GateAssumption DEF GateTypeOK, Ids, Answers
<1>1. ASSUME NEW s \in Sessions, NEW ok \in BOOLEAN, Answer(s, ok) PROVE GateTypeOK'
  <2>1. request[s] \in Ids /\ [id |-> request[s], ok |-> ok] \in Answers
    BY <1>1 DEF Answer
  <2>2. answers' \in [Sessions -> SUBSET Answers] /\ allowed' \subseteq Ids /\ denied' \subseteq Ids
    BY <1>1, <2>1 DEF Answer
  <2>3. QED
    BY <1>1, <2>2 DEF Answer
<1>2. ASSUME NEW s \in Sessions, NEW i \in BOOLEAN, BeginTurn(s, i) PROVE GateTypeOK'
  BY <1>2 DEF BeginTurn, TurnRequest
<1>3. ASSUME NEW s \in Sessions, NEW c \in Calls, Pass(s, c) PROVE GateTypeOK'
  <2>1. turn[s].request \in Ids /\ asked[turn[s].request] \in Calls
    BY <1>3 DEF Pass, CanCall, SameTool
  <2>2. QED
    BY <1>3, <2>1 DEF Pass, EffectiveArgs
<1>4. ASSUME NEW s \in Sessions, NEW c \in Calls, Interruption(s, c) PROVE GateTypeOK'
  <2>1. turn[s] \in [request : Ids \cup {None}, seen : SUBSET Answers]
    BY <1>4 DEF Interruption, CanCall
  <2>2. CASE SameTool(s, c)
    BY <1>4, <2>1, <2>2 DEF Interruption
  <2>3. CASE ~SameTool(s, c)
    <3>1. asked' \in Seq(Calls) /\ Len(asked') = Len(asked) + 1
      <4>1. asked' = Append(asked, c) /\ asked \in Seq(Calls)
        BY <1>4, <2>3 DEF Interruption
      <4>2. QED
        BY <4>1, AppendProperties
    <3>2. 1 .. Len(asked) \subseteq 1 .. Len(asked') /\ Len(asked) + 1 \in 1 .. Len(asked')
      BY <3>1
    <3>3. request' \in [Sessions -> Ids' \cup {None}]
      BY <1>4, <2>3, <3>1, <3>2 DEF Interruption
    <3>4. turn' \in [Sessions -> {None} \cup [request : Ids' \cup {None}, seen : SUBSET Answers]]
      <4>1. turn' = [turn EXCEPT ![s] = None]
        BY <1>4 DEF Interruption
      <4>2. [request : Ids \cup {None}, seen : SUBSET Answers]
              \subseteq [request : Ids' \cup {None}, seen : SUBSET Answers]
        BY <3>2
      <4>3. QED
        BY <4>1, <4>2
    <3>5. running' \in [Sessions -> {None} \cup [id : Ids', call : Calls]]
      BY <1>4, <3>2 DEF Interruption
    <3>6. answers' \in [Sessions -> SUBSET Answers]
      BY <1>4, <2>1 DEF Interruption
    <3>7. QED
      BY <1>4, <3>1, <3>2, <3>3, <3>4, <3>5, <3>6 DEF Interruption
  <2>4. QED
    BY <2>2, <2>3
<1>5. ASSUME NEW s \in Sessions, Returned(s) \/ Fail(s) \/ Die(s) PROVE GateTypeOK'
  BY <1>5 DEF Returned, Fail, Die
<1>6. ASSUME NEW s \in Sessions, Reply(s) PROVE GateTypeOK'
  BY <1>6 DEF Reply, CanCall
<1>7. CASE UNCHANGED gateVars
  BY <1>7 DEF gateVars
<1>8. QED
  BY <1>1, <1>2, <1>3, <1>4, <1>5, <1>6, <1>7 DEF GateNext, GateStep, Refuse

\* Answers stay the user's: a turn sees what is pending, and nobody answers twice.
LEMMA AnswersStayGiven == ASSUME GateInv, [GateNext]_gateVars PROVE AnswersGiven'
<1> USE GateAssumption DEF GateInv, GateTypeOK, AnswersGiven, Given, Ids, Answers
<1>1. ASSUME NEW s \in Sessions, NEW ok \in BOOLEAN, Answer(s, ok) PROVE AnswersGiven'
  <2>1. allowed \subseteq allowed' /\ denied \subseteq denied' /\ allowed' \cap denied' = {}
    <3>1. allowed \cap denied = {} /\ request[s] \notin allowed \cup denied
      BY <1>1 DEF Answer
    <3>2. \/ allowed' = allowed \cup {request[s]} /\ denied' = denied
          \/ allowed' = allowed /\ denied' = denied \cup {request[s]}
      BY <1>1, Zenon DEF Answer
    <3>3. QED
      BY <3>1, <3>2
  <2>2. request[s] \in (IF ok THEN allowed' ELSE denied')
    BY <1>1 DEF Answer
  <2>3. ASSUME NEW t \in Sessions, NEW a \in answers'[t]
        PROVE a.id \in (IF a.ok THEN allowed' ELSE denied')
    <3>1. a \in answers[t] \/ a = [id |-> request[s], ok |-> ok]
      BY <1>1 DEF Answer
    <3>2. QED
      BY <2>1, <2>2, <3>1
  <2>4. QED
    BY <1>1, <2>1, <2>3 DEF Answer
<1>2. ASSUME NEW s \in Sessions, NEW i \in BOOLEAN, BeginTurn(s, i) PROVE AnswersGiven'
  BY <1>2 DEF BeginTurn
<1>3. ASSUME NEW s \in Sessions, NEW c \in Calls, Interruption(s, c) PROVE AnswersGiven'
  BY <1>3 DEF Interruption
<1>4. ASSUME NEW s \in Sessions, NEW c \in Calls, Pass(s, c) PROVE AnswersGiven'
  BY <1>4 DEF Pass
<1>5. ASSUME NEW s \in Sessions, Returned(s) \/ Reply(s) \/ Fail(s) \/ Die(s) PROVE AnswersGiven'
  <2>1. allowed' = allowed /\ denied' = denied
    BY <1>5 DEF Returned, Reply, Fail, Die
  <2>2. \A t \in Sessions : answers'[t] \subseteq answers[t]
    BY <1>5 DEF Returned, Reply, Fail, Die
  <2>3. \A t \in Sessions : turn'[t] = turn[t] \/ turn'[t] = None
    BY <1>5 DEF Returned, Reply, Fail, Die
  <2>4. QED
    BY <2>1, <2>2, <2>3
<1>6. CASE UNCHANGED gateVars
  BY <1>6 DEF gateVars
<1>7. QED
  BY <1>1, <1>2, <1>3, <1>4, <1>5, <1>6 DEF GateNext, GateStep, Refuse

\* No request comes to a second session, and none comes back after an interrupt.
LEMMA RequestsStayApart == ASSUME GateInv, [GateNext]_gateVars PROVE RequestsApart'
<1> USE GateAssumption DEF GateInv, GateTypeOK, RequestsApart, Has, Ids
<1>1. ASSUME NEW s \in Sessions, NEW ok \in BOOLEAN, Answer(s, ok) PROVE RequestsApart'
  BY <1>1 DEF Answer
<1>2. ASSUME NEW s \in Sessions, NEW i \in BOOLEAN, BeginTurn(s, i) PROVE RequestsApart'
  <2>1. ASSUME NEW t \in Sessions, NEW r \in Ids, Has(t, r)'
        PROVE Has(t, r) /\ (i => t # s)
    BY <1>2, <2>1 DEF BeginTurn, TurnRequest
  <2>2. ASSUME NEW t \in Sessions, NEW r \in Ids, Has(t, r)' PROVE r \notin withdrawn'
    <3>1. CASE i
      <4>1. Has(t, r) /\ t # s
        BY <2>1, <2>2, <3>1
      <4>2. r # request[s]
        BY <4>1
      <4>3. QED
        BY <1>2, <3>1, <4>1, <4>2 DEF BeginTurn
    <3>2. CASE ~i
      BY <1>2, <2>1, <2>2, <3>2 DEF BeginTurn
    <3>3. QED
      BY <3>1, <3>2
  <2>3. asked' = asked
    BY <1>2 DEF BeginTurn
  <2>4. QED
    BY <2>1, <2>2, <2>3
<1>3. ASSUME NEW s \in Sessions, NEW c \in Calls, Interruption(s, c) PROVE RequestsApart'
  <2>1. CASE SameTool(s, c)
    BY <1>3, <2>1 DEF Interruption, CanCall
  <2>2. CASE ~SameTool(s, c)
    <3> DEFINE new == Len(asked) + 1
    <3>1. new \notin Ids /\ new \notin withdrawn /\ withdrawn' = withdrawn
      BY <1>3 DEF Interruption
    <3>2. Ids' = Ids \cup {new}
      <4>1. Len(asked') = Len(asked) + 1
        BY <1>3, <2>2, AppendProperties DEF Interruption
      <4>2. QED
        BY <4>1
    <3>3. ASSUME NEW t \in Sessions, NEW r \in Ids', Has(t, r)'
          PROVE IF t = s THEN r = new ELSE r \in Ids /\ Has(t, r)
      <4>1. CASE t = s
        BY <1>3, <2>2, <3>3, <4>1 DEF Interruption
      <4>2. CASE t # s
        <5>1. request'[t] = request[t] /\ turn'[t] = turn[t]
          BY <1>3, <4>2 DEF Interruption
        <5>2. r # new
          BY <3>1, <3>3, <5>1
        <5>3. r \in Ids
          BY <3>2, <5>2
        <5>4. QED
          BY <3>3, <4>2, <5>1, <5>3
      <4>3. QED
        BY <4>1, <4>2
    <3>4. ASSUME NEW t \in Sessions, NEW u \in Sessions, NEW r \in Ids', Has(t, r)', Has(u, r)'
          PROVE t = u
      BY <3>1, <3>3, <3>4
    <3>5. ASSUME NEW t \in Sessions, NEW r \in Ids', Has(t, r)' PROVE r \notin withdrawn'
      BY <3>1, <3>3, <3>5
    <3>6. QED
      BY <3>4, <3>5
  <2>3. QED
    BY <2>1, <2>2
<1>4. ASSUME NEW s \in Sessions, NEW c \in Calls, Pass(s, c) PROVE RequestsApart'
  BY <1>4 DEF Pass
<1>5. ASSUME NEW s \in Sessions, Returned(s) \/ Reply(s) \/ Fail(s) \/ Die(s)
      PROVE RequestsApart'
  BY <1>5 DEF Returned, Reply, Fail, Die, CanCall
<1>6. CASE UNCHANGED gateVars
  BY <1>6 DEF gateVars
<1>7. QED
  BY <1>1, <1>2, <1>3, <1>4, <1>5, <1>6 DEF GateNext, GateStep, Refuse

\* What runs stays the request of its turn, as it was asked for and allowed.
LEMMA RunningStays ==
  ASSUME GateInv, [GateNext]_gateVars PROVE RunsRequest' /\ ConfirmedOnly'
<1> USE GateAssumption DEF GateInv, GateTypeOK, AnswersGiven, RunsRequest, ConfirmedOnly, Ids
<1>1. ASSUME NEW s \in Sessions, NEW ok \in BOOLEAN, Answer(s, ok)
      PROVE RunsRequest' /\ ConfirmedOnly'
  BY <1>1 DEF Answer
<1>2. ASSUME NEW s \in Sessions, NEW i \in BOOLEAN, BeginTurn(s, i)
      PROVE RunsRequest' /\ ConfirmedOnly'
  BY <1>2 DEF BeginTurn
<1>3. ASSUME NEW s \in Sessions, NEW c \in Calls, Pass(s, c)
      PROVE RunsRequest' /\ ConfirmedOnly'
  <2>1. turn[s].request \in allowed \ denied
    BY <1>3 DEF Pass, CanCall, Decision, Given
  <2>2. QED
    BY <1>3, <2>1 DEF Pass, CanCall, EffectiveArgs
<1>4. ASSUME NEW s \in Sessions, NEW c \in Calls, Interruption(s, c)
      PROVE RunsRequest' /\ ConfirmedOnly'
  <2>1. RunsRequest'
    BY <1>4 DEF Interruption, CanCall
  <2>2. \A r \in Ids : asked'[r] = asked[r]
    BY <1>4, AppendProperties DEF Interruption
  <2>3. ConfirmedOnly'
    BY <1>4, <2>2 DEF Interruption
  <2>4. QED
    BY <2>1, <2>3
<1>5. ASSUME NEW s \in Sessions, Returned(s) \/ Reply(s) \/ Fail(s) \/ Die(s)
      PROVE RunsRequest' /\ ConfirmedOnly'
  BY <1>5 DEF Returned, Reply, Fail, Die, CanCall
<1>6. CASE UNCHANGED gateVars
  BY <1>6 DEF gateVars
<1>7. QED
  BY <1>1, <1>2, <1>3, <1>4, <1>5, <1>6 DEF GateNext, GateStep, Refuse

\* The gate's state keeps its types and the invariant, whatever the sessions do.
THEOREM GateIsInvariant == GateSpec => []GateInv
<1>1. GateInv /\ [GateNext]_gateVars => GateInv'
  BY GateTypes, AnswersStayGiven, RequestsStayApart, RunningStays DEF GateInv
<1>2. QED
  BY GateInitially, <1>1, PTL DEF GateSpec

\* Whatever runs behind the gate is a request the user allowed and did not deny,
\* with the arguments the user saw (createLoggedManagedTool).
THEOREM OnlyConfirmedRuns == GateSpec => []ConfirmedOnly
BY GateIsInvariant, PTL DEF GateInv

\* A request an interrupt cleared never runs (clearInterruptedSessionState): what
\* runs is a request its session still has, and a cleared one no session has.
THEOREM InterruptedNeverRuns == GateSpec => []WithdrawnStays
<1>1. GateInv => WithdrawnStays
  BY GateAssumption DEF GateInv, GateTypeOK, RequestsApart, RunsRequest, Has, WithdrawnStays
<1>2. QED
  BY GateIsInvariant, <1>1, PTL

-----------------------------------------------------------------------------
\* The substrate

Inside == {"open", "write", "release"}

\* jobs are records of the shape of NoJob
JobShape ==
  /\ job = [s \in Sessions |-> job[s]]
  /\ \A s \in Sessions : DOMAIN job[s] = DOMAIN NoJob

\* live is a map of the files
Shape == live = [f \in Files |-> live[f]] /\ JobShape

\* whoever is between taking and releasing the lease holds it, a dead process or not
HolderInside == \A s \in Sessions : job[s].step \in Inside => lock = s

\* what a call that does not overwrite writes to holds no content yet
FreshFile ==
  \A s \in Sessions : At(s, "write") => Call(s).overwrite \/ live[Call(s).file] \notin Contents

\* The substrate's specification implements the gate's: every step of a session is a
\* step of the gate or leaves it alone.
THEOREM SubstrateUsesGate == Spec => GateSpec
<1>1. Init => GateInit
  BY DEF Init
<1>2. [Next]_vars => [GateNext]_gateVars
  <2>1. ASSUME NEW s \in Sessions, Turns(s) PROVE [GateNext]_gateVars
    BY <2>1 DEF Turns, GateNext, GateStep
  <2>2. ASSUME NEW s \in Sessions, SubstrateCall(s) PROVE [GateNext]_gateVars
    <3>1. CASE Returned(s)
      BY <3>1 DEF GateNext, GateStep
    <3>2. CASE UNCHANGED gateVars
      BY <3>2
    <3>3. QED
      BY <2>2, <3>1, <3>2
      DEF SubstrateCall, ReadVersion, CheckVersion, CheckContent, Lease, Open, Write, Release,
          Reconcile, Readback, RecordLine, RecordContent, Recorded, GiveUp, Ends
  <2>3. ASSUME NEW s \in Sessions, Crash(s) PROVE [GateNext]_gateVars
    BY <2>3 DEF Crash, GateNext, GateStep
  <2>4. ASSUME NEW s \in Sessions, NEW c \in Asked(s) \cap Calls, ToGate(s, c) PROVE [GateNext]_gateVars
    BY <2>4 DEF ToGate, GateNext, GateStep
  <2> QED
    BY <2>1, <2>2, <2>3, <2>4 DEF Next, Edit, Stage, vars
<1>3. QED
  BY <1>1, <1>2, PTL DEF Spec, GateSpec

\* Promotions and restores are run only as they were allowed, the model's other calls,
\* the failures and the deaths in between included (createLoggedManagedTool).
THEOREM OnlyConfirmedPromotions == Spec => []ConfirmedOnly
BY SubstrateUsesGate, OnlyConfirmedRuns, PTL

\* An interrupted promotion or restore is never run (clearInterruptedSessionState).
THEOREM InterruptedNeverPromotes == Spec => []WithdrawnStays
BY SubstrateUsesGate, InterruptedNeverRuns, PTL

-----------------------------------------------------------------------------
SubstrateInv ==
  lock \in Sessions \cup {None} /\ HolderInside /\ FreshFile /\ LeaseHeldInside

\* A session outside the lease that stays outside it disturbs nobody.
LEMMA OutsideSteps ==
  ASSUME SubstrateInv, NEW s \in Sessions,
         UNCHANGED <<live, lock>>, died => died',
         \A t \in Sessions \ {s} : job'[t] = job[t] /\ running'[t] = running[t],
         job[s].step \notin Inside \/ died', job'[s].step \notin Inside
  PROVE  SubstrateInv'
<1> USE SubstrateAssumption DEF SubstrateInv, Inside
<1>1. HolderInside'
  BY DEF HolderInside
<1>2. FreshFile'
  BY DEF FreshFile, At, Call
<1>3. LeaseHeldInside'
  BY DEF LeaseHeldInside
<1>4. QED
  BY <1>1, <1>2, <1>3

\* A map stays one when an element is replaced, and a job when its fields are.
LEMMA ShapeStays == ASSUME Shape, [Next]_vars PROVE Shape'
<1>1. live' = [f \in Files |-> live'[f]]
  <2>1. live' = live \/ \E f, text : live' = [live EXCEPT ![f] = text]
    BY DEF Next, vars, fileVars, Turns, SubstrateCall, ReadVersion, CheckVersion, CheckContent,
           Lease, Open, Write, Release, Reconcile, Readback, RecordLine, RecordContent, Recorded,
           GiveUp, Crash, ToGate, Edit, Stage
  <2>2. QED
    BY <2>1 DEF Shape
<1>2. JobShape'
  <2> USE DEF Shape, JobShape, NoJob
  <2>1. ASSUME NEW s \in Sessions, SubstrateCall(s) PROVE JobShape'
    BY <2>1
    DEF SubstrateCall, ReadVersion, CheckVersion, CheckContent, Lease, Open, Write, Release,
        Reconcile, Readback, RecordLine, RecordContent, Recorded, GiveUp, Ends, Goto
  <2>2. ASSUME NEW s \in Sessions, NEW c \in Asked(s), ToGate(s, c) PROVE JobShape'
    BY <2>2 DEF ToGate
  <2>3. (\E s \in Sessions : Crash(s)) => JobShape'
    BY DEF Crash
  <2>4. job' = job => JobShape'
    OBVIOUS
  <2> QED
    BY <2>1, <2>2, <2>3, <2>4 DEF Next, Turns, Edit, Stage, vars
<1>3. QED
  BY <1>1, <1>2 DEF Shape

\* The invariant is kept by every step.
LEMMA SubstrateStays ==
  ASSUME Shape, SubstrateInv, [Next]_vars PROVE SubstrateInv'
<1> USE SubstrateAssumption DEF Shape, JobShape, NoJob, Inside
<1>1. ASSUME NEW s \in Sessions, Turns(s) PROVE SubstrateInv'
  <2>1. UNCHANGED <<live, lock, job, running, died>>
    BY <1>1 DEF Turns, fileVars, Answer, BeginTurn, Reply, Fail
  <2>2. QED
    BY <2>1 DEF SubstrateInv, HolderInside, FreshFile, LeaseHeldInside, At, Call
<1>2. ASSUME NEW s \in Sessions, NEW c \in Asked(s), ToGate(s, c) PROVE SubstrateInv'
  <2>1. /\ UNCHANGED <<live, lock, died>> /\ job[s].step = "none"
        /\ job'[s].step \in {"none", "read", "version"}
        /\ \A t \in Sessions \ {s} : job'[t] = job[t] /\ running'[t] = running[t]
    <3>1. UNCHANGED <<live, lock, died>> /\ job[s].step = "none"
      BY <1>2 DEF ToGate, At, fileVars
    <3>2. CASE Pass(s, c)
      <4>1. /\ running' = [running EXCEPT ![s] = [id |-> turn[s].request,
                                                 call |-> EffectiveArgs(s, c)]]
        BY <3>2 DEF Pass
      <4>2. /\ job'[s].step \in {"none", "read", "version"}
            /\ \A t \in Sessions \ {s} : job'[t] = job[t]
        BY <1>2, <3>1 DEF ToGate
      <4>3. QED
        BY <3>1, <4>1, <4>2
    <3>3. CASE ~Pass(s, c)
      BY <1>2, <3>1, <3>3 DEF ToGate, Refuse, Interruption, gateVars
    <3>4. QED
      BY <3>2, <3>3
  <2>2. QED
    BY <2>1, OutsideSteps
<1>3. ASSUME NEW s \in Sessions, Crash(s) PROVE SubstrateInv'
  <2>1. /\ UNCHANGED <<live, lock>> /\ (died => died') /\ job'[s].step = "none"
        /\ job[s].step = "none" \/ died'
        /\ \A t \in Sessions \ {s} : job'[t] = job[t] /\ running'[t] = running[t]
    BY <1>3 DEF Crash, At, fileVars, Die
  <2>2. QED
    BY <2>1, OutsideSteps
<1>4. ASSUME NEW s \in Sessions, GiveUp(s), job[s].step \notin {"open", "write", "release"}
      PROVE SubstrateInv'
  <2>1. /\ UNCHANGED <<live, lock, died>> /\ job'[s].step = "none"
        /\ \A t \in Sessions \ {s} : job'[t] = job[t] /\ running'[t] = running[t]
    BY <1>4 DEF GiveUp, Ends, Returned, fileVars
  <2>2. QED
    BY <1>4, <2>1, OutsideSteps
<1>5. ASSUME NEW s \in Sessions,
             ReadVersion(s) \/ CheckVersion(s) \/ CheckContent(s) \/ Reconcile(s) \/ Readback(s)
               \/ RecordLine(s) \/ RecordContent(s) \/ Recorded(s)
      PROVE SubstrateInv'
  <2>1. job[s].step \in {"read", "version", "content", "reconcile", "readback", "record"}
    BY <1>5 DEF ReadVersion, CheckVersion, CheckContent, Reconcile, Readback, RecordLine,
                RecordContent, Recorded, At
  <2>2. CASE GiveUp(s)
    BY <1>4, <2>1, <2>2
  <2>3. CASE ~GiveUp(s)
    <3>1. /\ UNCHANGED <<live, lock, died, running>>
          /\ job'[s].step \in {"version", "content", "lease", "readback", "record"}
          /\ \A t \in Sessions \ {s} : job'[t] = job[t]
      BY <1>5, <2>1, <2>3
      DEF ReadVersion, CheckVersion, CheckContent, Reconcile, Readback, RecordLine,
          RecordContent, Recorded, Goto, fileVars, gateVars, At
    <3>2. QED
      BY <2>1, <3>1, OutsideSteps
  <2>4. QED
    BY <2>2, <2>3
<1>6. ASSUME NEW s \in Sessions, Lease(s) PROVE SubstrateInv'
  <2>1. CASE GiveUp(s)
    BY <1>4, <1>6, <2>1 DEF Lease, At
  <2>2. CASE ~GiveUp(s)
    <3>1. /\ lock = None /\ lock' = s /\ UNCHANGED <<live, died, running>>
          /\ job'[s].step = "open" /\ \A t \in Sessions \ {s} : job'[t] = job[t]
      BY <1>6, <2>2 DEF Lease, gateVars
    <3>2. QED
      BY <3>1 DEF SubstrateInv, HolderInside, FreshFile, LeaseHeldInside, At, Call
  <2>3. QED
    BY <2>1, <2>2
<1>7. ASSUME NEW s \in Sessions, Open(s) \/ Write(s) PROVE SubstrateInv'
  <2>1. lock = s /\ \A t \in Sessions \ {s} : job[t].step \notin Inside
    BY <1>7 DEF Open, Write, At, SubstrateInv, HolderInside
  <2>2. /\ UNCHANGED <<lock, died, running>> /\ job'[s].step \in {"write", "release"}
        /\ \A t \in Sessions \ {s} : job'[t] = job[t]
    BY <1>7 DEF Open, Write, Goto, gateVars
  <2>3. At(s, "write")' => Call(s).overwrite \/ live'[Call(s).file] \notin Contents
    <3>1. SUFFICES ASSUME Open(s), MayOpen(s), ~Call(s).overwrite PROVE live'[Call(s).file] \notin Contents
      BY <1>7 DEF Open, Write, Goto, At
    <3>2. live[Call(s).file] \notin Contents /\ Empty \notin Contents
      BY <3>1 DEF MayOpen
    <3>3. live' = [live EXCEPT ![Call(s).file] = Empty]
      BY <3>1 DEF Open
    <3>4. CASE Call(s).file \in Files
      BY <3>2, <3>3, <3>4
    <3>5. CASE Call(s).file \notin Files
      <4>1. live' = live
        BY <3>3, <3>5
      <4>2. QED
        BY <3>2, <4>1
    <3>6. QED
      BY <3>4, <3>5
  <2>4. QED
    BY <2>1, <2>2, <2>3 DEF SubstrateInv, HolderInside, FreshFile, LeaseHeldInside, At, Call
<1>8. ASSUME NEW s \in Sessions, Release(s) PROVE SubstrateInv'
  <2>1. lock = s /\ \A t \in Sessions \ {s} : job[t].step \notin Inside
    BY <1>8 DEF Release, At, SubstrateInv, HolderInside
  <2>2. /\ lock' = None /\ job'[s].step \in {"none", "reconcile", "record"}
        /\ \A t \in Sessions \ {s} : job'[t] = job[t]
    BY <1>8 DEF Release, Unlocked, Ends, Goto, AfterRelease
  <2>3. QED
    BY <2>1, <2>2 DEF SubstrateInv, HolderInside, FreshFile, LeaseHeldInside, At
<1>9. ASSUME NEW s \in Sessions, NEW f, NEW x, Edit(s, f, x) \/ Stage(s, f, x)
      PROVE SubstrateInv'
  <2>1. UNCHANGED <<live, lock, job, running, died>>
    BY <1>9 DEF Edit, Stage, fileVars, gateVars
  <2>2. QED
    BY <2>1 DEF SubstrateInv, HolderInside, FreshFile, LeaseHeldInside, At, Call
<1>10. CASE UNCHANGED vars
  BY <1>10 DEF vars, fileVars, gateVars, SubstrateInv, HolderInside, FreshFile, LeaseHeldInside,
               At, Call
<1>11. QED
  BY <1>1, <1>2, <1>3, <1>5, <1>6, <1>7, <1>8, <1>9, <1>10 DEF Next, SubstrateCall

\* The invariants of the lease and the fresh file hold in every reachable state.
THEOREM SubstrateIsInvariant == Spec => [](Shape /\ SubstrateInv)
<1>1. Init => Shape /\ SubstrateInv
  BY SubstrateAssumption
  DEF Init, Shape, JobShape, NoJob, SubstrateInv, HolderInside, FreshFile, LeaseHeldInside, At, Inside
<1>2. Shape /\ SubstrateInv /\ [Next]_vars => (Shape /\ SubstrateInv)'
  BY ShapeStays, SubstrateStays
<1>3. QED
  BY <1>1, <1>2, PTL DEF Spec

\* Unless a process died, the substrate's lease is held by a call that is between taking
\* and releasing it, whatever way the call ends (withResourceWriteLease).
THEOREM LeaseGivenBack == Spec => []LeaseHeldInside
BY SubstrateIsInvariant, PTL DEF SubstrateInv

\* A promotion that does not overwrite replaces no file, however late after its checks
\* it opens it: only Open and Write change a file, and Write the file that Open made.
THEOREM NothingReplaced == Spec => CreatesOnly
<1>1. Shape /\ SubstrateInv /\ [Next]_vars
        => [\A f \in Files : live[f] \in Contents /\ live'[f] # live[f] =>
              \E s \in Sessions : lock = s /\ Call(s).file = f /\ Call(s).overwrite]_vars
  <2>1. SUFFICES ASSUME Shape, SubstrateInv, Next, NEW f \in Files,
                        live[f] \in Contents, live'[f] # live[f]
                 PROVE  \E s \in Sessions : lock = s /\ Call(s).file = f /\ Call(s).overwrite
    OBVIOUS
  <2>2. PICK s \in Sessions : Open(s) \/ Write(s)
    BY <2>1
    DEF Next, Turns, SubstrateCall, ReadVersion, CheckVersion, CheckContent, Lease, Release,
        Reconcile, Readback, RecordLine, RecordContent, Recorded, GiveUp, Crash, ToGate, Edit,
        Stage, fileVars
  <2>3. lock = s /\ Call(s).file = f
    BY <2>1, <2>2 DEF Open, Write, At, Shape, SubstrateInv, HolderInside, Inside
  <2>4. Call(s).overwrite
    BY <2>1, <2>2, <2>3, SubstrateAssumption
    DEF Open, MayOpen, Write, SubstrateInv, FreshFile
  <2>5. QED
    BY <2>3, <2>4
<1>2. QED
  BY SubstrateIsInvariant, <1>1, PTL DEF Spec, CreatesOnly

-----------------------------------------------------------------------------
(* What a promotion replaces, and what its version records *)

Record == [file : Files, hash : Stored, content : Stored]
Job == [step : Steps, file : Files \cup {None}, text : Stored, found : Stored, latest : Nat,
        version : Nat, stored : Stored, failed : BOOLEAN]

\* a version that is asked for stays in the history
Known(c) == c.tool = "restore" => c.from \in 1 .. Len(history)

Types ==
  /\ \A i \in Ids : Known(asked[i])
  /\ \A s \in Sessions : job[s].step = "read" => Call(s).from \in 1 .. Len(history)
  /\ live \in [Files -> Stored] /\ history \in Seq(Record)
  /\ draft \in [Sessions -> [Files -> Stored]] /\ wlock \in [Sessions -> BOOLEAN]
  /\ job \in [Sessions -> Job]
  /\ raced \in BOOLEAN /\ died \in BOOLEAN

JobsRun == \A s \in Sessions : job[s].step # "none" <=> running[s] # None

\* no confirmed calls have overlapped: one session at most is in one
OneRuns ==
  ~raced => \A s, t \in Sessions : job[s].step # "none" /\ job[t].step # "none" => s = t

\* what the checks found is still there when the file is opened
ChecksHold(s) ==
  /\ job[s].step \in {"content", "lease", "open"} => Call(s).version \in {0, Latest(Call(s).file)}
  /\ job[s].step \in {"lease", "open"} => Call(s).hash \in {NoFile, live[Call(s).file]}

\* ExpectedReplaced, of one session
Replaced(s) ==
  job[s].step \in {"write", "release"} /\ ~job[s].failed =>
    /\ Call(s).hash \in {NoFile, job[s].found}
    /\ Call(s).version \in {0, Latest(Call(s).file)}

\* the text a call has in hand is the file, after the write and when it is recorded
TextIsLive(s) ==
  job[s].step = "record" \/ (job[s].step = "release" /\ ~job[s].failed) =>
    live[Call(s).file] = job[s].text

\* the version a call is recording is its file's last one
RecordsLast(s) ==
  job[s].step = "record" /\ job[s].version # 0 =>
    /\ Of(Call(s).file) # {} /\ job[s].version = Latest(Call(s).file)
    /\ history[job[s].version].hash = job[s].text
    /\ history[job[s].version].content = job[s].stored

\* only a call that is recording has a version or a content file, and only one whose
\* open failed has failed
OwnRecord(s) ==
  /\ job[s].stored \in {NoFile, job[s].text}
  /\ job[s].step # "record" => job[s].version = 0 /\ job[s].stored = NoFile
  /\ job[s].step # "release" => ~job[s].failed

Alone(s) == ChecksHold(s) /\ Replaced(s) /\ TextIsLive(s) /\ RecordsLast(s)

\* Latest is a largest element
HasLatest == \A f \in Files : Of(f) # {} => Latest(f) \in Of(f) /\ \A v \in Of(f) : v <= Latest(f)

IsLive(f) == Of(f) # {} => history[Latest(f)].hash = live[f] /\ history[Latest(f)].content = live[f]

\* a call that has changed its file and not recorded it yet
Unsettled(s) ==
  \/ job[s].step \in {"write", "reconcile", "readback", "record"}
  \/ job[s].step = "release" /\ ~job[s].failed

AllLive ==
  ~raced /\ ~died =>
    \A f \in Files : IsLive(f) \/ \E s \in Sessions : Unsettled(s) /\ Call(s).file = f

\* only a death leaves the lease of a workspace behind
WorkspacesFree == ~died => \A s \in Sessions : ~wlock[s]

VersionInv ==
  /\ Types /\ JobsRun /\ OneRuns /\ HasLatest /\ AllLive /\ WorkspacesFree
  /\ \A s \in Sessions : OwnRecord(s) /\ (~raced => Alone(s))

\* A running call is one of the substrate's.
LEMMA CallTypes ==
  ASSUME GateTypeOK, NEW s \in Sessions, running[s] # None
  PROVE  Call(s) \in SubstrateCalls /\ Call(s).file \in Files
<1>1. Call(s) \in SubstrateCalls
  BY SubstrateAssumption DEF GateTypeOK, Call
<1>2. QED
  BY <1>1 DEF SubstrateCalls

\* The last version of a file is the one that is not before another.
LEMMA LatestIs ==
  ASSUME NEW f, NEW v \in Of(f), \A w \in Of(f) : w <= v
  PROVE  Latest(f) = v
<1>1. Of(f) \subseteq Nat
  BY DEF Of
<1>2. \A x \in Of(f) : (\A w \in Of(f) : w <= x) => x = v
  BY <1>1
<1>3. QED
  BY <1>2 DEF Latest

\* A history that does not change has the same last versions.
LEMMA SameLatest ==
  ASSUME UNCHANGED history
  PROVE  \A f : Of(f)' = Of(f) /\ Latest(f)' = Latest(f)
BY DEF Of, Latest

-----------------------------------------------------------------------------
(* The types *)

LEMMA TypesInitially == Init => Types
<1>1. NoJob \in Job
  BY DEF NoJob, Job, Steps, Stored
<1>2. Init => history \in Seq(Record)
  BY DEF Init
<1>3. Init => draft \in [Sessions -> [Files -> Stored]]
  BY SubstrateAssumption DEF Init, Stored
<1>4. Init => Ids = {} /\ \A s \in Sessions : job[s].step = "none"
  BY DEF Init, GateInit, Ids, NoJob
<1>5. QED
  BY <1>1, <1>2, <1>3, <1>4 DEF Init, Types, Stored

\* Types, when a job changes and a file or a version is written.
LEMMA JobWrites ==
  ASSUME Types, NEW s \in Sessions, NEW j \in Job, job' = [job EXCEPT ![s] = j], j.step # "read",
         live' \in [Files -> Stored], history' \in Seq(Record), Len(history) <= Len(history'),
         UNCHANGED <<draft, wlock, raced, died, asked>>,
         \A t \in Sessions \ {s} : running'[t] = running[t]
  PROVE  Types'
<1>1. 1 .. Len(history) \subseteq 1 .. Len(history')
  BY DEF Types
<1>2. \A t \in Sessions : job'[t].step = "read" => t # s /\ job'[t] = job[t] /\ running'[t] = running[t]
  BY DEF Types
<1>3. QED
  BY <1>1, <1>2 DEF Types, Ids, Known, Call

\* Types, when a job changes and nothing is written.
LEMMA JobStays ==
  ASSUME Types, NEW s \in Sessions, NEW j \in Job, job' = [job EXCEPT ![s] = j],
         UNCHANGED <<live, history, draft, asked>>, j.step # "read",
         \A t \in Sessions \ {s} : running'[t] = running[t],
         wlock' \in [Sessions -> BOOLEAN], raced' \in BOOLEAN, died' \in BOOLEAN
  PROVE  Types'
BY DEF Types, Ids, Known, Call

LEMMA JobIsJob == ASSUME Types, NEW s \in Sessions PROVE job[s] \in Job
BY DEF Types

LEMMA NoJobIsJob == NoJob \in Job
BY DEF NoJob, Job, Steps, Stored

\* a call that passes the gate begins
PassBegins(s, c) ==
  /\ Pass(s, c)
  /\ job' = [job EXCEPT ![s] = [NoJob EXCEPT !.step = IF c.tool = "restore" THEN "read" ELSE "version",
                                            !.file = running'[s].call.file]]
  /\ raced' = (raced \/ Running # {})

\* A history that is left alone is not shorter.
LEMMA HistoryStays ==
  ASSUME Types, UNCHANGED history PROVE history' \in Seq(Record) /\ Len(history) <= Len(history')
<1>1. history \in Seq(Record) /\ Len(history) \in Nat
  BY DEF Types
<1>2. QED
  BY <1>1

LEMMA TypesStay ==
  ASSUME Types, JobsRun, HasLatest, GateTypeOK, [Next]_vars PROVE Types'
<1>1. ASSUME NEW s \in Sessions, Turns(s) PROVE Types'
  <2>1. UNCHANGED <<live, history, draft, wlock, job, raced, died, running, asked>>
    BY <1>1 DEF Turns, fileVars, ownVars, Answer, BeginTurn, Reply, Fail
  <2>2. QED
    BY <2>1 DEF Types, Ids, Known, Call
<1>2. ASSUME NEW s \in Sessions, GiveUp(s) PROVE Types'
  <2>1. /\ job' = [job EXCEPT ![s] = NoJob] /\ NoJob.step # "read" /\ running' = [running EXCEPT ![s] = None]
        /\ UNCHANGED <<live, history, draft, wlock, asked, raced, died>>
    BY <1>2 DEF GiveUp, Ends, Returned, fileVars, ownVars, NoJob
  <2>2. QED
    BY <2>1, JobStays, NoJobIsJob DEF Types, GateTypeOK
<1>3. ASSUME NEW s \in Sessions, Crash(s) PROVE Types'
  <2>1. wlock' \in [Sessions -> BOOLEAN] /\ died' \in BOOLEAN
    <3>1. wlock' = wlock \/ wlock' = [wlock EXCEPT ![s] = TRUE]
      BY <1>3 DEF Crash
    <3>2. died' = died \/ died' = TRUE
      BY <1>3 DEF Crash
    <3>3. QED
      BY <3>1, <3>2 DEF Types
  <2>2. QED
    <3>1. /\ job' = [job EXCEPT ![s] = NoJob] /\ NoJob.step # "read" /\ running' = [running EXCEPT ![s] = None]
          /\ UNCHANGED <<live, history, draft, asked, raced>>
      BY <1>3 DEF Crash, Die, fileVars, NoJob
    <3>2. QED
      BY <2>1, <3>1, JobStays, NoJobIsJob DEF Types, GateTypeOK
<1>4. ASSUME NEW s \in Sessions, NEW f \in Files, NEW text \in Contents, Edit(s, f, text) PROVE Types'
  BY <1>4 DEF Edit, Types, Ids, Known, Call, gateVars, fileVars, Stored
<1>5. ASSUME NEW s \in Sessions, NEW f \in Files, NEW o \in BOOLEAN, Stage(s, f, o) PROVE Types'
  <2>1. draft' \in [Sessions -> [Files -> Stored]]
    BY <1>5 DEF Stage, Types
  <2>2. QED
    BY <1>5, <2>1 DEF Stage, Types, Ids, Known, Call, gateVars, fileVars
<1>6. ASSUME NEW s \in Sessions, NEW c \in Asked(s) \cap Calls, ToGate(s, c) PROVE Types'
  <2>1. UNCHANGED <<live, history, draft, wlock, died>>
    BY <1>6 DEF ToGate, fileVars, ownVars
  <2>2. ASSUME PassBegins(s, c) PROVE Types'
    <3> DEFINE j == [NoJob EXCEPT !.step = IF c.tool = "restore" THEN "read" ELSE "version",
                                  !.file = running'[s].call.file]
    <3>1. job' = [job EXCEPT ![s] = j]
      BY <2>2 DEF PassBegins
    <3>2. /\ turn[s].request \in Ids /\ asked[turn[s].request].tool = c.tool
          /\ running' = [running EXCEPT ![s] = [id |-> turn[s].request,
                                                call |-> asked[turn[s].request]]]
          /\ running[s] = None /\ UNCHANGED asked
      BY <2>2 DEF PassBegins, Pass, SameTool, CanCall, EffectiveArgs, GateTypeOK
    <3>3. asked[turn[s].request] \in SubstrateCalls
      BY <3>2, SubstrateAssumption DEF GateTypeOK, Ids
    <3>4. running'[s].call = asked[turn[s].request] /\ \A t \in Sessions \ {s} : running'[t] = running[t]
      BY <3>2 DEF GateTypeOK
    <3>5. j \in Job
      BY <3>3, <3>4, NoJobIsJob DEF Job, SubstrateCalls, Steps
    <3>6. raced' \in BOOLEAN
      <4>1. raced' = (raced \/ Running # {})
        BY <2>2 DEF PassBegins
      <4>2. QED
        BY <4>1 DEF Types
    <3>7. \A t \in Sessions : job'[t].step = "read" => running'[t].call.from \in 1 .. Len(history)
      <4> SUFFICES ASSUME NEW t \in Sessions, job'[t].step = "read"
                   PROVE  running'[t].call.from \in 1 .. Len(history)
        OBVIOUS
      <4>1. CASE t = s
        <5>1. c.tool = "restore"
          BY <3>1, <4>1, JobIsJob DEF Types, Job
        <5>2. QED
          BY <3>2, <3>4, <4>1, <5>1 DEF Types, Known
      <4>2. CASE t # s
        BY <3>1, <3>4, <4>2 DEF Types, Call
      <4>3. QED
        BY <4>1, <4>2
    <3> HIDE DEF j
    <3>8. QED
      BY <2>1, <3>1, <3>2, <3>5, <3>6, <3>7 DEF Types, Ids, Known, Call
  <2>3. ASSUME Refuse(s, c) \/ Interruption(s, c), UNCHANGED <<job, raced>> PROVE Types'
    <3>1. UNCHANGED <<running, job, raced>>
      BY <2>3 DEF Refuse, Interruption, gateVars
    <3>2. CASE UNCHANGED asked
      BY <2>1, <3>1, <3>2 DEF Types, Ids, Known, Call
    <3>3. CASE asked' = Append(asked, c)
      <4>1. /\ Len(asked') = Len(asked) + 1 /\ asked'[Len(asked) + 1] = c
            /\ \A i \in 1 .. Len(asked) : asked'[i] = asked[i]
        BY <3>3 DEF GateTypeOK
      <4>2. Known(c)
        BY DEF Known, Asked, Promotions, Restorations
      <4>3. \A i \in 1 .. Len(asked') : i \in 1 .. Len(asked) \/ i = Len(asked) + 1
        BY <4>1 DEF GateTypeOK
      <4>4. \A i \in Ids' : Known(asked'[i])
        BY <4>1, <4>2, <4>3 DEF Ids, Types
      <4>5. QED
        BY <2>1, <3>1, <4>4 DEF Types, Ids, Known, Call
    <3>4. QED
      BY <2>3, <3>2, <3>3 DEF Refuse, Interruption, gateVars
  <2>4. QED
    BY <1>6, <2>2, <2>3 DEF ToGate, PassBegins
<1>7. ASSUME NEW s \in Sessions, SubstrateCall(s), ~GiveUp(s) PROVE Types'
  <2>1. UNCHANGED <<gateVars, draft, wlock, died, raced>> \/ Release(s)
    BY <1>7
    DEF SubstrateCall, ReadVersion, CheckVersion, CheckContent, Lease, Open, Write, Reconcile,
        Readback, RecordLine, RecordContent, Recorded, Goto, gateVars, ownVars
  <2>2. CASE ReadVersion(s)
    <3> DEFINE text == history[Call(s).from].content
    <3>1. history[Call(s).from] \in Record
      BY <2>2 DEF ReadVersion, At, Types
    <3>2. job' = [job EXCEPT ![s] = [job[s] EXCEPT !.step = "version", !.text = text]]
      BY <1>7, <2>2 DEF ReadVersion
    <3>3. UNCHANGED <<gateVars, live, history, draft, wlock, raced, died>>
      BY <1>7, <2>2 DEF ReadVersion, fileVars, ownVars
    <3>4. text \in Stored
      BY <3>1 DEF Record
    <3> HIDE DEF text
    <3>5. [job[s] EXCEPT !.step = "version", !.text = text] \in Job
      BY <3>4, JobIsJob DEF Job, Steps
    <3>6. [job[s] EXCEPT !.step = "version", !.text = text].step # "read"
      BY JobIsJob DEF Job
    <3>7. QED
      BY <3>2, <3>3, <3>5, <3>6, JobStays DEF gateVars, Types
  <2>3. CASE CheckVersion(s) \/ CheckContent(s) \/ Lease(s) \/ Reconcile(s) \/ Readback(s)
    <3>1. UNCHANGED <<gateVars, live, history, draft, wlock, raced, died>>
      BY <1>7, <2>3 DEF CheckVersion, CheckContent, Lease, Reconcile, Readback, fileVars, ownVars
    <3>2. \E j \in Job : job' = [job EXCEPT ![s] = j] /\ j.step # "read"
      <4> DEFINE to(step) == [job[s] EXCEPT !.step = step]
      <4>0. \A step \in Steps \ {"read"} : to(step) \in Job /\ to(step).step # "read"
        BY JobIsJob DEF Job
      <4>1. CASE CheckVersion(s)
        <5> DEFINE v == Latest(Call(s).file)
        <5>1. job' = [job EXCEPT ![s] = [job[s] EXCEPT !.step = "content", !.latest = v]]
          BY <1>7, <4>1 DEF CheckVersion
        <5>2. v \in Nat
          <6>1. Call(s).file \in Files
            BY <4>1, CallTypes DEF CheckVersion, At, JobsRun
          <6>2. Of(Call(s).file) = {} => v = 0
            BY DEF Latest
          <6>3. Of(Call(s).file) # {} => v \in Of(Call(s).file)
            BY <6>1 DEF HasLatest
          <6>4. Of(Call(s).file) \subseteq Nat
            BY DEF Of
          <6>5. QED
            BY <6>2, <6>3, <6>4
        <5> HIDE DEF v
        <5>3. [job[s] EXCEPT !.step = "content", !.latest = v] \in Job
          BY <5>2, JobIsJob DEF Job, Steps
        <5>4. [job[s] EXCEPT !.step = "content", !.latest = v].step # "read"
          BY JobIsJob DEF Job
        <5>5. QED
          BY <5>1, <5>3, <5>4
      <4>2. CASE CheckContent(s) \/ Reconcile(s)
        <5>1. job' = [job EXCEPT ![s] = to("lease")] \/ job' = [job EXCEPT ![s] = to("readback")]
          BY <1>7, <4>2 DEF CheckContent, Reconcile, Goto
        <5>2. QED
          BY <4>0, <5>1 DEF Steps
      <4>3. CASE Lease(s)
        <5> DEFINE text == IF Call(s).tool = "promote" THEN draft[s][Call(s).file] ELSE job[s].text
        <5>1. job' = [job EXCEPT ![s] = [job[s] EXCEPT !.step = "open", !.text = text]]
          BY <1>7, <4>3 DEF Lease
        <5>2. text \in Stored
          <6>1. Call(s).file \in Files
            BY <4>3, CallTypes DEF Lease, At, JobsRun
          <6>2. QED
            BY <6>1 DEF Types, Job
        <5> HIDE DEF text
        <5>3. [job[s] EXCEPT !.step = "open", !.text = text] \in Job
          BY <5>2, JobIsJob DEF Job, Steps
        <5>4. [job[s] EXCEPT !.step = "open", !.text = text].step # "read"
          BY JobIsJob DEF Job
        <5>5. QED
          BY <5>1, <5>3, <5>4
      <4>4. CASE Readback(s)
        <5> DEFINE text == live[Call(s).file]
        <5>1. job' = [job EXCEPT ![s] = [job[s] EXCEPT !.step = "record", !.text = text]]
          BY <4>4 DEF Readback
        <5>2. text \in Stored
          <6>1. Call(s).file \in Files
            BY <4>4, CallTypes DEF Readback, At, JobsRun
          <6>2. QED
            BY <6>1 DEF Types
        <5> HIDE DEF text
        <5>3. [job[s] EXCEPT !.step = "record", !.text = text] \in Job
          BY <5>2, JobIsJob DEF Job, Steps
        <5>4. [job[s] EXCEPT !.step = "record", !.text = text].step # "read"
          BY JobIsJob DEF Job
        <5>5. QED
          BY <5>1, <5>3, <5>4
      <4>5. QED
        BY <2>3, <4>1, <4>2, <4>3, <4>4
    <3>3. QED
      BY <3>1, <3>2, JobStays DEF gateVars, Types
  <2>4. CASE Open(s)
    <3> DEFINE j == [job[s] EXCEPT !.step = "write", !.found = live[Call(s).file]]
               k == [job[s] EXCEPT !.step = "release", !.failed = TRUE]
    <3>1. Call(s).file \in Files
      BY <2>4, CallTypes DEF Open, At, JobsRun
    <3>2. j \in Job /\ k \in Job /\ j.step # "read" /\ k.step # "read"
      BY <3>1, JobIsJob DEF Types, Job, Steps
    <3>3. job' = [job EXCEPT ![s] = j] \/ job' = [job EXCEPT ![s] = k]
      BY <2>4 DEF Open
    <3>4. /\ live' \in [Files -> Stored]
          /\ UNCHANGED <<history, draft, wlock, raced, died, asked, running>>
      BY <2>4 DEF Open, gateVars, ownVars, Types, Stored
    <3> HIDE DEF j, k
    <3>5. QED
      BY <3>2, <3>3, <3>4, JobWrites, HistoryStays
  <2>5. CASE Write(s)
    <3> DEFINE j == [job[s] EXCEPT !.step = "release"]
    <3>1. Call(s).file \in Files
      BY <2>5, CallTypes DEF Write, At, JobsRun
    <3>2. j \in Job /\ j.step # "read" /\ job[s].text \in Stored
      BY JobIsJob DEF Job, Steps
    <3>3. job' = [job EXCEPT ![s] = j]
      BY <2>5 DEF Write, Goto
    <3>4. /\ live' \in [Files -> Stored]
          /\ UNCHANGED <<history, draft, wlock, raced, died, asked, running>>
      BY <2>5, <3>2 DEF Write, gateVars, ownVars, Types
    <3> HIDE DEF j
    <3>5. QED
      BY <3>2, <3>3, <3>4, JobWrites, HistoryStays
  <2>6. CASE Release(s)
    <3>1. /\ UNCHANGED <<live, history, draft, wlock, raced, died, asked>>
          /\ \A t \in Sessions \ {s} : running'[t] = running[t]
      BY <2>6 DEF Release, Ends, Returned, gateVars, ownVars, GateTypeOK
    <3>2. CASE Ends(s)
      <4>1. NoJob.step # "read" /\ job' = [job EXCEPT ![s] = NoJob]
        BY <3>2 DEF Ends, NoJob
      <4>2. live' \in [Files -> Stored]
        BY <3>1 DEF Types
      <4>3. QED
        BY <3>1, <4>1, <4>2, JobWrites, NoJobIsJob, HistoryStays
    <3>3. CASE Goto(s, AfterRelease(s))
      <4> DEFINE j == [job[s] EXCEPT !.step = AfterRelease(s)]
      <4>1. j \in Job /\ j.step # "read"
        BY JobIsJob DEF Job, Steps, AfterRelease
      <4>2. job' = [job EXCEPT ![s] = j]
        BY <3>3 DEF Goto
      <4> HIDE DEF j
      <4>3. QED
        BY <3>1, <4>1, <4>2, JobWrites, HistoryStays DEF Types
    <3>4. QED
      BY <2>6, <3>2, <3>3 DEF Release
  <2>7. CASE RecordLine(s)
    <3> DEFINE j == [job[s] EXCEPT !.version = Len(history) + 1]
               r == [file |-> Call(s).file, hash |-> job[s].text, content |-> job[s].stored]
    <3>1. Call(s).file \in Files
      BY <2>7, CallTypes DEF RecordLine, At, JobsRun
    <3>2. /\ j \in Job /\ j.step # "read"
      <4>1. Len(history) + 1 \in Nat
        BY DEF Types
      <4>2. job[s] \in Job /\ job[s].step = "record"
        BY <2>7, JobIsJob DEF RecordLine, At
      <4>3. QED
        BY <4>1, <4>2 DEF Job
    <3>3. job' = [job EXCEPT ![s] = j]
      BY <2>7 DEF RecordLine
    <3>4. r \in Record /\ history' = Append(history, r)
      BY <2>7, <3>1, JobIsJob DEF RecordLine, Record, Job
    <3> HIDE DEF j, r
    <3>5. history' \in Seq(Record) /\ Len(history) <= Len(history')
      BY <3>4 DEF Types
    <3>6. UNCHANGED <<live, draft, wlock, raced, died, asked, running>>
      BY <2>7 DEF RecordLine, gateVars, ownVars
    <3>7. QED
      BY <3>2, <3>3, <3>5, <3>6, JobWrites DEF Types
  <2>8. CASE RecordContent(s)
    <3> DEFINE j == [job[s] EXCEPT !.stored = job[s].text]
               v == job[s].version
    <3>1. /\ j \in Job /\ j.step # "read" /\ job[s].text \in Stored
      BY <2>8, JobIsJob DEF RecordContent, At, Types, Job
    <3>2. job' = [job EXCEPT ![s] = j]
      BY <2>8 DEF RecordContent
    <3>3. history' \in Seq(Record) /\ Len(history) = Len(history')
      <4>1. history' = history \/ history' = [history EXCEPT ![v].content = job[s].text]
        BY <2>8 DEF RecordContent
      <4>2. CASE v \in DOMAIN history
        <5>1. history[v] \in Record
          BY <4>2 DEF Types
        <5>2. [history[v] EXCEPT !.content = job[s].text] \in Record
          BY <3>1, <5>1 DEF Record
        <5>3. history' = history \/ history' = [history EXCEPT ![v] = [history[v] EXCEPT !.content = job[s].text]]
          BY <4>1
        <5>4. history \in Seq(Record)
          BY DEF Types
        <5> DEFINE h == [history[v] EXCEPT !.content = job[s].text]
        <5> HIDE DEF h, v
        <5>5. h \in Record /\ (history' = history \/ history' = [history EXCEPT ![v] = h])
          BY <5>2, <5>3 DEF h
        <5>6. QED
          BY <4>2, <5>4, <5>5
      <4>3. CASE v \notin DOMAIN history
        <5>1. history' = history
          BY <4>1, <4>3 DEF Types
        <5>2. QED
          BY <5>1 DEF Types
      <4>4. QED
        BY <4>2, <4>3
    <3>4. UNCHANGED <<live, draft, wlock, raced, died, asked, running>>
      BY <2>8 DEF RecordContent, gateVars, ownVars
    <3> HIDE DEF j, v
    <3>5. Len(history) <= Len(history')
      BY <3>3 DEF Types
    <3>6. QED
      BY <3>1, <3>2, <3>3, <3>4, <3>5, JobWrites DEF Types
  <2>9. QED
    BY <1>7, <2>2, <2>3, <2>4, <2>5, <2>6, <2>7, <2>8 DEF SubstrateCall, Recorded
<1>8. CASE UNCHANGED vars
  BY <1>8 DEF vars, gateVars, fileVars, ownVars, Types, Ids, Known, Call
<1>9. QED
  BY <1>1, <1>2, <1>3, <1>4, <1>5, <1>6, <1>7, <1>8 DEF Next

-----------------------------------------------------------------------------
(* Who is in a call *)

\* A session's step changes no other session's call, and only a call that passes the
\* gate begins.
LEMMA OwnCall ==
  ASSUME Types, GateTypeOK, NEW s \in Sessions,
         SubstrateCall(s) \/ GiveUp(s) \/ Crash(s) \/ \E c \in Asked(s) \cap Calls : ToGate(s, c)
  PROVE  \A t \in Sessions \ {s} : job'[t] = job[t] /\ running'[t] = running[t]
<1>1. CASE GiveUp(s)
  BY <1>1 DEF GiveUp, Ends, Returned, Types, GateTypeOK
<1>2. CASE SubstrateCall(s) /\ ~GiveUp(s)
  <2>1. CASE Release(s)
    BY <2>1 DEF Release, Ends, Returned, Goto, gateVars, Types, GateTypeOK
  <2>2. CASE ~Release(s)
    <3>1. running' = running
      BY <1>2, <2>2
      DEF SubstrateCall, ReadVersion, CheckVersion, CheckContent, Lease, Open, Write, Reconcile,
          Readback, RecordLine, RecordContent, Recorded, gateVars
    <3>2. \A t \in Sessions \ {s} : job'[t] = job[t]
      BY <1>2, <2>2
      DEF SubstrateCall, ReadVersion, CheckVersion, CheckContent, Lease, Open, Write, Reconcile,
          Readback, RecordLine, RecordContent, Recorded, Goto, Types
    <3>3. QED
      BY <3>1, <3>2
  <2>3. QED
    BY <2>1, <2>2
<1>3. CASE Crash(s)
  BY <1>3 DEF Crash, Die, Types, GateTypeOK
<1>4. ASSUME NEW c \in Asked(s) \cap Calls, ToGate(s, c)
      PROVE  \A t \in Sessions \ {s} : job'[t] = job[t] /\ running'[t] = running[t]
  BY <1>4 DEF ToGate, Pass, Refuse, Interruption, gateVars, Types, GateTypeOK
<1>5. QED
  BY <1>1, <1>2, <1>3, <1>4

\* Between a call's steps its session runs what it ran.
LEMMA CallGoesOn ==
  ASSUME Types, NEW s \in Sessions, SubstrateCall(s), ~GiveUp(s), ~(Release(s) /\ job[s].failed)
  PROVE  /\ running' = running /\ job[s].step # "none" /\ job'[s].step # "none"
         /\ UNCHANGED <<raced, died, wlock>>
<1>1. running' = running /\ UNCHANGED <<raced, died, wlock>>
  BY DEF SubstrateCall, ReadVersion, CheckVersion, CheckContent, Lease, Open, Write, Release,
         Reconcile, Readback, RecordLine, RecordContent, Recorded, gateVars, ownVars
<1>2. job[s].step # "none"
  BY DEF SubstrateCall, ReadVersion, CheckVersion, CheckContent, Lease, Open, Write, Release,
         Reconcile, Readback, RecordLine, RecordContent, Recorded, At
<1>3. job'[s].step # "none"
  <2>1. job \in [Sessions -> Job]
    BY DEF Types
  <2>2. QED
    BY <2>1
    DEF SubstrateCall, ReadVersion, CheckVersion, CheckContent, Lease, Open, Write, Release,
        Reconcile, Readback, RecordLine, RecordContent, Recorded, Goto, AfterRelease, At, Job
<1>4. QED
  BY <1>1, <1>2, <1>3

\* A call that ends leaves nothing behind in its session.
LEMMA CallEnds ==
  ASSUME Types, GateTypeOK, NEW s \in Sessions, Ends(s)
  PROVE  running'[s] = None /\ job'[s] = NoJob
BY DEF Ends, Returned, Types, GateTypeOK

LEMMA RunsStay ==
  ASSUME Types, GateTypeOK, JobsRun, OneRuns, [Next]_vars
  PROVE  JobsRun' /\ OneRuns'
<1>1. ASSUME NEW s \in Sessions, SubstrateCall(s) \/ GiveUp(s) \/ Crash(s) PROVE JobsRun' /\ OneRuns'
  <2>1. \A t \in Sessions \ {s} : job'[t] = job[t] /\ running'[t] = running[t]
    BY <1>1, OwnCall
  <2>2. CASE Ends(s) \/ Crash(s)
    <3>1. job'[s].step = "none" /\ running'[s] = None /\ raced' = raced
      <4>1. CASE Ends(s)
        BY <1>1, <4>1, CallEnds
        DEF NoJob, SubstrateCall, ReadVersion, CheckVersion, CheckContent, Lease, Open, Write, Release,
            Reconcile, Readback, RecordLine, RecordContent, Recorded, GiveUp, Crash
      <4>2. CASE Crash(s)
        BY <4>2 DEF Crash, Die, NoJob, Types, GateTypeOK
      <4>3. QED
        BY <2>2, <4>1, <4>2
    <3>2. QED
      BY <2>1, <3>1 DEF JobsRun, OneRuns
  <2>3. CASE ~Ends(s) /\ ~Crash(s)
    <3>1. /\ running' = running /\ job[s].step # "none" /\ job'[s].step # "none"
          /\ UNCHANGED <<raced, died, wlock>>
      BY <1>1, <2>3, CallGoesOn DEF GiveUp, Release
    <3>2. QED
      BY <2>1, <3>1 DEF JobsRun, OneRuns
  <2>4. QED
    BY <2>2, <2>3
<1>2. ASSUME NEW s \in Sessions, NEW c \in Asked(s) \cap Calls, ToGate(s, c) PROVE JobsRun' /\ OneRuns'
  <2>1. \A t \in Sessions \ {s} : job'[t] = job[t] /\ running'[t] = running[t]
    BY <1>2, OwnCall
  <2>2. CASE PassBegins(s, c)
    <3>1. job'[s].step # "none"
      BY <2>2 DEF PassBegins, NoJob, Types
    <3>2. running'[s] # None
      <4>1. running'[s] = [id |-> turn[s].request, call |-> EffectiveArgs(s, c)]
        BY <2>2 DEF PassBegins, Pass, GateTypeOK
      <4>2. turn[s].request \in Nat /\ asked[turn[s].request] \in Calls
        BY <2>2 DEF PassBegins, Pass, SameTool, CanCall, GateTypeOK, Ids
      <4>3. running'[s] \in [id : Nat, call : Calls]
        BY <4>1, <4>2 DEF EffectiveArgs
      <4>4. QED
        BY <4>3, GateAssumption
    <3>3. ~raced' => Running = {}
      BY <2>2 DEF PassBegins
    <3>4. QED
      BY <2>1, <3>1, <3>2, <3>3 DEF JobsRun, OneRuns, Running
  <2>3. CASE (Refuse(s, c) \/ Interruption(s, c)) /\ UNCHANGED <<job, raced>>
    BY <2>3 DEF Refuse, Interruption, gateVars, JobsRun, OneRuns
  <2>4. QED
    BY <1>2, <2>2, <2>3 DEF ToGate, PassBegins
<1>3. ASSUME NEW s \in Sessions, Turns(s) PROVE JobsRun' /\ OneRuns'
  <2>1. UNCHANGED <<job, raced, running>>
    BY <1>3 DEF Turns, Answer, BeginTurn, Reply, Fail
  <2>2. QED
    BY <2>1 DEF JobsRun, OneRuns
<1>4. ASSUME NEW s \in Sessions, NEW f, NEW x, Edit(s, f, x) \/ Stage(s, f, x) PROVE JobsRun' /\ OneRuns'
  BY <1>4 DEF Edit, Stage, gateVars, JobsRun, OneRuns
<1>5. CASE UNCHANGED vars
  BY <1>5 DEF vars, gateVars, JobsRun, OneRuns
<1>6. QED
  BY <1>1, <1>2, <1>3, <1>4, <1>5 DEF Next

-----------------------------------------------------------------------------
(* What a call does to the versions *)

\* every file is its last version but the one a session's call has changed
Settled(s) == \A f \in Files : IsLive(f) \/ (Unsettled(s) /\ Call(s).file = f)

\* While no other session is in a call, its own one decides.
LEMMA CallDecides ==
  ASSUME VersionInv, NEW s \in Sessions, job[s].step # "none",
         \A t \in Sessions \ {s} : job'[t] = job[t] /\ running'[t] = running[t],
         Types', JobsRun', OneRuns', HasLatest', raced' = raced,
         died => died', ~died' => wlock' = wlock,
         OwnRecord(s)', ~raced => Alone(s)',
         ~raced /\ ~died' /\ Settled(s) => Settled(s)'
  PROVE  VersionInv'
<1>1. ~raced => \A t \in Sessions \ {s} : job[t].step = "none"
  BY DEF VersionInv, OneRuns
<1>2. \A t \in Sessions \ {s} : OwnRecord(t)'
  BY DEF VersionInv, OwnRecord
<1>3. ~raced => \A t \in Sessions \ {s} : Alone(t)'
  BY <1>1 DEF Alone, ChecksHold, Replaced, TextIsLive, RecordsLast
<1>4. AllLive'
  <2> SUFFICES ASSUME ~raced, ~died' PROVE Settled(s)'
    BY DEF AllLive, Settled
  <2>1. \A t \in Sessions \ {s} : ~Unsettled(t)
    BY <1>1 DEF Unsettled
  <2>2. AllLive /\ ~died
    BY DEF VersionInv
  <2>3. Settled(s)
    BY <2>1, <2>2 DEF AllLive, Settled
  <2>4. QED
    BY <2>3
<1>5. WorkspacesFree'
  BY DEF VersionInv, WorkspacesFree
<1>6. QED
  BY <1>2, <1>3, <1>4, <1>5 DEF VersionInv

\* Without a write, what holds of a file goes on to hold.
LEMMA NothingWritten ==
  ASSUME UNCHANGED <<live, history>>
  PROVE  /\ \A f : Of(f)' = Of(f) /\ Latest(f)' = Latest(f)
         /\ HasLatest => HasLatest'
         /\ \A f : IsLive(f) => IsLive(f)'
<1>1. \A f : Of(f)' = Of(f) /\ Latest(f)' = Latest(f)
  BY SameLatest
<1>2. QED
  BY <1>1 DEF HasLatest, IsLive

\* A step of a call that writes nothing and stays on the same side of its changes.
LEMMA CallMoves ==
  ASSUME VersionInv, GateTypeOK, NEW s \in Sessions, SubstrateCall(s), ~GiveUp(s),
         ~(Release(s) /\ job[s].failed), [Next]_vars, Types', JobsRun', OneRuns',
         UNCHANGED <<live, history>>, OwnRecord(s)', ~raced => Alone(s)',
         Unsettled(s) => Unsettled(s)'
  PROVE  VersionInv'
<1>1. /\ running' = running /\ job[s].step # "none" /\ UNCHANGED <<raced, died, wlock>>
      /\ \A t \in Sessions \ {s} : job'[t] = job[t] /\ running'[t] = running[t]
  BY CallGoesOn, OwnCall DEF VersionInv
<1>2. HasLatest'
  BY NothingWritten DEF VersionInv
<1>3. Settled(s) => Settled(s)'
  BY <1>1, NothingWritten DEF Settled, Call
<1>4. QED
  BY <1>1, <1>2, <1>3, CallDecides

\* The checks and the lease: what they have found stays so until the file is opened.
LEMMA ChecksStay ==
  ASSUME VersionInv, GateTypeOK, NEW s \in Sessions, ~GiveUp(s), [Next]_vars, Types', JobsRun', OneRuns',
         ReadVersion(s) \/ CheckVersion(s) \/ CheckContent(s) \/ Lease(s)
  PROVE  VersionInv'
<1>1. /\ UNCHANGED <<live, history>> /\ SubstrateCall(s) /\ ~(Release(s) /\ job[s].failed)
  BY DEF ReadVersion, CheckVersion, CheckContent, Lease, Release, At, SubstrateCall, fileVars
<1>2. Call(s)' = Call(s) /\ \A f : Latest(f)' = Latest(f)
  BY <1>1, CallGoesOn, NothingWritten DEF VersionInv, Call
<1>3. job[s] \in Job /\ job'[s] \in Job
  BY JobIsJob DEF VersionInv, Types
<1>4. /\ job[s].step \in {"read", "version", "content", "lease"}
      /\ job'[s].step \in {"version", "content", "lease", "open"}
      /\ job'[s].version = job[s].version /\ job'[s].stored = job[s].stored
      /\ job'[s].failed = job[s].failed
  BY <1>3 DEF ReadVersion, CheckVersion, CheckContent, Lease, At, Goto, Job, VersionInv, Types
<1>5. OwnRecord(s)'
  BY <1>4 DEF VersionInv, OwnRecord
<1>6. ~raced => Alone(s)'
  <2>1. job'[s].step = "content" => VersionExpected(s)
    BY <1>3 DEF ReadVersion, CheckVersion, CheckContent, Lease, At, Goto, Job, VersionInv, Types
  <2>2. job'[s].step = "lease" => ContentExpected(s) /\ job[s].step = "content"
    BY <1>3 DEF ReadVersion, CheckVersion, CheckContent, Lease, At, Goto, Job, VersionInv, Types
  <2>3. job'[s].step = "open" => job[s].step = "lease"
    BY <1>3 DEF ReadVersion, CheckVersion, CheckContent, Lease, At, Goto, Job, VersionInv, Types
  <2>4. ~raced => ChecksHold(s)
    BY DEF VersionInv, Alone
  <2>5. ~raced => ChecksHold(s)'
    BY <1>1, <1>2, <1>4, <2>1, <2>2, <2>3, <2>4 DEF ChecksHold, VersionExpected, ContentExpected
  <2>6. QED
    BY <1>4, <2>5 DEF Alone, Replaced, TextIsLive, RecordsLast
<1>7. ~Unsettled(s)
  BY <1>4 DEF Unsettled
<1>8. QED
  BY <1>1, <1>5, <1>6, <1>7, CallMoves

\* The exclusive or truncating open replaces what the checks found.
LEMMA OpenStays ==
  ASSUME VersionInv, GateTypeOK, NEW s \in Sessions, Open(s), Types', JobsRun', OneRuns'
  PROVE  VersionInv'
<1>1. SubstrateCall(s) /\ ~(Release(s) /\ job[s].failed) /\ job[s].step = "open" /\ UNCHANGED history
  BY DEF Open, Release, At, SubstrateCall
<1>2. /\ running' = running /\ UNCHANGED <<raced, died, wlock>>
      /\ \A t \in Sessions \ {s} : job'[t] = job[t] /\ running'[t] = running[t]
  BY <1>1, OwnCall DEF VersionInv, Open, gateVars, ownVars
<1>3. Call(s)' = Call(s) /\ \A f : Of(f)' = Of(f) /\ Latest(f)' = Latest(f)
  BY <1>1, <1>2, SameLatest DEF Call
<1>4. job[s] \in Job /\ Call(s).file \in Files
  BY <1>1, JobIsJob, CallTypes DEF VersionInv, JobsRun
<1>5. /\ job'[s].version = job[s].version /\ job'[s].stored = job[s].stored
      /\ \/ /\ job'[s].step = "write" /\ job'[s].found = live[Call(s).file]
            /\ job'[s].failed = job[s].failed
            /\ \A f \in Files : f # Call(s).file => live'[f] = live[f]
         \/ job'[s].step = "release" /\ job'[s].failed /\ live' = live
  BY <1>4 DEF Open, VersionInv, Types, Job
<1>6. OwnRecord(s)'
  BY <1>1, <1>5 DEF VersionInv, OwnRecord
<1>7. ~raced => Alone(s)'
  <2>1. ~raced => ChecksHold(s)
    BY DEF VersionInv, Alone
  <2>2. QED
    BY <1>1, <1>3, <1>5, <2>1 DEF Alone, ChecksHold, Replaced, TextIsLive, RecordsLast
<1>8. HasLatest'
  BY <1>3 DEF VersionInv, HasLatest
<1>9. Settled(s) => Settled(s)'
  <2>1. ~Unsettled(s)
    BY <1>1 DEF Unsettled
  <2>2. \A f \in Files : IsLive(f) => IsLive(f)' \/ (Unsettled(s) /\ Call(s).file = f)'
    BY <1>1, <1>3, <1>5 DEF IsLive, Unsettled
  <2>3. QED
    BY <2>1, <2>2 DEF Settled
<1>10. QED
  BY <1>1, <1>2, <1>6, <1>7, <1>8, <1>9, CallDecides

LEMMA WriteStays ==
  ASSUME VersionInv, GateTypeOK, NEW s \in Sessions, Write(s), Types', JobsRun', OneRuns'
  PROVE  VersionInv'
<1>1. SubstrateCall(s) /\ job[s].step = "write" /\ UNCHANGED history
  BY DEF Write, At, SubstrateCall
<1>2. /\ running' = running /\ UNCHANGED <<raced, died, wlock>>
      /\ \A t \in Sessions \ {s} : job'[t] = job[t] /\ running'[t] = running[t]
  BY <1>1, OwnCall DEF VersionInv, Write, gateVars, ownVars
<1>3. Call(s)' = Call(s) /\ \A f : Of(f)' = Of(f) /\ Latest(f)' = Latest(f)
  BY <1>1, <1>2, SameLatest DEF Call
<1>4. job[s] \in Job /\ Call(s).file \in Files
  BY <1>1, JobIsJob, CallTypes DEF VersionInv, JobsRun
<1>5. /\ job'[s].version = job[s].version /\ job'[s].stored = job[s].stored
      /\ job'[s].text = job[s].text /\ job'[s].found = job[s].found /\ job'[s].failed = job[s].failed
      /\ job'[s].step = "release" /\ live'[Call(s).file] = job[s].text
      /\ \A f \in Files : f # Call(s).file => live'[f] = live[f]
  BY <1>4 DEF Write, Goto, VersionInv, Types, Job
<1>6. OwnRecord(s)'
  BY <1>1, <1>5 DEF VersionInv, OwnRecord
<1>7. ~raced => Alone(s)'
  <2>1. ~raced => Replaced(s)
    BY DEF VersionInv, Alone
  <2>2. QED
    BY <1>1, <1>3, <1>5, <2>1 DEF Alone, ChecksHold, Replaced, TextIsLive, RecordsLast
<1>8. HasLatest'
  BY <1>3 DEF VersionInv, HasLatest
<1>9. Settled(s) => Settled(s)'
  <2>1. ~job[s].failed
    BY <1>1 DEF VersionInv, OwnRecord
  <2>2. Unsettled(s)'
    BY <1>5, <2>1 DEF Unsettled
  <2>3. \A f \in Files : f # Call(s).file => (IsLive(f) => IsLive(f)')
    BY <1>1, <1>3, <1>5 DEF IsLive
  <2>4. QED
    BY <1>3, <2>2, <2>3 DEF Settled
<1>10. QED
  BY <1>1, <1>2, <1>6, <1>7, <1>8, <1>9, CallDecides

\* A call that has opened its file gives the lease back and goes on to record it.
LEMMA ReleaseGoesOn ==
  ASSUME VersionInv, GateTypeOK, NEW s \in Sessions, Release(s), ~job[s].failed, [Next]_vars,
         Types', JobsRun', OneRuns'
  PROVE  VersionInv'
<1>1. /\ SubstrateCall(s) /\ job[s].step = "release" /\ UNCHANGED <<live, history>>
      /\ Goto(s, AfterRelease(s)) /\ running' = running
  BY DEF Release, At, SubstrateCall, gateVars
<1>2. Call(s)' = Call(s)
  BY <1>1 DEF Call
<1>3. job[s] \in Job
  BY JobIsJob DEF VersionInv
<1>4. /\ job'[s].version = job[s].version /\ job'[s].stored = job[s].stored
      /\ job'[s].text = job[s].text /\ job'[s].failed = job[s].failed
      /\ job'[s].step \in {"record", "reconcile"}
  BY <1>1, <1>3 DEF Goto, AfterRelease, VersionInv, Types, Job
<1>5. OwnRecord(s)'
  BY <1>1, <1>4 DEF VersionInv, OwnRecord
<1>6. ~raced => Alone(s)'
  <2>1. job[s].version = 0
    BY <1>1 DEF VersionInv, OwnRecord
  <2>2. ~raced => TextIsLive(s)
    BY DEF VersionInv, Alone
  <2>3. QED
    BY <1>1, <1>2, <1>4, <2>1, <2>2 DEF Alone, ChecksHold, Replaced, TextIsLive, RecordsLast
<1>7. Unsettled(s)'
  BY <1>4 DEF Unsettled
<1>8. ~GiveUp(s)
  BY <1>3, <1>4 DEF GiveUp, Ends, NoJob, VersionInv, Types
<1>9. QED
  BY <1>1, <1>5, <1>6, <1>7, <1>8, CallMoves

\* What is recorded is the file as it is read back.
LEMMA ReadbackStays ==
  ASSUME VersionInv, GateTypeOK, NEW s \in Sessions, Reconcile(s) \/ Readback(s), ~GiveUp(s),
         [Next]_vars, Types', JobsRun', OneRuns'
  PROVE  VersionInv'
<1>1. /\ SubstrateCall(s) /\ job[s].step \in {"reconcile", "readback"} /\ UNCHANGED <<live, history>>
      /\ running' = running
  BY DEF Reconcile, Readback, At, SubstrateCall, gateVars, fileVars
<1>2. Call(s)' = Call(s)
  BY <1>1 DEF Call
<1>3. job[s] \in Job
  BY JobIsJob DEF VersionInv
<1>4. /\ job'[s].version = job[s].version /\ job'[s].stored = job[s].stored
      /\ job'[s].failed = job[s].failed
      /\ \/ job'[s].step = "readback"
         \/ job'[s].step = "record" /\ job'[s].text = live[Call(s).file]
  BY <1>3 DEF Reconcile, Readback, Goto, VersionInv, Types, Job
<1>5. OwnRecord(s)'
  BY <1>1, <1>4 DEF VersionInv, OwnRecord
<1>6. ~raced => Alone(s)'
  <2>1. job[s].version = 0
    BY <1>1 DEF VersionInv, OwnRecord
  <2>2. QED
    BY <1>1, <1>2, <1>4, <2>1 DEF Alone, ChecksHold, Replaced, TextIsLive, RecordsLast
<1>7. Unsettled(s)'
  BY <1>4 DEF Unsettled
<1>8. ~(Release(s) /\ job[s].failed)
  BY <1>1 DEF Release, At
<1>9. QED
  BY <1>1, <1>5, <1>6, <1>7, <1>8, CallMoves

\* The last record of the history is the last version of its file, and no other file's.
LEMMA AppendedIsLatest ==
  ASSUME Types, HasLatest, NEW r \in Record, history' = Append(history, r)
  PROVE  /\ HasLatest'
         /\ Latest(r.file)' = Len(history) + 1 /\ Of(r.file)' # {}
         /\ history'[Len(history) + 1] = r
         /\ \A f \in Files \ {r.file} : IsLive(f) /\ live'[f] = live[f] => IsLive(f)'
<1> DEFINE n == Len(history) + 1
<1>1. /\ Len(history') = n /\ history'[n] = r /\ n \in Nat \ {0} /\ Len(history) \in Nat
      /\ \A v \in 1 .. Len(history) : history'[v] = history[v]
  BY DEF Types
<1>2. \A v : v \in 1 .. n <=> v \in 1 .. Len(history) \/ v = n
  BY <1>1
<1>3. Of(r.file)' = Of(r.file) \cup {n}
  BY <1>1, <1>2 DEF Of
<1>4. \A f : f # r.file => Of(f)' = Of(f)
  BY <1>1, <1>2 DEF Of
<1>5. \A f, v : v \in Of(f) => v \in 1 .. Len(history) /\ v < n
  BY <1>1 DEF Of
<1>6. Latest(r.file)' = n
  <2>1. \A w \in Of(r.file)' : w <= n
    BY <1>1, <1>3, <1>5
  <2>2. \A v, w \in Of(r.file)' : v <= w /\ w <= v => v = w
    BY <1>1, <1>3, <1>5
  <2>3. \A x \in Of(r.file)' : (\A w \in Of(r.file)' : w <= x) => x = n
    BY <1>3, <2>1, <2>2
  <2> HIDE DEF n
  <2>4. QED
    BY <1>3, <2>1, <2>3 DEF Latest
<1>7. \A f : f # r.file => Latest(f)' = Latest(f)
  <2> TAKE f
  <2> HAVE f # r.file
  <2> DEFINE L(S) == IF S = {} THEN 0 ELSE CHOOSE v \in S : \A w \in S : w <= v
  <2>1. Latest(f) = L(Of(f)) /\ Latest(f)' = L(Of(f)')
    BY DEF Latest
  <2> HIDE DEF L
  <2>2. QED
    BY <1>4, <2>1
<1>8. HasLatest'
  <2> SUFFICES ASSUME NEW f \in Files, Of(f)' # {}
               PROVE  Latest(f)' \in Of(f)' /\ \A v \in Of(f)' : v <= Latest(f)'
    BY DEF HasLatest
  <2>1. CASE f = r.file
    BY <1>1, <1>3, <1>5, <1>6, <2>1
  <2>2. CASE f # r.file
    BY <1>4, <1>7, <2>2 DEF HasLatest
  <2>3. QED
    BY <2>1, <2>2
<1>9. \A f \in Files \ {r.file} : IsLive(f) /\ live'[f] = live[f] => IsLive(f)'
  BY <1>1, <1>4, <1>5, <1>7 DEF IsLive, HasLatest
<1>10. QED
  BY <1>1, <1>3, <1>6, <1>8, <1>9

LEMMA RecordLineStays ==
  ASSUME VersionInv, GateTypeOK, NEW s \in Sessions, RecordLine(s), Types', JobsRun', OneRuns'
  PROVE  VersionInv'
<1>1. /\ job[s].step = "record" /\ UNCHANGED <<live, running>>
      /\ UNCHANGED <<raced, died, wlock>> /\ SubstrateCall(s)
  BY DEF RecordLine, At, gateVars, ownVars, SubstrateCall
<1>2. Call(s)' = Call(s) /\ \A t \in Sessions \ {s} : job'[t] = job[t] /\ running'[t] = running[t]
  BY <1>1, OwnCall DEF VersionInv, Call
<1>3. job[s] \in Job /\ Call(s).file \in Files
  BY <1>1, JobIsJob, CallTypes DEF VersionInv, JobsRun
<1>4. PICK r \in Record : /\ history' = Append(history, r)
                        /\ r.file = Call(s).file /\ r.hash = job[s].text /\ r.content = job[s].stored
  BY <1>3 DEF Record, Job, RecordLine
<1>5. /\ job'[s].version = Len(history) + 1 /\ job'[s].stored = job[s].stored
      /\ job'[s].text = job[s].text /\ job'[s].failed = job[s].failed /\ job'[s].step = "record"
  BY <1>1, <1>3 DEF RecordLine, VersionInv, Types, Job
<1>6. /\ HasLatest' /\ Latest(r.file)' = Len(history) + 1 /\ Of(r.file)' # {}
      /\ history'[Len(history) + 1] = r
      /\ \A f \in Files \ {r.file} : IsLive(f) /\ live'[f] = live[f] => IsLive(f)'
  BY <1>1, <1>4, AppendedIsLatest DEF VersionInv
<1>7. OwnRecord(s)'
  BY <1>1, <1>5 DEF VersionInv, OwnRecord
<1>8. ~raced => Alone(s)'
  <2>1. ~raced => TextIsLive(s)
    BY DEF VersionInv, Alone
  <2>2. RecordsLast(s)'
    BY <1>2, <1>4, <1>5, <1>6 DEF RecordsLast
  <2>3. QED
    BY <1>1, <1>2, <1>5, <2>1, <2>2 DEF Alone, ChecksHold, Replaced, TextIsLive
<1>9. Settled(s) => Settled(s)'
  BY <1>1, <1>2, <1>4, <1>5, <1>6 DEF Settled, Unsettled
<1>10. QED
  BY <1>1, <1>2, <1>6, <1>7, <1>8, <1>9, CallDecides

\* Writing a version's content changes no file's versions.
LEMMA ContentKeepsVersions ==
  ASSUME Types, HasLatest, UNCHANGED live, NEW v, NEW text, v # 0,
         history' = [history EXCEPT ![v].content = text]
  PROVE  /\ HasLatest' /\ \A f : Of(f)' = Of(f) /\ Latest(f)' = Latest(f)
         /\ v \in DOMAIN history => history'[v].hash = history[v].hash /\ history'[v].content = text
         /\ \A f \in Files : v \notin Of(f) /\ IsLive(f) => IsLive(f)'
<1>1. /\ history \in Seq(Record) /\ DOMAIN history = 1 .. Len(history) /\ Len(history') = Len(history)
      /\ DOMAIN history' = DOMAIN history
      /\ \A w \in DOMAIN history : w # v => history'[w] = history[w]
  BY DEF Types
<1>2. v \in DOMAIN history => /\ history'[v].hash = history[v].hash /\ history'[v].content = text
                              /\ history'[v].file = history[v].file
  <2> SUFFICES ASSUME v \in DOMAIN history
               PROVE  /\ history'[v].hash = history[v].hash /\ history'[v].content = text
                      /\ history'[v].file = history[v].file
    OBVIOUS
  <2>1. history[v] \in Record /\ history'[v] = [history[v] EXCEPT !.content = text]
    BY <1>1
  <2>2. QED
    BY <2>1 DEF Record
<1>3. \A f : Of(f)' = Of(f)
  BY <1>1, <1>2 DEF Of
<1>4. \A f : Latest(f)' = Latest(f)
  <2> TAKE f
  <2> DEFINE L(S) == IF S = {} THEN 0 ELSE CHOOSE w \in S : \A x \in S : x <= w
  <2>1. Latest(f) = L(Of(f)) /\ Latest(f)' = L(Of(f)')
    BY DEF Latest
  <2> HIDE DEF L
  <2>2. QED
    BY <1>3, <2>1
<1>5. HasLatest'
  BY <1>3, <1>4 DEF HasLatest
<1>6. \A f \in Files : v \notin Of(f) /\ IsLive(f) => IsLive(f)'
  <2> SUFFICES ASSUME NEW f \in Files, v \notin Of(f), IsLive(f), Of(f) # {} PROVE IsLive(f)'
    BY <1>3 DEF IsLive
  <2>1. Latest(f) \in Of(f) /\ Latest(f) # v
    BY DEF HasLatest
  <2>2. history'[Latest(f)] = history[Latest(f)]
    BY <1>1, <2>1 DEF Of
  <2>3. QED
    BY <1>4, <2>2 DEF IsLive
<1>7. QED
  BY <1>2, <1>3, <1>4, <1>5, <1>6

LEMMA RecordContentStays ==
  ASSUME VersionInv, GateTypeOK, NEW s \in Sessions, RecordContent(s), Types', JobsRun', OneRuns'
  PROVE  VersionInv'
<1>1. /\ job[s].step = "record" /\ UNCHANGED <<live, running>>
      /\ UNCHANGED <<raced, died, wlock>> /\ SubstrateCall(s)
  BY DEF RecordContent, At, gateVars, ownVars, SubstrateCall
<1>2. Call(s)' = Call(s) /\ \A t \in Sessions \ {s} : job'[t] = job[t] /\ running'[t] = running[t]
  BY <1>1, OwnCall DEF VersionInv, Call
<1>3. job[s] \in Job /\ Call(s).file \in Files
  BY <1>1, JobIsJob, CallTypes DEF VersionInv, JobsRun
<1>4. /\ job'[s].version = job[s].version /\ job'[s].stored = job[s].text
      /\ job'[s].text = job[s].text /\ job'[s].failed = job[s].failed /\ job'[s].step = "record"
  BY <1>1, <1>3 DEF RecordContent, VersionInv, Types, Job
<1>5. OwnRecord(s)'
  BY <1>1, <1>4 DEF VersionInv, OwnRecord
<1>6. ~raced => TextIsLive(s)'
  <2>1. ~raced => TextIsLive(s)
    BY DEF VersionInv, Alone
  <2>2. QED
    BY <1>1, <1>2, <1>4, <2>1 DEF TextIsLive
<1>7. Unsettled(s)'
  BY <1>4 DEF Unsettled
<1>8. CASE job[s].version = 0
  <2>1. UNCHANGED history
    BY <1>8 DEF RecordContent
  <2>2. ~raced => Alone(s)'
    BY <1>4, <1>6, <1>8 DEF Alone, ChecksHold, Replaced, RecordsLast
  <2>3. HasLatest' /\ (Settled(s) => Settled(s)')
    BY <1>1, <1>2, <1>7, <2>1, NothingWritten DEF Settled, VersionInv
  <2>4. QED
    BY <1>1, <1>2, <1>5, <2>2, <2>3, CallDecides
<1>9. CASE job[s].version # 0
  <2> DEFINE v == job[s].version
  <2>1. history' = [history EXCEPT ![v].content = job[s].text]
    BY <1>9 DEF RecordContent
  <2>2. /\ HasLatest' /\ \A f : Of(f)' = Of(f) /\ Latest(f)' = Latest(f)
        /\ v \in DOMAIN history => /\ history'[v].hash = history[v].hash
                                   /\ history'[v].content = job[s].text
        /\ \A f \in Files : v \notin Of(f) /\ IsLive(f) => IsLive(f)'
    BY <1>1, <1>9, <2>1, ContentKeepsVersions DEF VersionInv
  <2>3. ~raced => v \in Of(Call(s).file) /\ RecordsLast(s)
    <3>1. ~raced => RecordsLast(s)
      BY DEF VersionInv, Alone
    <3>2. QED
      BY <1>1, <1>3, <1>9, <3>1 DEF RecordsLast, VersionInv, HasLatest
  <2>4. \A f : v \in Of(Call(s).file) /\ v \in Of(f) => f = Call(s).file
    BY DEF Of
  <2>5. v \in Of(Call(s).file) => v \in DOMAIN history
    BY DEF Of, VersionInv, Types
  <2>6. ~raced => Alone(s)'
    BY <1>1, <1>2, <1>4, <1>6, <1>9, <2>2, <2>3, <2>5 DEF Alone, ChecksHold, Replaced, RecordsLast
  <2>7. ~raced /\ Settled(s) => Settled(s)'
    BY <1>2, <1>7, <2>2, <2>3, <2>4 DEF Settled
  <2>8. QED
    BY <1>1, <1>2, <1>5, <2>2, <2>6, <2>7, CallDecides
<1>10. QED
  BY <1>8, <1>9

\* A call that ends has changed nothing, has recorded what it changed, or finds its
\* workspace's lease where a death left it.
LEMMA EndStays ==
  ASSUME VersionInv, GateTypeOK, NEW s \in Sessions, SubstrateCall(s), Ends(s),
         ~Unsettled(s) \/ (Reconcile(s) /\ wlock[s]) \/ (job[s].step = "record" /\ RecordDone(s)),
         UNCHANGED <<live, history, raced, died, wlock>>, Types', JobsRun', OneRuns'
  PROVE  VersionInv'
<1>1. job'[s] = NoJob /\ \A t \in Sessions \ {s} : job'[t] = job[t] /\ running'[t] = running[t]
  BY CallEnds, OwnCall DEF VersionInv
<1>2. job[s].step # "none"
  BY DEF Ends, Returned, VersionInv, JobsRun
<1>3. OwnRecord(s)' /\ Alone(s)' /\ HasLatest'
  BY <1>1, NothingWritten
  DEF NoJob, OwnRecord, Alone, ChecksHold, Replaced, TextIsLive, RecordsLast, VersionInv
<1>4. ~raced /\ ~died /\ Settled(s) => Settled(s)'
  <2> SUFFICES ASSUME ~raced, ~died, Settled(s), NEW f \in Files PROVE IsLive(f)
    BY NothingWritten DEF Settled
  <2>1. CASE ~Unsettled(s)
    BY <2>1 DEF Settled
  <2>2. CASE job[s].step = "record" /\ RecordDone(s)
    <3>1. /\ OwnRecord(s) /\ RecordsLast(s) /\ TextIsLive(s)
      BY DEF VersionInv, Alone
    <3>2. IsLive(Call(s).file)
      BY <2>2, <3>1 DEF OwnRecord, RecordsLast, TextIsLive, RecordDone, IsLive
    <3>3. QED
      BY <3>2 DEF Settled
  <2>3. CASE Reconcile(s) /\ wlock[s]
    BY <2>3 DEF VersionInv, WorkspacesFree
  <2>4. QED
    BY <2>1, <2>2, <2>3
<1>5. QED
  BY <1>1, <1>2, <1>3, <1>4, CallDecides

\* A session that is at the beginning of a call, or in none, disturbs no version.
LEMMA BeginStays ==
  ASSUME VersionInv, NEW s \in Sessions, UNCHANGED <<live, history>>,
         \A t \in Sessions \ {s} : job'[t] = job[t] /\ running'[t] = running[t],
         job'[s].step \in {"none", "read", "version"}, job'[s].version = 0, job'[s].stored = NoFile,
         ~job'[s].failed, raced => raced', died => died', ~died' => wlock' = wlock,
         ~Unsettled(s) \/ died', Types', JobsRun', OneRuns'
  PROVE  VersionInv'
<1>1. \A f : Latest(f)' = Latest(f) /\ Of(f)' = Of(f)
  BY NothingWritten
<1>2. \A t \in Sessions \ {s} : OwnRecord(t)' /\ (~raced' => Alone(t)')
  <2> SUFFICES ASSUME NEW t \in Sessions \ {s} PROVE OwnRecord(t)' /\ (~raced' => Alone(t)')
    OBVIOUS
  <2>1. OwnRecord(t) /\ (~raced => Alone(t))
    BY DEF VersionInv
  <2>2. Call(t)' = Call(t)
    BY DEF Call
  <2>3. QED
    BY <1>1, <2>1, <2>2 DEF OwnRecord, Alone, ChecksHold, Replaced, TextIsLive, RecordsLast
<1>3. OwnRecord(s)' /\ Alone(s)'
  BY DEF OwnRecord, Alone, ChecksHold, Replaced, TextIsLive, RecordsLast
<1>4. HasLatest' /\ WorkspacesFree'
  BY NothingWritten DEF VersionInv, WorkspacesFree
<1>5. AllLive'
  <2> SUFFICES ASSUME ~raced', ~died', NEW f \in Files
               PROVE  IsLive(f)' \/ \E t \in Sessions : (Unsettled(t) /\ Call(t).file = f)'
    BY DEF AllLive
  <2>1. IsLive(f) \/ \E t \in Sessions \ {s} : Unsettled(t) /\ Call(t).file = f
    BY DEF VersionInv, AllLive
  <2>2. \A t \in Sessions \ {s} : Unsettled(t) => (Unsettled(t) /\ Call(t).file = Call(t).file)'
    BY DEF Unsettled
  <2>3. \A t \in Sessions \ {s} : Call(t)' = Call(t)
    BY DEF Call
  <2>4. QED
    BY <2>1, <2>2, <2>3, NothingWritten
<1>6. QED
  BY <1>2, <1>3, <1>4, <1>5 DEF VersionInv

LEMMA VersionsStay ==
  ASSUME VersionInv, GateTypeOK, [Next]_vars PROVE VersionInv'
<1>1. Types' /\ JobsRun' /\ OneRuns'
  BY TypesStay, RunsStay DEF VersionInv
<1>2. ASSUME NEW s \in Sessions, SubstrateCall(s) PROVE VersionInv'
  <2>1. CASE GiveUp(s) /\ ~Recorded(s) /\ ~Release(s)
    <3>1. running' # running
      <4>1. running[s] # None /\ running'[s] = None
        BY <2>1, CallEnds DEF GiveUp, Ends, Returned, VersionInv
      <4>2. QED
        BY <4>1
    <3>2. ReadVersion(s) \/ CheckVersion(s) \/ CheckContent(s) \/ Lease(s) \/ (Reconcile(s) /\ wlock[s])
      BY <1>2, <2>1, <3>1 DEF SubstrateCall, Open, Write, Reconcile, Readback, RecordLine, RecordContent, gateVars
    <3>3. ~Unsettled(s) \/ (Reconcile(s) /\ wlock[s])
      BY <3>2 DEF ReadVersion, CheckVersion, CheckContent, Lease, At, Unsettled
    <3>4. QED
      BY <1>1, <1>2, <2>1, <3>3, EndStays DEF GiveUp, fileVars, ownVars
  <2>2. CASE Recorded(s)
    BY <1>1, <1>2, <2>2, EndStays DEF Recorded, At, GiveUp, fileVars, ownVars
  <2>3. CASE Release(s) /\ job[s].failed
    <3>1. ~Unsettled(s)
      BY <2>3 DEF Unsettled, Release, At
    <3>2. QED
      BY <1>1, <1>2, <2>3, <3>1, EndStays DEF Release, ownVars
  <2>4. CASE Release(s) /\ ~job[s].failed
    BY <1>1, <2>4, ReleaseGoesOn
  <2>5. CASE ~GiveUp(s) /\ ~Release(s)
    BY <1>1, <1>2, <2>5, ChecksStay, OpenStays, WriteStays, ReadbackStays, RecordLineStays,
       RecordContentStays
    DEF SubstrateCall, Recorded
  <2>6. QED
    BY <2>1, <2>2, <2>3, <2>4, <2>5
<1>3. ASSUME NEW s \in Sessions, Crash(s) PROVE VersionInv'
  <2>1. /\ job'[s] = NoJob /\ UNCHANGED <<live, history, raced>> /\ (died => died')
        /\ ~died' => wlock' = wlock /\ job[s].step = "none"
    BY <1>3 DEF Crash, At, fileVars, VersionInv, Types
  <2>2. \A t \in Sessions \ {s} : job'[t] = job[t] /\ running'[t] = running[t]
    BY <1>3, OwnCall DEF VersionInv
  <2>3. job[s].step = "none" => ~Unsettled(s)
    BY DEF Unsettled
  <2>4. QED
    BY <1>1, <2>1, <2>2, <2>3, BeginStays DEF NoJob
<1>4. ASSUME NEW s \in Sessions, NEW c \in Asked(s) \cap Calls, ToGate(s, c) PROVE VersionInv'
  <2>1. \A t \in Sessions \ {s} : job'[t] = job[t] /\ running'[t] = running[t]
    BY <1>4, OwnCall DEF VersionInv
  <2>2. UNCHANGED <<live, history, wlock, died>> /\ job[s].step = "none"
    BY <1>4 DEF ToGate, At, fileVars, ownVars
  <2>3. ~Unsettled(s)
    BY <2>2 DEF Unsettled
  <2>4. CASE PassBegins(s, c)
    <3>1. /\ job'[s].step \in {"read", "version"} /\ job'[s].version = 0 /\ job'[s].stored = NoFile
          /\ ~job'[s].failed
      BY <2>4 DEF PassBegins, NoJob, VersionInv, Types
    <3>2. raced => raced'
      BY <2>4 DEF PassBegins
    <3>3. QED
      BY <1>1, <2>1, <2>2, <2>3, <3>1, <3>2, BeginStays
  <2>5. CASE UNCHANGED <<job, raced>>
    <3>1. /\ job'[s].step = "none" /\ job'[s].version = 0 /\ job'[s].stored = NoFile /\ ~job'[s].failed
      BY <2>2, <2>5 DEF VersionInv, OwnRecord
    <3>2. QED
      BY <1>1, <2>1, <2>2, <2>3, <2>5, <3>1, BeginStays
  <2>6. QED
    BY <1>4, <2>4, <2>5 DEF ToGate, PassBegins
<1>5. ASSUME UNCHANGED <<live, history, wlock, job, raced, died, running>> PROVE VersionInv'
  <2>1. \A f : Latest(f)' = Latest(f) /\ Of(f)' = Of(f) /\ (IsLive(f) => IsLive(f)')
    BY <1>5, NothingWritten
  <2>2. HasLatest'
    BY <1>5, NothingWritten DEF VersionInv
  <2>3. \A s : Call(s)' = Call(s)
    BY <1>5 DEF Call
  <2>4. \A s \in Sessions : OwnRecord(s)' /\ (~raced' => Alone(s)')
    BY <1>5, <2>1, <2>3 DEF VersionInv, OwnRecord, Alone, ChecksHold, Replaced, TextIsLive, RecordsLast
  <2>5. AllLive' /\ WorkspacesFree'
    BY <1>5, <2>1, <2>3 DEF VersionInv, AllLive, Unsettled, WorkspacesFree
  <2>6. QED
    BY <1>1, <2>2, <2>4, <2>5 DEF VersionInv
<1>6. ASSUME NEW s \in Sessions, Turns(s) PROVE VersionInv'
  BY <1>5, <1>6 DEF Turns, fileVars, ownVars, Answer, BeginTurn, Reply, Fail
<1>7. ASSUME NEW s \in Sessions, NEW f, NEW x, Edit(s, f, x) \/ Stage(s, f, x) PROVE VersionInv'
  BY <1>5, <1>7 DEF Edit, Stage, gateVars, fileVars
<1>8. CASE UNCHANGED vars
  BY <1>5, <1>8 DEF vars, gateVars, fileVars, ownVars
<1>9. QED
  BY <1>2, <1>3, <1>4, <1>6, <1>7, <1>8 DEF Next

\* What the calls have found, replaced and recorded, in every reachable state.
LEMMA VersionIsInvariant == Spec => []VersionInv
<1>1. Init => VersionInv
  <2> SUFFICES ASSUME Init PROVE VersionInv
    OBVIOUS
  <2>1. \A s \in Sessions : job[s] = NoJob /\ running[s] = None /\ ~wlock[s]
    BY DEF Init, GateInit
  <2>2. \A f : Of(f) = {}
    BY DEF Init, Of
  <2>3. JobsRun /\ OneRuns /\ HasLatest /\ AllLive /\ WorkspacesFree
    BY <2>1, <2>2 DEF NoJob, JobsRun, OneRuns, HasLatest, AllLive, IsLive, WorkspacesFree
  <2>4. \A s \in Sessions : OwnRecord(s) /\ Alone(s)
    BY <2>1 DEF NoJob, OwnRecord, Alone, ChecksHold, Replaced, TextIsLive, RecordsLast
  <2>5. QED
    BY <2>3, <2>4, TypesInitially DEF VersionInv
<1>2. QED
  BY <1>1, VersionsStay, SubstrateUsesGate, GateIsInvariant, PTL DEF Spec, GateInv

\* As long as no confirmed calls overlap, a promotion or a restore replaces exactly the
\* content and the version it was to replace, or any if it was not told: between the
\* checks and the truncating open nothing else writes, however late the user confirms
\* (promoteSessionArtifactToSubstrate, assertExpectedSubstrateVersion).
THEOREM ExpectedIsReplaced == Spec => []ExpectedReplaced
<1>1. VersionInv => ExpectedReplaced
  BY DEF VersionInv, Alone, Replaced, ExpectedReplaced
<1>2. QED
  BY <1>1, VersionIsInvariant, PTL

\* With no call under way, no overlap and no death ever, the last version of each file is
\* what the file is, and its content can be read back (recordPromotion, reconcile and
\* the order of the steps of a promotion).
THEOREM LastVersionIsLive == Spec => []LatestIsLive
<1>1. VersionInv => LatestIsLive
  <2> SUFFICES ASSUME VersionInv, Running = {}, ~raced, ~died, NEW f \in Files PROVE IsLive(f)
    BY DEF LatestIsLive, IsLive
  <2>1. \A s \in Sessions : job[s].step = "none"
    BY DEF VersionInv, JobsRun, Running
  <2>2. QED
    BY <2>1 DEF VersionInv, AllLive, Unsettled
<1>2. QED
  BY <1>1, VersionIsInvariant, PTL

=============================================================================
