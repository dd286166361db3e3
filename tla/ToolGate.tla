------------------------------ MODULE ToolGate ------------------------------
(***************************************************************************)
(* The confirmation gate of the managed tools                              *)
(* (createLoggedManagedTool, src/src/agents/tools/managed-runtime-tools.ts)*)
(* and the part of a turn and of the session that it uses: a tool that     *)
(* always asks ends the turn with a request, the user answers, and a later *)
(* turn runs it.  Tool calls of a turn are made one after the other, and a *)
(* session has one turn at a time (its wake lease).                        *)
(*                                                                         *)
(* A request's id is its place in asked.  The session's record and journal *)
(* are written in one step here; SessionStore has their writes.            *)
(***************************************************************************)
EXTENDS Naturals, Sequences, FiniteSets

CONSTANTS
  Sessions,
  Calls,        \* calls of tools that always ask: records with a field tool
  None,
  MaxRequests   \* bound on the requests made

ASSUME GateAssumption ==
  /\ None \notin Calls \cup Nat \cup [id : Nat, call : Calls]
  /\ \A c \in Calls : "tool" \in DOMAIN c
  /\ MaxRequests \in Nat

VARIABLES
  asked,      \* the requests made so far, of all sessions: what would be run
  request,    \* the session's pendingToolConfirmationRequest
  answers,    \* its pending user.tool_confirmation events
  turn,       \* the turn it is in: the request and the events it began with
  running,    \* the call that passed the gate and runs now
  allowed,    \* history: requests the user allowed
  denied,     \* history: requests the user denied
  withdrawn   \* history: requests cleared by a user.interrupt

gateVars == <<asked, request, answers, turn, running, allowed, denied, withdrawn>>

Ids == 1 .. Len(asked)
Answers == [id : Nat \ {0}, ok : BOOLEAN]

GateInit ==
  /\ asked = <<>>
  /\ request = [s \in Sessions |-> None] /\ answers = [s \in Sessions |-> {}]
  /\ turn = [s \in Sessions |-> None] /\ running = [s \in Sessions |-> None]
  /\ allowed = {} /\ denied = {} /\ withdrawn = {}

\* emitEvent of a user.tool_confirmation: for the current request, once
Answer(s, ok) ==
  /\ request[s] # None /\ request[s] \notin allowed \cup denied
  /\ answers' = [answers EXCEPT ![s] = @ \cup {[id |-> request[s], ok |-> ok]}]
  /\ allowed' = IF ok THEN allowed \cup {request[s]} ELSE allowed
  /\ denied'  = IF ok THEN denied ELSE denied \cup {request[s]}
  /\ UNCHANGED <<asked, request, turn, running, withdrawn>>

\* MUTANT of TurnRequest: the tools are built from the session as it was read
TurnRequestAsRead(s, interrupted) == request[s]

\* the request the tools of a turn are built with: none when a user.interrupt
\* is pending, for clearInterruptedSessionState comes first
TurnRequest(s, interrupted) == IF interrupted THEN None ELSE request[s]

BeginTurn(s, interrupted) ==
  /\ turn[s] = None
  /\ turn' = [turn EXCEPT ![s] = [request |-> TurnRequest(s, interrupted), seen |-> answers[s]]]
  /\ request' = [request EXCEPT ![s] = IF interrupted THEN None ELSE @]
  /\ withdrawn' = IF interrupted THEN withdrawn \cup ({request[s]} \ {None}) ELSE withdrawn
  /\ UNCHANGED <<asked, answers, running, allowed, denied>>

\* resolvePendingToolConfirmationDecision
Decision(s) == {a \in turn[s].seen : a.id = turn[s].request}

\* a pending request of the tool that is called
SameTool(s, c) == turn[s].request # None /\ asked[turn[s].request].tool = c.tool

\* MUTANT of EffectiveArgs: the call's own arguments
EffectiveArgs_Given(s, c) == c

\* what runs is the request's input, whatever the call says
EffectiveArgs(s, c) == asked[turn[s].request]

CanCall(s) == turn[s] # None /\ running[s] = None

\* an allowed call runs
Pass(s, c) ==
  /\ CanCall(s) /\ SameTool(s, c)
  /\ \E a \in Decision(s) : a.ok
  /\ running' = [running EXCEPT ![s] = [id |-> turn[s].request, call |-> EffectiveArgs(s, c)]]
  /\ UNCHANGED <<asked, request, answers, turn, allowed, denied, withdrawn>>

\* a denied one is an error the model reads: the turn goes on
Refuse(s, c) ==
  /\ CanCall(s) /\ SameTool(s, c)
  /\ \E a \in Decision(s) : ~a.ok
  /\ UNCHANGED gateVars

\* one without an answer ends the turn, with the tool's pending request or a new one
Interruption(s, c) ==
  /\ CanCall(s)
  /\ ~SameTool(s, c) \/ Decision(s) = {}
  /\ IF SameTool(s, c)
       THEN asked' = asked /\ request' = [request EXCEPT ![s] = turn[s].request]
       ELSE /\ Len(asked) < MaxRequests
            /\ asked' = Append(asked, c)
            /\ request' = [request EXCEPT ![s] = Len(asked) + 1]
  /\ answers' = [answers EXCEPT ![s] = @ \ turn[s].seen]
  /\ turn' = [turn EXCEPT ![s] = None]
  /\ UNCHANGED <<running, allowed, denied, withdrawn>>

\* the tool returns or throws
Returned(s) ==
  /\ running[s] # None
  /\ running' = [running EXCEPT ![s] = None]
  /\ UNCHANGED <<asked, request, answers, turn, allowed, denied, withdrawn>>

\* the turn ends with a reply: its events are processed, an answered request is over
Reply(s) ==
  /\ CanCall(s)
  /\ answers' = [answers EXCEPT ![s] = @ \ turn[s].seen]
  /\ request' = [request EXCEPT ![s] = IF Decision(s) = {} THEN @ ELSE None]
  /\ turn' = [turn EXCEPT ![s] = None]
  /\ UNCHANGED <<asked, running, allowed, denied, withdrawn>>

\* the turn fails between calls: its events stay pending
Fail(s) ==
  /\ CanCall(s)
  /\ turn' = [turn EXCEPT ![s] = None]
  /\ UNCHANGED <<asked, request, answers, running, allowed, denied, withdrawn>>

\* the process dies in the turn
Die(s) ==
  /\ turn[s] # None
  /\ turn' = [turn EXCEPT ![s] = None]
  /\ running' = [running EXCEPT ![s] = None]
  /\ UNCHANGED <<asked, request, answers, allowed, denied, withdrawn>>

GateStep(s) ==
  \/ \E ok \in BOOLEAN : Answer(s, ok)
  \/ \E interrupted \in BOOLEAN : BeginTurn(s, interrupted)
  \/ \E c \in Calls : Pass(s, c) \/ Refuse(s, c) \/ Interruption(s, c)
  \/ Returned(s) \/ Reply(s) \/ Fail(s) \/ Die(s)

GateNext == \E s \in Sessions : GateStep(s)
GateSpec == GateInit /\ [][GateNext]_gateVars

-----------------------------------------------------------------------------
GateTypeOK ==
  /\ asked \in Seq(Calls)
  /\ request \in [Sessions -> Ids \cup {None}]
  /\ answers \in [Sessions -> SUBSET Answers]
  /\ turn \in [Sessions -> {None} \cup [request : Ids \cup {None}, seen : SUBSET Answers]]
  /\ running \in [Sessions -> {None} \cup [id : Ids, call : Calls]]
  /\ allowed \subseteq Ids /\ denied \subseteq Ids /\ withdrawn \subseteq Ids

\* What runs behind the gate is exactly what a request said, the user allowed
\* that request and did not deny it, whatever the model passed in the turn that
\* runs it and however many turns failed in between (createLoggedManagedTool).
ConfirmedOnly ==
  \A s \in Sessions : running[s] # None =>
    /\ running[s].id \in allowed \ denied
    /\ running[s].call = asked[running[s].id]

\* A request cleared by a user.interrupt never runs in a later turn, not even
\* when its answer arrives with the interrupt (clearInterruptedSessionState).
WithdrawnStays ==
  \A s \in Sessions : running[s] # None => running[s].id \notin withdrawn
=============================================================================
