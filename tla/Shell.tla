------------------------------- MODULE Shell --------------------------------
(***************************************************************************)
(* The persistent shell of a session: the shell tools of one session and   *)
(* the writes that compete with them for its workspace                     *)
(* (LocalSandbox, src/src/agents/sandbox/sandbox.ts).  A model may make    *)
(* several tool calls at once, and a call that its turn has given up goes  *)
(* on: calls overlap.                                                      *)
(*                                                                         *)
(* A call is interleaved at its awaits.  A shell's exit and its "close"    *)
(* event are one step, and so are the end of a command and the reading of  *)
(* its markers; a command whose output is cut off before its markers is    *)
(* one that does not end.  What a command prints, and the directory and    *)
(* the environment it leaves, are not modelled.                            *)
(***************************************************************************)
EXTENDS Naturals, Sequences

CONSTANTS
  Calls,    \* each is made once
  Ops,      \* what each may be, of AllOps
  None

\* shell_exec, shell_open and shell_restart, shell_close, shell_wait; write_text and
\* the other tools that write files
AllOps == [name : {"exec", "open"}, restart : BOOLEAN] \cup
          [name : {"close", "wait", "write"}, restart : {FALSE}]

ASSUME ShellAssumption == None \notin Calls /\ Ops \in [Calls -> SUBSET AllOps]

VARIABLES
  shells,   \* the handles in the order they were opened
  current,  \* the session's entry of persistentShells, 0 if there is none
  lock,     \* the call that made the lock file of the workspace
  call,     \* where each call is
  overlap   \* history: a shell was asked for while another call was restarting it

vars == <<shells, current, lock, call, overlap>>

\* a call that has not begun; pc "over" with its answer
Idle == [op |-> None, pc |-> "new", shell |-> 0, wants |-> None, answer |-> "none"]

Init ==
  /\ shells = <<>> /\ current = 0 /\ lock = None
  /\ call = [c \in Calls |-> Idle] /\ overlap = FALSE

Goto(c, pc) == call' = [call EXCEPT ![c].pc = pc]
Answer(c, a) == call' = [call EXCEPT ![c].pc = "over", ![c].answer = a]

\* the beginning of a call, and where it has got by its first await
Begins(c, op, name) == call[c] = Idle /\ op.name \in name
Enters(c, op, pc, i) == call' = [call EXCEPT ![c].op = op, ![c].pc = pc, ![c].shell = i]
AnswerAtOnce(c, op, a) ==
  call' = [call EXCEPT ![c].op = op, ![c].pc = "over", ![c].answer = a]

On(c) == shells[call[c].shell]
Is(c, name, pc) == call[c].pc = pc /\ call[c].op.name = name

Fresh == [active |-> TRUE, up |-> TRUE, running |-> None, queue |-> <<>>, latest |-> None]

-----------------------------------------------------------------------------
(* Opening and closing *)

\* the new process is the session's shell, whatever was before
Spawn(c, op) ==
  /\ shells' = Append(shells, Fresh) /\ current' = Len(shells) + 1
  /\ Enters(c, op, "opened", Len(shells) + 1)

\* closePersistentShellHandle: SIGTERM, and then waiting for the end or 250 ms.  The
\* SIGKILL after that is never sent, for the process counts as killed already
CloseHandle(c, op) ==
  /\ shells' = [shells EXCEPT ![current].active = FALSE, ![current].running = None,
                              ![current].latest = None]
  /\ Enters(c, op, "closing", 0)
  /\ UNCHANGED current

\* openPersistentShell, up to its first await
Open(c, op) ==
  /\ Begins(c, op, {"exec", "open"})
  /\ IF current # 0 /\ op.restart THEN CloseHandle(c, op)
     ELSE IF current # 0 /\ shells[current].active
       THEN Enters(c, op, "opened", current) /\ UNCHANGED <<shells, current>>
       ELSE Spawn(c, op)
  /\ overlap' = (overlap \/ \E d \in Calls : call[d].pc = "closing" /\ call[d].op.restart)
  /\ UNCHANGED lock

Reopen(c) ==
  /\ call[c].pc = "closing" /\ call[c].op.restart
  /\ Spawn(c, call[c].op)
  /\ UNCHANGED <<lock, overlap>>

Close(c, op) ==
  /\ Begins(c, op, {"close"})
  /\ IF current = 0 THEN AnswerAtOnce(c, op, "idle") /\ UNCHANGED <<shells, current>>
                    ELSE CloseHandle(c, op)
  /\ UNCHANGED <<lock, overlap>>

CloseOver(c) ==
  /\ Is(c, "close", "closing") /\ Answer(c, "done")
  /\ UNCHANGED <<shells, current, lock, overlap>>

OpenOver(c) ==
  /\ Is(c, "open", "opened") /\ Answer(c, "done")
  /\ UNCHANGED <<shells, current, lock, overlap>>

-----------------------------------------------------------------------------
(* One command: execPersistentShell *)

\* MUTANT of Latest: the first execution is kept, nothing ever resets it
LatestFirst(c) == IF On(c).latest = None THEN c ELSE On(c).latest

\* handle.currentExecution; the finally that would reset it compares another promise
Latest(c) == c

\* the command waits for those before it, in the shell it has asked for
Enqueue(c) ==
  /\ Is(c, "exec", "opened")
  /\ IF call[c].shell = current /\ On(c).active
       THEN /\ shells' = [shells EXCEPT ![current].queue = Append(@, c),
                                        ![current].latest = Latest(c)]
            /\ Goto(c, "queued")
       ELSE Answer(c, "unavailable") /\ UNCHANGED shells
  /\ UNCHANGED <<current, lock, overlap>>

\* MUTANT of Turn: nobody waits for the commands before
TurnAny(c) == TRUE

\* handle.queue: all before it have settled, however they ended
Turn(c) == Head(On(c).queue) = c

\* the command whose turn it is has settled
Settled(c) == [shells EXCEPT ![call[c].shell].queue = Tail(@)]

\* withWriteLease: the lock file is made, or the workspace is busy
TakeLease(c) ==
  /\ Is(c, "exec", "queued") /\ Turn(c)
  /\ IF lock = None THEN lock' = c /\ Goto(c, "leased") /\ UNCHANGED shells
                    ELSE Answer(c, "busy") /\ shells' = Settled(c) /\ UNCHANGED lock
  /\ UNCHANGED <<current, overlap>>

\* over under the lease, with this answer
Settle(c, a) == call' = [call EXCEPT ![c].pc = "release", ![c].answer = a]

\* executePersistentShellCommand, up to the write to the shell's input
RunCommand(c) ==
  /\ call[c].pc = "leased"
  /\ IF On(c).active
       THEN shells' = [shells EXCEPT ![call[c].shell].running = c] /\ Goto(c, "running")
       ELSE Settle(c, "inactive") /\ UNCHANGED shells
  /\ UNCHANGED <<current, lock, overlap>>

\* finalizeIfReady
CommandEnds(c) ==
  /\ call[c].pc = "running" /\ On(c).up
  /\ shells' = [shells EXCEPT ![call[c].shell].running = None]
  /\ Settle(c, "done")
  /\ UNCHANGED <<current, lock, overlap>>

\* MUTANT of TimesOut: the timer is for shells in use
TimesOutActive(c) == call[c].pc = "running" /\ On(c).active

TimesOut(c) == call[c].pc = "running"

\* the timer closes the shell, too, and signals it
CommandTimer(c) ==
  /\ TimesOut(c)
  /\ shells' = [shells EXCEPT ![call[c].shell].running = None, ![call[c].shell].active = FALSE]
  /\ Settle(c, "timeout")
  /\ UNCHANGED <<current, lock, overlap>>

Release(c) ==
  /\ call[c].pc = "release"
  /\ lock' = None
  /\ Goto(c, "over") /\ shells' = Settled(c)
  /\ UNCHANGED <<current, overlap>>

-----------------------------------------------------------------------------
(* Waiting, writing, and the end of a shell *)

\* wait_persistent_shell waits for the execution recorded last
Wait(c, op) ==
  LET idle == current = 0 \/ shells[current].latest = None \/ shells[current].running = None
  IN  /\ Begins(c, op, {"wait"})
      /\ IF idle THEN AnswerAtOnce(c, op, "idle")
         ELSE call' = [call EXCEPT ![c].op = op, ![c].pc = "waiting",
                                   ![c].wants = shells[current].latest]
      /\ UNCHANGED <<shells, current, lock, overlap>>

\* the execution settles, or the time is over
WaitOver(c) ==
  /\ call[c].pc = "waiting"
  /\ \/ call[call[c].wants].pc = "over" /\ Answer(c, call[call[c].wants].answer)
     \/ Answer(c, "running")
  /\ UNCHANGED <<shells, current, lock, overlap>>

\* writeText, appendText, replaceText, makeDirectory and the one-shot shells
Write(c, op) ==
  /\ Begins(c, op, {"write"})
  /\ IF lock = None THEN lock' = c /\ Enters(c, op, "writing", 0)
                    ELSE AnswerAtOnce(c, op, "busy") /\ UNCHANGED lock
  /\ UNCHANGED <<shells, current, overlap>>

WriteOver(c) ==
  /\ call[c].pc = "writing"
  /\ lock' = None /\ Answer(c, "done")
  /\ UNCHANGED <<shells, current, overlap>>

\* MUTANT of EntryAfter: the entry is deleted whatever shell is in it
EntryAfterAny(i) == 0

\* the handle's close listener
EntryAfter(i) == IF current = i THEN 0 ELSE current

\* a shell ends, by a signal, by itself or by what it has run, or never
Exit(i) ==
  /\ shells[i].up
  /\ shells' = [shells EXCEPT ![i].up = FALSE, ![i].active = FALSE, ![i].running = None]
  /\ current' = EntryAfter(i)
  /\ call' = [c \in Calls |-> IF call[c].pc = "running" /\ call[c].shell = i
                              THEN [call[c] EXCEPT !.pc = "release", !.answer = "closed"]
                              ELSE call[c]]
  /\ UNCHANGED <<lock, overlap>>

Begin(c) == \E op \in Ops[c] : Open(c, op) \/ Close(c, op) \/ Wait(c, op) \/ Write(c, op)

Proceed(c) ==
  \/ Reopen(c) \/ CloseOver(c) \/ OpenOver(c) \/ Enqueue(c) \/ TakeLease(c)
  \/ RunCommand(c) \/ CommandTimer(c) \/ Release(c) \/ WaitOver(c) \/ WriteOver(c)

Next ==
  \/ \E c \in Calls : Begin(c) \/ Proceed(c) \/ CommandEnds(c)
  \/ \E i \in DOMAIN shells : Exit(i)

\* The process goes on with its callbacks and timers; nobody makes a command end or
\* a shell obey its signal.
Spec == Init /\ [][Next]_vars /\ \A c \in Calls : WF_vars(Proceed(c))
-----------------------------------------------------------------------------
Under == {"leased", "running", "release"}

Handles == [active : BOOLEAN, up : BOOLEAN, running : Calls \cup {None},
            queue : Seq(Calls), latest : Calls \cup {None}]
PCs == Under \cup {"new", "closing", "opened", "queued", "writing", "waiting", "over"}
Answers == {"none", "done", "idle", "running", "busy", "unavailable", "inactive", "closed",
            "timeout"}

TypeOK ==
  /\ shells \in Seq(Handles)
  /\ current \in 0 .. Len(shells) /\ lock \in Calls \cup {None} /\ overlap \in BOOLEAN
  /\ call \in [Calls -> [op : AllOps \cup {None}, shell : 0 .. Len(shells), pc : PCs,
                         wants : Calls \cup {None}, answer : Answers]]

\* A session has one shell: one that takes commands is the one the next call finds,
\* however earlier ones timed out, closed or died late.  Restarts that overlap other
\* openings leave a shell behind that nobody closes; this needs them not to.
NoOrphan ==
  ~overlap => \A i \in DOMAIN shells : shells[i].active => i = current

\* The queue keeps the commands of a shell from failing over each other: one is
\* refused as busy only for a write of another tool or the command of another shell,
\* and without running it fails only if its shell was closed.
RefusedForCause ==
  [][\A c \in Calls : call[c].pc \in {"queued", "leased"} /\ call[c].pc # call'[c].pc =>
       /\ call'[c].answer = "busy" =>
            call[lock].op.name = "write" \/ call[lock].shell # call[c].shell
       /\ call'[c].answer = "inactive" => ~On(c).active]_vars

\* shell_wait speaks of the running command if no other is queued behind it.
WaitsForRunning ==
  \A i \in DOMAIN shells :
    shells[i].running # None /\ Len(shells[i].queue) = 1 => shells[i].latest = shells[i].running

\* Every call is answered, although commands may not end, shells may ignore their
\* signal and other calls may close the shell under a command.
AllAnswered == \A c \in Calls : (call[c].pc # "new") ~> (call[c].pc = "over")
=============================================================================
