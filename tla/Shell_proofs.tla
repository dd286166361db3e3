---------------------------- MODULE Shell_proofs ----------------------------
(* Theorems about Shell for any number of calls and whatever each may be.    *)
(* Nothing here needs its fairness.                                          *)
EXTENDS Shell, TLAPS

\* A call that has asked for a shell knows which, one that waits knows for what, and a
\* command that has not settled has no answer.
Asked ==
  \A c \in Calls :
    /\ call[c].pc = "opened" => call[c].shell \in DOMAIN shells
    /\ call[c].pc = "waiting" => call[c].wants \in Calls
    /\ call[c].pc \in {"opened", "closing", "queued", "leased", "running"} => call[c].answer = "none"

\* A command waits in the queue of its shell until it has settled, and has the
\* lease only at the head of it.
InQueue ==
  \A c \in Calls : call[c].pc = "queued" =>
    /\ call[c].shell \in DOMAIN shells
    /\ \E k \in DOMAIN On(c).queue : On(c).queue[k] = c
AtHead ==
  \A c \in Calls : call[c].pc \in Under =>
    call[c].shell \in DOMAIN shells /\ On(c).queue # <<>> /\ Head(On(c).queue) = c

\* The lease of the workspace is a command's or a writer's.
LeaseOwned ==
  lock # None => \/ call[lock].pc \in Under
                 \/ call[lock].pc = "writing" /\ call[lock].op.name = "write"

\* What a shell runs is the head of its queue, and what was asked of it last is
\* the end of it.
RunsHead ==
  \A i \in DOMAIN shells : shells[i].running # None =>
    /\ shells[i].active /\ shells[i].queue # <<>> /\ Head(shells[i].queue) = shells[i].running
    /\ call[shells[i].running].pc = "running" /\ call[shells[i].running].shell = i
LatestIsLast ==
  \A i \in DOMAIN shells : shells[i].active /\ shells[i].queue # <<>> =>
    shells[i].latest = shells[i].queue[Len(shells[i].queue)]

QueueInv == Asked /\ InQueue /\ AtHead /\ LeaseOwned /\ RunsHead /\ LatestIsLast

\* One restart at a time has closed every shell.
Restarting(c) == call[c].pc = "closing" /\ call[c].op.restart
OneRestart ==
  ~overlap => \A c \in Calls : Restarting(c) =>
    /\ \A i \in DOMAIN shells : ~shells[i].active
    /\ \A d \in Calls : Restarting(d) => d = c

ShellInv == TypeOK /\ QueueInv /\ NoOrphan /\ OneRestart

-----------------------------------------------------------------------------
\* What a call is among n shells
Records(n) == [op : AllOps \cup {None}, shell : 0 .. n, pc : PCs, wants : Calls \cup {None},
               answer : Answers]

\* A call that begins is one of those allowed, and had no state before.
LEMMA Beginning ==
  ASSUME TypeOK, NEW c \in Calls, NEW op \in Ops[c], NEW name, Begins(c, op, name)
  PROVE  op \in AllOps /\ call[c] = Idle /\ call[c].pc = "new" /\ call[c].answer = "none"
BY ShellAssumption DEF ShellAssumption, Begins, Idle

\* The calls that touch no shell: they begin or end, and may take or give back the
\* lease as writers.
LEMMA BesideStays ==
  ASSUME ShellInv, NEW c \in Calls, NEW r \in Records(Len(shells)),
         call' = [call EXCEPT ![c] = r], UNCHANGED <<shells, current>>, overlap' = overlap,
         call[c].pc \notin Under \cup {"queued"},
         r.pc \in {"over", "waiting", "writing"}, r.pc = "writing" => r.op.name = "write",
         r.pc = "waiting" => r.wants \in Calls,
         lock' = None \/ (lock' = lock /\ lock # c) \/ (lock' = c /\ r.pc = "writing")
  PROVE  ShellInv'
<1> USE DEF ShellInv, QueueInv, Under
<1>1. TypeOK'
  BY DEF TypeOK, Records
<1>2. \A d \in Calls \ {c} : call'[d] = call[d]
  BY DEF TypeOK
<1>3. call'[c] = r
  BY DEF TypeOK
<1>4. Asked' /\ InQueue' /\ AtHead'
  BY <1>2, <1>3 DEF Asked, InQueue, AtHead, On
<1>5. LeaseOwned'
  BY <1>2, <1>3 DEF LeaseOwned, TypeOK
<1>6. RunsHead' /\ LatestIsLast'
  <2>1. \A i \in DOMAIN shells : shells[i].running # c
    BY ShellAssumption DEF RunsHead, TypeOK, ShellAssumption
  <2>2. QED
    BY <1>2, <2>1 DEF RunsHead, LatestIsLast, TypeOK, Handles
<1>7. NoOrphan' /\ OneRestart'
  BY <1>2, <1>3 DEF NoOrphan, OneRestart, Restarting
<1>8. QED
  BY <1>1, <1>4, <1>5, <1>6, <1>7

\* One handle of the shells is replaced.
LEMMA HandleReplaced ==
  ASSUME TypeOK, NEW i \in DOMAIN shells, NEW h \in Handles, shells' = [shells EXCEPT ![i] = h]
  PROVE  /\ shells' \in Seq(Handles) /\ Len(shells') = Len(shells)
         /\ DOMAIN shells' = DOMAIN shells
         /\ shells'[i] = h /\ \A j \in DOMAIN shells \ {i} : shells'[j] = shells[j]
BY DEF TypeOK

\* A new one is added.
LEMMA HandleAdded ==
  ASSUME TypeOK, shells' = Append(shells, Fresh)
  PROVE  /\ shells' \in Seq(Handles) /\ Len(shells') = Len(shells) + 1
         /\ DOMAIN shells' = DOMAIN shells \cup {Len(shells) + 1}
         /\ shells'[Len(shells) + 1] = Fresh /\ \A j \in DOMAIN shells : shells'[j] = shells[j]
<1>1. Fresh \in Handles
  BY DEF Fresh, Handles
<1>2. QED
  BY <1>1 DEF TypeOK

\* Opening and closing: no queue changes, and the calls are between shells, or ask
\* for one.
LEMMA OpeningStays ==
  ASSUME ShellInv, NEW c \in Calls, NEW r \in Records(Len(shells')),
         call' = [call EXCEPT ![c] = r], lock' = lock,
         call[c].pc \in {"new", "closing"}, r.pc \in {"opened", "closing"},
         r.pc = "opened" => r.shell \in DOMAIN shells', r.answer = "none",
         \/ UNCHANGED <<shells, current>>
         \/ /\ current # 0 /\ current' = current
            /\ shells' = [shells EXCEPT ![current].active = FALSE, ![current].running = None,
                                        ![current].latest = None]
         \/ shells' = Append(shells, Fresh) /\ current' = Len(shells) + 1,
         overlap' \in BOOLEAN
  PROVE  TypeOK' /\ QueueInv'
<1> USE DEF ShellInv, QueueInv
<1>1. /\ shells' \in Seq(Handles) /\ Len(shells') >= Len(shells)
      /\ DOMAIN shells \subseteq DOMAIN shells' /\ current' \in 0 .. Len(shells')
      /\ \A i \in DOMAIN shells :
           /\ shells'[i].queue = shells[i].queue
           /\ shells'[i] = shells[i] \/ (~shells'[i].active /\ shells'[i].running = None)
      /\ \A i \in DOMAIN shells' \ DOMAIN shells : shells'[i] = Fresh
  <2> USE DEF TypeOK
  <2>1. CASE UNCHANGED <<shells, current>>
    <3>1. shells' = shells /\ current' = current
      BY <2>1
    <3>2. Len(shells') = Len(shells) /\ Len(shells) \in Nat /\ DOMAIN shells' = DOMAIN shells
      BY <3>1
    <3>3. QED
      BY <3>1, <3>2
  <2>2. CASE /\ current # 0 /\ current' = current
             /\ shells' = [shells EXCEPT ![current].active = FALSE, ![current].running = None,
                                         ![current].latest = None]
    <3> DEFINE h == [shells[current] EXCEPT !.active = FALSE, !.running = None, !.latest = None]
    <3>1. current \in DOMAIN shells /\ shells[current] \in Handles
      BY <2>2 DEF TypeOK
    <3>2. /\ h \in Handles /\ h.queue = shells[current].queue /\ ~h.active /\ h.running = None
      BY <3>1 DEF Handles
    <3>3. shells' = [shells EXCEPT ![current] = h]
      BY <2>2
    <3> HIDE DEF h
    <3>4. /\ shells' \in Seq(Handles) /\ Len(shells') = Len(shells) /\ DOMAIN shells' = DOMAIN shells
          /\ shells'[current] = h /\ \A j \in DOMAIN shells \ {current} : shells'[j] = shells[j]
      BY <3>1, <3>2, <3>3, HandleReplaced
    <3>5. current' = current
      BY <2>2
    <3>6. \A i \in DOMAIN shells :
           /\ shells'[i].queue = shells[i].queue
           /\ shells'[i] = shells[i] \/ (~shells'[i].active /\ shells'[i].running = None)
      BY <3>1, <3>2, <3>4
    <3>7. Len(shells) \in Nat /\ current \in 0 .. Len(shells)
      OBVIOUS
    <3>8. Len(shells') >= Len(shells) /\ current' \in 0 .. Len(shells')
      <4>1. Len(shells') = Len(shells)
        BY <3>4
      <4> HIDE DEF TypeOK
      <4>2. QED
        BY <3>5, <3>7, <4>1
    <3>9. QED
      BY <3>4, <3>6, <3>8
  <2>3. CASE shells' = Append(shells, Fresh) /\ current' = Len(shells) + 1
    <3>1. /\ shells' \in Seq(Handles) /\ Len(shells') = Len(shells) + 1
          /\ DOMAIN shells' = DOMAIN shells \cup {Len(shells) + 1}
          /\ shells'[Len(shells) + 1] = Fresh /\ \A j \in DOMAIN shells : shells'[j] = shells[j]
      BY <2>3, HandleAdded
    <3>2. Len(shells) \in Nat
      OBVIOUS
    <3>3. QED
      BY <2>3, <3>1, <3>2
  <2>4. QED
    BY <2>1, <2>2, <2>3
<1>2. /\ \A d \in Calls \ {c} : call'[d] = call[d]
      /\ call'[c] = r
  BY DEF TypeOK
<1>3. TypeOK'
  <2>1. \A d \in Calls : call'[d] \in Records(Len(shells'))
    BY <1>1, <1>2 DEF Records, TypeOK
  <2>2. call' \in [Calls -> Records(Len(shells'))]
    BY <2>1 DEF TypeOK
  <2>3. QED
    BY <1>1, <2>2 DEF TypeOK, Records
<1>4. Asked'
  BY <1>1, <1>2 DEF Asked
<1>9. InQueue' /\ AtHead'
  <2>1. \A d \in Calls : call'[d].pc \in Under \cup {"queued"} => call'[d] = call[d]
    BY <1>2 DEF Under
  <2>2. \A d \in Calls : call'[d].pc \in Under \cup {"queued"} /\ call'[d].shell \in DOMAIN shells =>
          On(d)'.queue = On(d).queue
    BY <1>1, <2>1 DEF On
  <2>3. InQueue'
    <3> SUFFICES ASSUME NEW d \in Calls, call'[d].pc = "queued"
                 PROVE  /\ call'[d].shell \in DOMAIN shells'
                        /\ \E k \in DOMAIN On(d)'.queue : On(d)'.queue[k] = d
      BY DEF InQueue
    <3>1. call'[d] = call[d] /\ call[d].shell \in DOMAIN shells
      BY <2>1 DEF InQueue
    <3>2. QED
      BY <1>1, <2>2, <3>1 DEF InQueue
  <2>4. AtHead'
    BY <1>1, <2>1, <2>2 DEF AtHead
  <2>5. QED
    BY <2>3, <2>4
<1>5. LeaseOwned'
  BY <1>2 DEF LeaseOwned, TypeOK, Under
<1>6. RunsHead'
  <2>1. \A i \in DOMAIN shells : shells[i].running # c
    BY ShellAssumption DEF RunsHead, TypeOK, ShellAssumption
  <2>2. ASSUME NEW i \in DOMAIN shells', shells'[i].running # None
        PROVE  i \in DOMAIN shells /\ shells'[i] = shells[i] /\ shells[i].running \in Calls \ {c}
    <3>1. i \in DOMAIN shells /\ shells'[i] = shells[i]
      BY <1>1, <2>2 DEF Fresh
    <3>2. shells[i] \in Handles
      BY <3>1 DEF TypeOK
    <3>3. QED
      BY <2>1, <2>2, <3>1, <3>2 DEF Handles
  <2>3. QED
    BY <1>2, <2>2 DEF RunsHead
<1>7. LatestIsLast'
  BY <1>1 DEF LatestIsLast, Fresh
<1>8. QED
  BY <1>3, <1>4, <1>5, <1>6, <1>7, <1>9

\* A call asks for a shell, and the first restart closes the only one there is.
LEMMA OpenStays ==
  ASSUME ShellInv, NEW c \in Calls, NEW op \in Ops[c], Open(c, op) PROVE ShellInv'
<1> USE DEF ShellInv
<1>1. /\ op \in AllOps
      /\ call[c].pc = "new" /\ call[c].answer = "none" /\ call[c] \in Records(Len(shells))
  BY Beginning DEF Open, TypeOK, Records
<1>2. overlap' \in BOOLEAN /\ lock' = lock /\ current \in 0 .. Len(shells) /\ Len(shells) \in Nat
  BY DEF Open, TypeOK
<1>3. ~overlap' => ~overlap /\ \A d \in Calls : ~Restarting(d)
  BY DEF Open, Restarting
<1>4. CASE current # 0 /\ op.restart
  <2> DEFINE r == [call[c] EXCEPT !.op = op, !.pc = "closing", !.shell = 0]
  <2>1. CloseHandle(c, op)
    BY <1>4 DEF Open
  <2>2. /\ call' = [call EXCEPT ![c] = r] /\ current' = current
        /\ shells' = [shells EXCEPT ![current].active = FALSE, ![current].running = None,
                                    ![current].latest = None]
    BY <2>1 DEF CloseHandle, Enters
  <2>3. Len(shells') = Len(shells)
    BY <2>2 DEF TypeOK
  <2>4. r \in Records(Len(shells')) /\ r.pc = "closing" /\ r.answer = "none"
    <3>1. "closing" \in PCs /\ 0 \in 0 .. Len(shells')
      BY <1>2, <2>3 DEF PCs
    <3>2. QED
      BY <1>1, <1>2, <2>3, <3>1 DEF Records
  <2> HIDE DEF r
  <2>5. TypeOK' /\ QueueInv'
    BY <1>1, <1>2, <1>4, <2>2, <2>4, OpeningStays
  <2>6. \A i \in DOMAIN shells' :
          shells'[i].active => i \in DOMAIN shells /\ i # current /\ shells[i].active
    BY <1>2, <2>2 DEF TypeOK, Handles
  <2>7. NoOrphan' /\ OneRestart'
    <3>1. ~overlap' => \A i \in DOMAIN shells' : ~shells'[i].active
      BY <1>3, <2>6 DEF NoOrphan
    <3>2. ~overlap' => \A d \in Calls : Restarting(d)' => d = c
      BY <1>3, <2>2 DEF Restarting, TypeOK
    <3>3. QED
      BY <3>1, <3>2 DEF NoOrphan, OneRestart
  <2>8. QED
    BY <2>5, <2>7
<1>5. CASE current # 0 /\ ~op.restart /\ shells[current].active
  <2> DEFINE r == [call[c] EXCEPT !.op = op, !.pc = "opened", !.shell = current]
  <2>1. call' = [call EXCEPT ![c] = r] /\ UNCHANGED <<shells, current>>
    BY <1>5 DEF Open, Enters
  <2>2. r \in Records(Len(shells')) /\ r.pc = "opened" /\ r.shell = current /\ r.answer = "none"
    BY <1>1, <1>2, <2>1 DEF Records, PCs
  <2> HIDE DEF r
  <2>3. current \in DOMAIN shells'
    BY <1>2, <1>5, <2>1 DEF TypeOK
  <2>4. TypeOK' /\ QueueInv'
    BY <1>1, <1>2, <2>1, <2>2, <2>3, OpeningStays
  <2>5. NoOrphan' /\ OneRestart'
    <3>1. NoOrphan'
      BY <1>3, <2>1 DEF NoOrphan
    <3>2. ~overlap' => \A d \in Calls : ~Restarting(d)'
      BY <1>3, <2>1, <2>2 DEF Restarting, TypeOK
    <3>3. QED
      BY <3>1, <3>2 DEF OneRestart
  <2>6. QED
    BY <2>4, <2>5
<1>6. CASE ~(current # 0 /\ (op.restart \/ shells[current].active))
  <2> DEFINE r == [call[c] EXCEPT !.op = op, !.pc = "opened", !.shell = Len(shells) + 1]
  <2>1. Spawn(c, op)
    BY <1>6 DEF Open
  <2>2. /\ call' = [call EXCEPT ![c] = r]
        /\ shells' = Append(shells, Fresh) /\ current' = Len(shells) + 1
    BY <2>1 DEF Spawn, Enters
  <2>3. /\ Len(shells') = Len(shells) + 1 /\ DOMAIN shells' = DOMAIN shells \cup {Len(shells) + 1}
        /\ \A j \in DOMAIN shells : shells'[j] = shells[j]
    BY <2>2, HandleAdded
  <2>4. r \in Records(Len(shells')) /\ r.pc = "opened" /\ r.shell \in DOMAIN shells' /\ r.answer = "none"
    <3>1. "opened" \in PCs /\ Len(shells) + 1 \in 0 .. Len(shells')
      BY <1>2, <2>3 DEF PCs
    <3>2. QED
      BY <1>1, <1>2, <2>3, <3>1 DEF Records
  <2> HIDE DEF r
  <2>5. TypeOK' /\ QueueInv'
    BY <1>1, <1>2, <2>2, <2>4, OpeningStays
  <2>6. NoOrphan' /\ OneRestart'
    <3>1. ~overlap' => \A i \in DOMAIN shells : ~shells[i].active
      BY <1>2, <1>3, <1>6 DEF NoOrphan, TypeOK
    <3>2. ~overlap' => \A d \in Calls : ~Restarting(d)'
      BY <1>3, <2>2, <2>4 DEF Restarting, TypeOK
    <3>3. QED
      BY <2>2, <2>3, <3>1, <3>2 DEF NoOrphan, OneRestart
  <2>7. QED
    BY <2>5, <2>6
<1>7. QED
  BY <1>4, <1>5, <1>6

\* The restart spawns the next shell, and is over.
LEMMA ReopenStays == ASSUME ShellInv, NEW c \in Calls, Reopen(c) PROVE ShellInv'
<1> USE DEF ShellInv
<1> DEFINE r == [call[c] EXCEPT !.op = call[c].op, !.pc = "opened", !.shell = Len(shells) + 1]
<1>1. /\ call' = [call EXCEPT ![c] = r] /\ Restarting(c) /\ UNCHANGED <<lock, overlap>>
      /\ shells' = Append(shells, Fresh) /\ current' = Len(shells) + 1
  BY DEF Reopen, Restarting, Spawn, Enters
<1>2. /\ Len(shells') = Len(shells) + 1 /\ DOMAIN shells' = DOMAIN shells \cup {Len(shells) + 1}
      /\ \A j \in DOMAIN shells : shells'[j] = shells[j]
  BY <1>1, HandleAdded
<1>3. r \in Records(Len(shells')) /\ r.pc = "opened" /\ r.shell \in DOMAIN shells' /\ r.answer = "none"
  <2>1. call[c] \in Records(Len(shells)) /\ Len(shells) \in Nat
    BY DEF TypeOK, Records
  <2>2. /\ "opened" \in PCs /\ Len(shells) + 1 \in 0 .. Len(shells')
        /\ call[c].op \in AllOps \cup {None} /\ call[c].answer = "none"
    BY <1>1, <1>2, <2>1 DEF PCs, Records, QueueInv, Asked, Restarting
  <2>3. QED
    BY <1>2, <2>1, <2>2 DEF Records
<1> HIDE DEF r
<1>4. TypeOK' /\ QueueInv'
  BY <1>1, <1>3, OpeningStays DEF Restarting, TypeOK
<1>5. NoOrphan' /\ OneRestart'
  <2>1. ~overlap' => \A i \in DOMAIN shells : ~shells[i].active
    BY <1>1 DEF OneRestart
  <2>2. ~overlap' => \A d \in Calls : ~Restarting(d)'
    BY <1>1, <1>3 DEF OneRestart, Restarting, TypeOK
  <2>3. QED
    BY <1>1, <1>2, <2>1, <2>2 DEF NoOrphan, OneRestart
<1>6. QED
  BY <1>4, <1>5

\* shell_close: the shell is closed, or there is none.
LEMMA CloseStays ==
  ASSUME ShellInv, NEW c \in Calls, NEW op \in Ops[c], Close(c, op) PROVE ShellInv'
<1> USE DEF ShellInv
<1>1. /\ op \in AllOps /\ ~op.restart
      /\ call[c].pc = "new" /\ call[c].answer = "none" /\ call[c] \in Records(Len(shells))
  BY Beginning DEF Close, TypeOK, Records, Begins, AllOps
<1>2. UNCHANGED <<lock, overlap>> /\ current \in 0 .. Len(shells) /\ Len(shells) \in Nat
  BY DEF Close, TypeOK
<1>3. CASE current = 0
  <2> DEFINE r == [call[c] EXCEPT !.op = op, !.pc = "over", !.answer = "idle"]
  <2>1. call' = [call EXCEPT ![c] = r] /\ UNCHANGED <<shells, current>>
    BY <1>3 DEF Close, AnswerAtOnce
  <2>2. r \in Records(Len(shells)) /\ r.pc = "over"
    BY <1>1 DEF Records, PCs, Answers
  <2> HIDE DEF r
  <2>3. lock # c
    BY <1>1, ShellAssumption DEF QueueInv, LeaseOwned, TypeOK, ShellAssumption, Under
  <2>4. QED
    BY <1>1, <1>2, <2>1, <2>2, <2>3, BesideStays DEF Under
<1>4. CASE current # 0
  <2> DEFINE r == [call[c] EXCEPT !.op = op, !.pc = "closing", !.shell = 0]
  <2>1. /\ call' = [call EXCEPT ![c] = r] /\ current' = current
        /\ shells' = [shells EXCEPT ![current].active = FALSE, ![current].running = None,
                                    ![current].latest = None]
    BY <1>4 DEF Close, CloseHandle, Enters
  <2>2. Len(shells') = Len(shells)
    BY <2>1 DEF TypeOK
  <2>3. r \in Records(Len(shells')) /\ r.pc = "closing" /\ r.op = op /\ r.answer = "none"
    <3>1. "closing" \in PCs /\ 0 \in 0 .. Len(shells')
      BY <1>2, <2>2 DEF PCs
    <3>2. QED
      BY <1>1, <1>2, <2>2, <3>1 DEF Records
  <2> HIDE DEF r
  <2>4. TypeOK' /\ QueueInv'
    BY <1>1, <1>2, <1>4, <2>1, <2>3, OpeningStays DEF TypeOK
  <2>5. \A i \in DOMAIN shells' : shells'[i].active => i \in DOMAIN shells /\ shells[i].active
    BY <1>2, <2>1 DEF TypeOK, Handles
  <2>6. \A d \in Calls : Restarting(d)' => Restarting(d)
    BY <1>1, <2>1, <2>3 DEF Restarting, TypeOK
  <2>7. NoOrphan' /\ OneRestart'
    <3>1. NoOrphan'
      BY <1>2, <2>1, <2>5 DEF NoOrphan
    <3>2. OneRestart'
      BY <1>2, <2>5, <2>6 DEF OneRestart
    <3>3. QED
      BY <3>1, <3>2
  <2>8. QED
    BY <2>4, <2>7
<1>5. QED
  BY <1>3, <1>4

\* Calls that end outside a shell's queue, with some answer
LEMMA EndingStays ==
  ASSUME ShellInv, NEW c \in Calls, CloseOver(c) \/ OpenOver(c) \/ WaitOver(c) \/ WriteOver(c)
  PROVE  ShellInv'
<1> USE DEF ShellInv
<1>1. /\ UNCHANGED <<shells, current>> /\ overlap' = overlap
      /\ call[c].pc \in {"closing", "opened", "waiting", "writing"}
      /\ lock' = None \/ (lock' = lock /\ call[c].pc # "writing")
  BY DEF CloseOver, OpenOver, WaitOver, WriteOver, Is
<1>2. PICK a \in Answers : Answer(c, a)
  <2>1. CASE WaitOver(c)
    <3>1. call[c].wants \in Calls
      BY <2>1 DEF WaitOver, QueueInv, Asked
    <3>2. call[call[c].wants].answer \in Answers /\ "running" \in Answers
      BY <3>1 DEF TypeOK, Answers
    <3>3. QED
      BY <2>1, <3>2 DEF WaitOver
  <2>2. CASE ~WaitOver(c)
    BY <2>2 DEF CloseOver, OpenOver, WriteOver, Answers
  <2>3. QED
    BY <2>1, <2>2
<1> DEFINE r == [call[c] EXCEPT !.pc = "over", !.answer = a]
<1>3. call' = [call EXCEPT ![c] = r]
  BY <1>2 DEF Answer
<1>4. r \in Records(Len(shells)) /\ r.pc = "over"
  BY DEF TypeOK, Records, PCs
<1> HIDE DEF r
<1>5. lock' = None \/ (lock' = lock /\ lock # c)
  BY <1>1, ShellAssumption DEF QueueInv, LeaseOwned, TypeOK, ShellAssumption, Under
<1>6. QED
  BY <1>1, <1>3, <1>4, <1>5, BesideStays DEF Under

\* shell_wait begins, or has nothing to wait for.
LEMMA WaitStays ==
  ASSUME ShellInv, NEW c \in Calls, NEW op \in Ops[c], Wait(c, op) PROVE ShellInv'
<1> USE DEF ShellInv
<1>1. op \in AllOps /\ call[c].pc = "new" /\ call[c] \in Records(Len(shells))
  BY Beginning DEF Wait, TypeOK, Records
<1>2. PICK r \in Records(Len(shells)) :
        /\ call' = [call EXCEPT ![c] = r]
        /\ r.pc \in {"over", "waiting"} /\ (r.pc = "waiting" => r.wants \in Calls)
  <2> DEFINE idle == current = 0 \/ shells[current].latest = None \/ shells[current].running = None
  <2>1. CASE idle
    <3> DEFINE q == [call[c] EXCEPT !.op = op, !.pc = "over", !.answer = "idle"]
    <3>1. call' = [call EXCEPT ![c] = q]
      BY <2>1 DEF Wait, AnswerAtOnce
    <3>2. q \in Records(Len(shells)) /\ q.pc = "over"
      BY <1>1 DEF Records, PCs, Answers
    <3> HIDE DEF q
    <3>3. QED
      BY <3>1, <3>2
  <2>2. CASE ~idle
    <3> DEFINE q == [call[c] EXCEPT !.op = op, !.pc = "waiting", !.wants = shells[current].latest]
    <3>1. call' = [call EXCEPT ![c] = q]
      BY <2>2 DEF Wait
    <3>2. shells[current] \in Handles /\ shells[current].latest # None
      BY <2>2 DEF TypeOK
    <3>3. shells[current].latest \in Calls
      BY <3>2 DEF Handles
    <3>4. q \in Records(Len(shells)) /\ q.pc = "waiting" /\ q.wants \in Calls
      BY <1>1, <3>3 DEF Records, PCs
    <3> HIDE DEF q
    <3>5. QED
      BY <3>1, <3>4
  <2>3. QED
    BY <2>1, <2>2
<1>3. UNCHANGED <<shells, current>> /\ lock' = lock /\ overlap' = overlap
  BY DEF Wait
<1>4. lock # c
  BY <1>1, ShellAssumption DEF QueueInv, LeaseOwned, TypeOK, ShellAssumption, Under
<1>5. QED
  BY <1>1, <1>2, <1>3, <1>4, BesideStays DEF Under

\* A writer takes the lease of the workspace, or is refused.
LEMMA WriteStays ==
  ASSUME ShellInv, NEW c \in Calls, NEW op \in Ops[c], Write(c, op) PROVE ShellInv'
<1> USE DEF ShellInv
<1>1. /\ op \in AllOps /\ op.name = "write" /\ call[c].pc = "new"
      /\ call[c] \in Records(Len(shells)) /\ 0 \in 0 .. Len(shells)
  <2>1. op \in AllOps /\ call[c].pc = "new" /\ op.name = "write"
    BY Beginning DEF Write, Begins
  <2>2. Len(shells) \in Nat
    BY DEF TypeOK
  <2>3. QED
    BY <2>1, <2>2 DEF TypeOK, Records
<1>2. UNCHANGED <<shells, current>> /\ overlap' = overlap
  BY DEF Write
<1>3. lock # c
  BY <1>1, ShellAssumption DEF QueueInv, LeaseOwned, TypeOK, ShellAssumption, Under
<1>4. CASE lock = None
  <2> DEFINE r == [call[c] EXCEPT !.op = op, !.pc = "writing", !.shell = 0]
  <2>1. call' = [call EXCEPT ![c] = r] /\ lock' = c
    BY <1>4 DEF Write, Enters
  <2>2. r \in Records(Len(shells)) /\ r.pc = "writing" /\ r.op = op
    BY <1>1 DEF Records, PCs
  <2> HIDE DEF r
  <2>3. QED
    BY <1>1, <1>2, <2>1, <2>2, BesideStays DEF Under
<1>5. CASE lock # None
  <2> DEFINE r == [call[c] EXCEPT !.op = op, !.pc = "over", !.answer = "busy"]
  <2>1. call' = [call EXCEPT ![c] = r] /\ lock' = lock
    BY <1>5 DEF Write, AnswerAtOnce
  <2>2. r \in Records(Len(shells)) /\ r.pc = "over"
    BY <1>1 DEF Records, PCs, Answers
  <2> HIDE DEF r
  <2>3. QED
    BY <1>1, <1>2, <1>3, <2>1, <2>2, BesideStays DEF Under
<1>6. QED
  BY <1>4, <1>5

\* The command at the head of its shell's queue goes on under the lease.
LEMMA UnderStays ==
  ASSUME ShellInv, NEW c \in Calls, NEW r \in Records(Len(shells)), NEW h \in Handles,
         call' = [call EXCEPT ![c] = r], r.shell = call[c].shell, r.pc \in Under,
         r.pc \in {"leased", "running"} => r.answer = "none",
         call[c].shell \in DOMAIN shells, On(c).queue # <<>>, Head(On(c).queue) = c,
         shells' = [shells EXCEPT ![call[c].shell] = h], h.queue = On(c).queue,
         h.active => On(c).active /\ h.latest = On(c).latest,
         h.running # None => h.running = c /\ h.active /\ r.pc = "running",
         lock' = lock \/ lock' = c, UNCHANGED <<current, overlap>>,
         call[c].pc \in Under \cup {"queued"}
  PROVE  ShellInv'
<1> USE DEF ShellInv, QueueInv
<1> DEFINE i == call[c].shell
<1>1. /\ shells' \in Seq(Handles) /\ Len(shells') = Len(shells)
      /\ DOMAIN shells' = DOMAIN shells
      /\ shells'[i] = h /\ \A j \in DOMAIN shells \ {i} : shells'[j] = shells[j]
  BY HandleReplaced
<1>2. /\ \A d \in Calls \ {c} : call'[d] = call[d]
      /\ call'[c] = r
  BY DEF TypeOK
<1>3. \A j \in DOMAIN shells : /\ shells'[j].queue = shells[j].queue
                               /\ shells'[j].active => shells[j].active
                               /\ shells'[j].active => shells'[j].latest = shells[j].latest
  BY <1>1 DEF On
<1>4. TypeOK'
  BY <1>1, <1>2 DEF TypeOK, Records
<1>5. Asked'
  BY <1>1, <1>2 DEF Asked, Under
<1>6. InQueue'
  <2> SUFFICES ASSUME NEW d \in Calls, call'[d].pc = "queued"
               PROVE  /\ call'[d].shell \in DOMAIN shells'
                      /\ \E k \in DOMAIN On(d)'.queue : On(d)'.queue[k] = d
    BY DEF InQueue
  <2>1. d # c /\ call'[d] = call[d]
    BY <1>2 DEF Under
  <2>2. QED
    BY <1>1, <1>3, <2>1 DEF InQueue, On
<1>7. AtHead'
  BY <1>1, <1>2, <1>3 DEF AtHead, On
<1>8. LeaseOwned'
  BY <1>2 DEF LeaseOwned, TypeOK, Under
<1>9. RunsHead'
  <2> SUFFICES ASSUME NEW j \in DOMAIN shells, shells'[j].running # None
               PROVE  /\ shells'[j].active /\ shells'[j].queue # <<>>
                      /\ Head(shells'[j].queue) = shells'[j].running
                      /\ call'[shells'[j].running].pc = "running"
                      /\ call'[shells'[j].running].shell = j
    BY <1>1 DEF RunsHead
  <2>1. CASE j = i
    BY <1>1, <1>2, <2>1 DEF On
  <2>2. CASE j # i
    <3>1. shells'[j] = shells[j] /\ shells[j] \in Handles
      BY <1>1, <2>2 DEF TypeOK
    <3>2. shells[j].running \in Calls \ {c}
      BY <2>2, <3>1 DEF RunsHead, Handles
    <3>3. QED
      BY <1>2, <3>1, <3>2 DEF RunsHead
  <2>3. QED
    BY <2>1, <2>2
<1>10. LatestIsLast'
  BY <1>1, <1>3 DEF LatestIsLast
<1>11. NoOrphan'
  BY <1>1, <1>3 DEF NoOrphan
<1>12. OneRestart'
  <2>1. \A d \in Calls : Restarting(d)' => Restarting(d)
    BY <1>2 DEF Restarting, Under
  <2>2. QED
    BY <1>1, <1>3, <2>1 DEF OneRestart
<1>13. QED
  BY <1>4, <1>5, <1>6, <1>7, <1>8, <1>9, <1>10, <1>11, <1>12

\* The command at the head of its shell's queue has settled, and leaves it.
LEMMA SettledStays ==
  ASSUME ShellInv, NEW c \in Calls, NEW r \in Records(Len(shells)),
         call' = [call EXCEPT ![c] = r], r.pc = "over",
         call[c].shell \in DOMAIN shells, On(c).queue # <<>>, Head(On(c).queue) = c,
         shells' = Settled(c), lock' = None \/ (lock' = lock /\ lock # c),
         UNCHANGED <<current, overlap>>, call[c].pc \in {"release", "queued"}
  PROVE  ShellInv'
<1> USE DEF ShellInv, QueueInv
<1> DEFINE i == call[c].shell
           h == [shells[i] EXCEPT !.queue = Tail(@)]
<1>1. shells[i] \in Handles /\ h \in Handles /\ shells' = [shells EXCEPT ![i] = h]
  <2>1. shells[i] \in Handles
    BY DEF TypeOK
  <2>2. shells[i].queue \in Seq(Calls) /\ Tail(shells[i].queue) \in Seq(Calls)
    BY <2>1 DEF Handles, On
  <2>3. QED
    BY <2>1, <2>2 DEF Handles, Settled
<1>2. /\ h.queue = Tail(shells[i].queue) /\ h.active = shells[i].active
      /\ h.running = shells[i].running /\ h.latest = shells[i].latest
  BY <1>1 DEF Handles
<1> HIDE DEF h
<1>3. /\ shells' \in Seq(Handles) /\ Len(shells') = Len(shells)
      /\ DOMAIN shells' = DOMAIN shells
      /\ shells'[i] = h /\ \A j \in DOMAIN shells \ {i} : shells'[j] = shells[j]
  BY <1>1, HandleReplaced
<1>4. /\ \A d \in Calls \ {c} : call'[d] = call[d]
      /\ call'[c] = r
  BY DEF TypeOK
<1>5. /\ shells[i].queue \in Seq(Calls) /\ Len(shells[i].queue) >= 1 /\ shells[i].queue[1] = c
      /\ DOMAIN h.queue = 1 .. (Len(shells[i].queue) - 1)
      /\ \A k \in DOMAIN h.queue : h.queue[k] = shells[i].queue[k + 1]
  <2>1. shells[i].queue \in Seq(Calls) /\ shells[i].queue # <<>> /\ Head(shells[i].queue) = c
    BY <1>1 DEF Handles, On
  <2>2. QED
    BY <1>2, <2>1
<1>6. shells[i].running = None
  <2>1. shells[i].running # c
    BY ShellAssumption DEF RunsHead, ShellAssumption
  <2>2. QED
    BY <2>1 DEF RunsHead, On
<1>7. TypeOK'
  BY <1>3, <1>4 DEF TypeOK, Records
<1>8. Asked'
  BY <1>3, <1>4 DEF Asked
<1>9. InQueue'
  <2> SUFFICES ASSUME NEW d \in Calls, call'[d].pc = "queued"
               PROVE  /\ call'[d].shell \in DOMAIN shells'
                      /\ \E k \in DOMAIN shells'[call'[d].shell].queue :
                           shells'[call'[d].shell].queue[k] = d
    BY DEF InQueue, On
  <2>1. d # c /\ call'[d] = call[d] /\ call[d].shell \in DOMAIN shells
    BY <1>4 DEF InQueue
  <2>2. PICK k \in DOMAIN shells[call[d].shell].queue : shells[call[d].shell].queue[k] = d
    BY <2>1 DEF InQueue, On
  <2>3. CASE call[d].shell = i
    <3>1. k \in 2 .. Len(shells[i].queue)
      BY <1>5, <2>1, <2>2, <2>3
    <3>2. k - 1 \in DOMAIN h.queue /\ h.queue[k - 1] = d
      BY <1>5, <2>2, <2>3, <3>1
    <3>3. QED
      BY <1>3, <2>1, <2>3, <3>2
  <2>4. CASE call[d].shell # i
    BY <1>3, <2>1, <2>2, <2>4
  <2>5. QED
    BY <2>3, <2>4
<1>10. AtHead'
  <2>1. \A d \in Calls : call'[d].pc \in Under => call'[d] = call[d] /\ d # c
    BY <1>4 DEF Under
  <2>2. \A d \in Calls : call'[d].pc \in Under => call[d].shell # i
    BY <2>1 DEF AtHead, On
  <2>3. QED
    BY <1>3, <2>1, <2>2 DEF AtHead, On
<1>11. LeaseOwned'
  BY <1>4 DEF LeaseOwned, TypeOK, Under
<1>12. RunsHead'
  <2> SUFFICES ASSUME NEW j \in DOMAIN shells, shells'[j].running # None
               PROVE  /\ shells'[j].active /\ shells'[j].queue # <<>>
                      /\ Head(shells'[j].queue) = shells'[j].running
                      /\ call'[shells'[j].running].pc = "running"
                      /\ call'[shells'[j].running].shell = j
    BY <1>3 DEF RunsHead
  <2>1. j # i /\ shells'[j] = shells[j] /\ shells[j] \in Handles
    BY <1>2, <1>3, <1>6 DEF TypeOK
  <2>2. shells[j].running \in Calls \ {c}
    BY <2>1 DEF RunsHead, Handles
  <2>3. QED
    BY <1>4, <2>1, <2>2 DEF RunsHead
<1>13. LatestIsLast'
  <2>1. h.active /\ h.queue # <<>> => h.latest = h.queue[Len(h.queue)]
    <3>1. h.queue # <<>> => Len(h.queue) \in DOMAIN h.queue /\ Len(h.queue) + 1 = Len(shells[i].queue)
      BY <1>1, <1>2, <1>5 DEF Handles
    <3>2. h.queue # <<>> => h.queue[Len(h.queue)] = shells[i].queue[Len(shells[i].queue)]
      BY <1>5, <3>1
    <3>3. QED
      BY <1>2, <3>2 DEF LatestIsLast, On
  <2>2. QED
    BY <1>3, <2>1 DEF LatestIsLast
<1>14. NoOrphan'
  BY <1>2, <1>3 DEF NoOrphan
<1>15. OneRestart'
  <2>1. \A d \in Calls : Restarting(d)' => Restarting(d)
    BY <1>4 DEF Restarting
  <2>2. QED
    BY <1>2, <1>3, <2>1 DEF OneRestart
<1>16. QED
  BY <1>7, <1>8, <1>9, <1>10, <1>11, <1>12, <1>13, <1>14, <1>15

\* A command joins the queue of the shell it has asked for, or that is gone.
LEMMA EnqueueStays == ASSUME ShellInv, NEW c \in Calls, Enqueue(c) PROVE ShellInv'
<1> USE DEF ShellInv, QueueInv
<1> DEFINE i == call[c].shell
<1>1. /\ call[c].pc = "opened" /\ i \in DOMAIN shells /\ call[c].answer = "none"
      /\ call[c] \in Records(Len(shells)) /\ UNCHANGED <<current, lock, overlap>>
  BY DEF Enqueue, Is, Asked, TypeOK, Records
<1>2. CASE ~(i = current /\ On(c).active)
  <2> DEFINE r == [call[c] EXCEPT !.pc = "over", !.answer = "unavailable"]
  <2>1. call' = [call EXCEPT ![c] = r] /\ shells' = shells
    BY <1>2 DEF Enqueue, Answer
  <2>2. r \in Records(Len(shells)) /\ r.pc = "over"
    BY <1>1 DEF Records, PCs, Answers
  <2> HIDE DEF r
  <2>3. lock # c
    BY <1>1, ShellAssumption DEF LeaseOwned, TypeOK, ShellAssumption, Under
  <2>4. QED
    BY <1>1, <2>1, <2>2, <2>3, BesideStays DEF Under
<1>3. CASE i = current /\ On(c).active
  <2> DEFINE r == [call[c] EXCEPT !.pc = "queued"]
             h == [shells[i] EXCEPT !.queue = Append(@, c), !.latest = c]
  <2>1. call' = [call EXCEPT ![c] = r] /\ shells' = [shells EXCEPT ![i] = h]
    BY <1>1, <1>3 DEF Enqueue, Goto, Latest, On
  <2>2. /\ r \in Records(Len(shells)) /\ r.pc = "queued" /\ r.shell = i /\ r.answer = "none"
    BY <1>1 DEF Records, PCs
  <2>3. shells[i] \in Handles /\ shells[i].queue \in Seq(Calls)
    <3>1. shells[i] \in Handles
      BY <1>1 DEF TypeOK
    <3>2. QED
      BY <3>1 DEF Handles
  <2>4. /\ h \in Handles /\ h.queue = Append(shells[i].queue, c) /\ h.latest = c
        /\ h.active = shells[i].active /\ h.running = shells[i].running
    <3>1. Append(shells[i].queue, c) \in Seq(Calls)
      BY <2>3
    <3>2. QED
      BY <2>3, <3>1 DEF Handles
  <2> HIDE DEF r, h
  <2>5. /\ shells' \in Seq(Handles) /\ Len(shells') = Len(shells)
        /\ DOMAIN shells' = DOMAIN shells
        /\ shells'[i] = h /\ \A j \in DOMAIN shells \ {i} : shells'[j] = shells[j]
    BY <1>1, <2>1, <2>4, HandleReplaced
  <2>6. /\ \A d \in Calls \ {c} : call'[d] = call[d]
        /\ call'[c] = r
    BY <2>1 DEF TypeOK
  <2>7. /\ Len(h.queue) = Len(shells[i].queue) + 1 /\ h.queue[Len(h.queue)] = c
        /\ h.queue # <<>> /\ Len(h.queue) \in DOMAIN h.queue
        /\ \A k \in DOMAIN shells[i].queue : k \in DOMAIN h.queue /\ h.queue[k] = shells[i].queue[k]
        /\ shells[i].queue # <<>> => Head(h.queue) = Head(shells[i].queue)
    <3>1. h.queue = Append(shells[i].queue, c) /\ shells[i].queue \in Seq(Calls)
      BY <2>3, <2>4
    <3> HIDE DEF ShellInv, QueueInv
    <3>2. Len(h.queue) = Len(shells[i].queue) + 1 /\ h.queue[Len(shells[i].queue) + 1] = c
      BY <3>1
    <3>3. \A k \in DOMAIN shells[i].queue : k \in DOMAIN h.queue /\ h.queue[k] = shells[i].queue[k]
      BY <3>1
    <3>4. shells[i].queue # <<>> => Head(h.queue) = Head(shells[i].queue)
      BY <3>1, <3>3
    <3>5. h.queue # <<>> /\ Len(h.queue) \in DOMAIN h.queue
      BY <3>1
    <3>6. QED
      BY <3>2, <3>3, <3>4, <3>5
  <2>8. TypeOK'
    <3>1. call' \in [Calls -> Records(Len(shells'))]
      BY <1>1, <2>1, <2>2, <2>5 DEF TypeOK, Records
    <3>2. QED
      BY <1>1, <2>5, <3>1 DEF TypeOK, Records
  <2>9. Asked'
    BY <2>2, <2>5, <2>6 DEF Asked
  <2>10. InQueue'
    <3> SUFFICES ASSUME NEW d \in Calls, call'[d].pc = "queued"
                 PROVE  /\ call'[d].shell \in DOMAIN shells'
                        /\ \E k \in DOMAIN shells'[call'[d].shell].queue :
                             shells'[call'[d].shell].queue[k] = d
      BY DEF InQueue, On
    <3>1. CASE d = c
      BY <1>1, <2>2, <2>5, <2>6, <2>7, <3>1
    <3>2. CASE d # c
      <4>1. call'[d] = call[d] /\ call[d].shell \in DOMAIN shells
        BY <2>6, <3>2 DEF InQueue
      <4>2. PICK k \in DOMAIN shells[call[d].shell].queue : shells[call[d].shell].queue[k] = d
        BY <2>6, <3>2 DEF InQueue, On
      <4>3. QED
        BY <2>5, <2>7, <4>1, <4>2
    <3>3. QED
      BY <3>1, <3>2
  <2>11. AtHead'
    <3>1. \A d \in Calls : call'[d].pc \in Under => call'[d] = call[d]
      BY <2>2, <2>6 DEF Under
    <3> SUFFICES ASSUME NEW d \in Calls, call'[d].pc \in Under
                 PROVE  /\ call[d].shell \in DOMAIN shells'
                        /\ shells'[call[d].shell].queue # <<>>
                        /\ Head(shells'[call[d].shell].queue) = d
      BY <3>1 DEF AtHead, On
    <3>2. /\ call[d].shell \in DOMAIN shells /\ shells[call[d].shell].queue # <<>>
          /\ Head(shells[call[d].shell].queue) = d
      BY <3>1 DEF AtHead, On
    <3>3. QED
      BY <2>5, <2>7, <3>2
  <2>12. LeaseOwned'
    BY <1>1, <2>6 DEF LeaseOwned, TypeOK, Under
  <2>13. RunsHead'
    <3>1. \A j \in DOMAIN shells : shells'[j].running = shells[j].running
      BY <2>4, <2>5
    <3>2. \A j \in DOMAIN shells : shells[j].running # None => shells[j].running \in Calls \ {c}
      <4>1. \A j \in DOMAIN shells : shells[j].running \in Calls \cup {None}
        <5>1. \A j \in DOMAIN shells : shells[j] \in Handles
          BY DEF TypeOK
        <5>2. QED
          BY <5>1 DEF Handles
      <4>2. QED
        BY <1>1, <4>1 DEF RunsHead
    <3>3. QED
      BY <2>4, <2>5, <2>6, <2>7, <3>1, <3>2 DEF RunsHead
  <2>14. LatestIsLast'
    BY <2>4, <2>5, <2>7 DEF LatestIsLast
  <2>15. NoOrphan'
    BY <1>1, <2>4, <2>5 DEF NoOrphan
  <2>16. OneRestart'
    <3>1. \A d \in Calls : Restarting(d)' => Restarting(d)
      BY <2>2, <2>6 DEF Restarting
    <3>2. QED
      BY <1>1, <2>4, <2>5, <3>1 DEF OneRestart
  <2>17. QED
    BY <2>8, <2>9, <2>10, <2>11, <2>12, <2>13, <2>14, <2>15, <2>16
<1>4. QED
  BY <1>2, <1>3

\* The command whose turn it is takes the lease of the workspace, or settles as busy.
LEMMA TakeLeaseStays == ASSUME ShellInv, NEW c \in Calls, TakeLease(c) PROVE ShellInv'
<1> USE DEF ShellInv, QueueInv
<1>1. /\ call[c].pc = "queued" /\ call[c].answer = "none" /\ call[c] \in Records(Len(shells))
      /\ UNCHANGED <<current, overlap>> /\ call[c].shell \in DOMAIN shells
  BY DEF TakeLease, Is, Asked, InQueue, TypeOK, Records
<1>2. On(c) \in Handles /\ On(c).queue # <<>> /\ Head(On(c).queue) = c
  <2>1. On(c) \in Handles /\ Head(On(c).queue) = c
    BY <1>1 DEF On, TakeLease, Turn, TypeOK
  <2>2. PICK k \in DOMAIN On(c).queue : On(c).queue[k] = c
    BY <1>1 DEF InQueue
  <2>3. QED
    BY <2>1, <2>2
<1>3. On(c).running = None
  BY <1>1, <1>2 DEF RunsHead, On
<1>4. CASE lock = None
  <2> DEFINE r == [call[c] EXCEPT !.pc = "leased"]
  <2>1. call' = [call EXCEPT ![c] = r] /\ shells' = shells /\ lock' = c
    BY <1>4 DEF TakeLease, Goto
  <2>2. r \in Records(Len(shells)) /\ r.pc = "leased" /\ r.shell = call[c].shell /\ r.answer = "none"
    BY <1>1 DEF Records, PCs, Under
  <2>3. shells' = [shells EXCEPT ![call[c].shell] = On(c)]
    BY <1>1, <2>1 DEF On, TypeOK
  <2> HIDE DEF r
  <2>4. QED
    BY <1>1, <1>2, <1>3, <2>1, <2>2, <2>3, UnderStays DEF Under
<1>5. CASE lock # None
  <2> DEFINE r == [call[c] EXCEPT !.pc = "over", !.answer = "busy"]
  <2>1. call' = [call EXCEPT ![c] = r] /\ shells' = Settled(c) /\ lock' = lock
    BY <1>5 DEF TakeLease, Answer
  <2>2. r \in Records(Len(shells)) /\ r.pc = "over"
    BY <1>1 DEF Records, PCs, Answers
  <2> HIDE DEF r
  <2>3. lock # c
    BY <1>1, <1>5 DEF LeaseOwned, Under
  <2>4. QED
    BY <1>1, <1>2, <2>1, <2>2, <2>3, SettledStays
<1>6. QED
  BY <1>4, <1>5

\* It runs, ends, times out, or finds its shell closed.
LEMMA CommandStays ==
  ASSUME ShellInv, NEW c \in Calls, RunCommand(c) \/ CommandEnds(c) \/ CommandTimer(c)
  PROVE  ShellInv'
<1> USE DEF ShellInv, QueueInv
<1> DEFINE i == call[c].shell
<1>1. /\ call[c].pc \in {"leased", "running"} /\ call[c].answer = "none"
      /\ call[c] \in Records(Len(shells)) /\ UNCHANGED <<current, lock, overlap>>
  BY DEF RunCommand, CommandEnds, CommandTimer, TimesOut, Asked, TypeOK, Records
<1>2. i \in DOMAIN shells /\ On(c) \in Handles /\ On(c).queue # <<>> /\ Head(On(c).queue) = c
  BY <1>1 DEF AtHead, Under, On, TypeOK
<1>3. CASE RunCommand(c) /\ On(c).active
  <2> DEFINE r == [call[c] EXCEPT !.pc = "running"]
             h == [On(c) EXCEPT !.running = c]
  <2>1. call' = [call EXCEPT ![c] = r] /\ shells' = [shells EXCEPT ![i] = h]
    BY <1>3 DEF RunCommand, Goto, On
  <2>2. r \in Records(Len(shells)) /\ r.pc = "running" /\ r.shell = i /\ r.answer = "none"
    BY <1>1 DEF Records, PCs, Under
  <2>3. /\ h \in Handles /\ h.queue = On(c).queue /\ h.active = On(c).active /\ h.latest = On(c).latest
        /\ h.running = c
    BY <1>2 DEF Handles
  <2> HIDE DEF r, h
  <2>4. QED
    BY <1>1, <1>2, <1>3, <2>1, <2>2, <2>3, UnderStays DEF Under
<1>4. CASE RunCommand(c) /\ ~On(c).active
  <2> DEFINE r == [call[c] EXCEPT !.pc = "release", !.answer = "inactive"]
  <2>1. call' = [call EXCEPT ![c] = r] /\ shells' = shells
    BY <1>4 DEF RunCommand, Settle
  <2>2. r \in Records(Len(shells)) /\ r.pc = "release" /\ r.shell = i
    BY <1>1 DEF Records, PCs, Under, Answers
  <2>3. shells' = [shells EXCEPT ![i] = On(c)] /\ On(c).running = None
    BY <1>2, <1>4, <2>1 DEF On, TypeOK, RunsHead
  <2> HIDE DEF r
  <2>4. QED
    BY <1>1, <1>2, <1>4, <2>1, <2>2, <2>3, UnderStays DEF Under
<1>5. CASE CommandEnds(c)
  <2> DEFINE r == [call[c] EXCEPT !.pc = "release", !.answer = "done"]
             h == [On(c) EXCEPT !.running = None]
  <2>1. call' = [call EXCEPT ![c] = r] /\ shells' = [shells EXCEPT ![i] = h]
    BY <1>5 DEF CommandEnds, Settle, On
  <2>2. r \in Records(Len(shells)) /\ r.pc = "release" /\ r.shell = i
    BY <1>1 DEF Records, PCs, Under, Answers
  <2>3. /\ h \in Handles /\ h.queue = On(c).queue /\ h.active = On(c).active /\ h.latest = On(c).latest
        /\ h.running = None
    BY <1>2 DEF Handles
  <2> HIDE DEF r, h
  <2>4. QED
    BY <1>1, <1>2, <2>1, <2>2, <2>3, UnderStays DEF Under
<1>6. CASE CommandTimer(c)
  <2> DEFINE r == [call[c] EXCEPT !.pc = "release", !.answer = "timeout"]
             h == [On(c) EXCEPT !.running = None, !.active = FALSE]
  <2>1. call' = [call EXCEPT ![c] = r] /\ shells' = [shells EXCEPT ![i] = h]
    BY <1>6 DEF CommandTimer, Settle, On
  <2>2. r \in Records(Len(shells)) /\ r.pc = "release" /\ r.shell = i
    BY <1>1 DEF Records, PCs, Under, Answers
  <2>3. h \in Handles /\ h.queue = On(c).queue /\ ~h.active /\ h.running = None
    BY <1>2 DEF Handles
  <2> HIDE DEF r, h
  <2>4. QED
    BY <1>1, <1>2, <2>1, <2>2, <2>3, UnderStays DEF Under
<1>7. QED
  BY <1>3, <1>4, <1>5, <1>6

\* It gives the lease back and leaves the queue.
LEMMA ReleaseStays == ASSUME ShellInv, NEW c \in Calls, Release(c) PROVE ShellInv'
<1> USE DEF ShellInv, QueueInv
<1> DEFINE r == [call[c] EXCEPT !.pc = "over"]
<1>1. /\ call[c].pc = "release" /\ call[c] \in Records(Len(shells)) /\ lock' = None
      /\ UNCHANGED <<current, overlap>> /\ call' = [call EXCEPT ![c] = r] /\ shells' = Settled(c)
  BY DEF Release, Goto, TypeOK, Records
<1>2. call[c].shell \in DOMAIN shells /\ On(c).queue # <<>> /\ Head(On(c).queue) = c
  BY <1>1 DEF AtHead, Under
<1>3. r \in Records(Len(shells)) /\ r.pc = "over"
  BY <1>1 DEF Records, PCs
<1> HIDE DEF r
<1>4. QED
  BY <1>1, <1>2, <1>3, SettledStays

\* A shell ends: what it was running settles, and its queue finds it inactive.
LEMMA ExitStays == ASSUME ShellInv, NEW i \in DOMAIN shells, Exit(i) PROVE ShellInv'
<1> USE DEF ShellInv, QueueInv
<1> DEFINE h == [shells[i] EXCEPT !.up = FALSE, !.active = FALSE, !.running = None]
<1>1. shells' = [shells EXCEPT ![i] = h] /\ UNCHANGED <<lock, overlap>>
  <2>1. shells' = [shells EXCEPT ![i] = [@ EXCEPT !.up = FALSE, !.active = FALSE, !.running = None]]
    BY DEF Exit
  <2>2. QED
    BY <2>1 DEF Exit
<1>2. h \in Handles /\ h.queue = shells[i].queue /\ ~h.active /\ h.running = None
  <2>1. shells[i] \in Handles
    BY DEF TypeOK
  <2>2. QED
    BY <2>1 DEF Handles
<1> HIDE DEF h
<1>3. /\ shells' \in Seq(Handles) /\ Len(shells') = Len(shells)
      /\ DOMAIN shells' = DOMAIN shells
      /\ shells'[i] = h /\ \A j \in DOMAIN shells \ {i} : shells'[j] = shells[j]
  BY <1>1, <1>2, HandleReplaced
<1>4. \A c \in Calls : call[c] \in Records(Len(shells))
  BY DEF TypeOK, Records
<1>5. \A c \in Calls :
        \/ call'[c] = call[c] /\ ~(call[c].pc = "running" /\ call[c].shell = i)
        \/ /\ call[c].pc = "running" /\ call[c].shell = i
           /\ call'[c] \in Records(Len(shells)) /\ call'[c].pc = "release" /\ call'[c].shell = i
  <2> TAKE c \in Calls
  <2>1. CASE call[c].pc = "running" /\ call[c].shell = i
    <3>1. call'[c] = [call[c] EXCEPT !.pc = "release", !.answer = "closed"]
      BY <2>1 DEF Exit
    <3>2. QED
      BY <1>4, <2>1, <3>1 DEF Records, PCs, Under, Answers
  <2>2. CASE ~(call[c].pc = "running" /\ call[c].shell = i)
    BY <2>2 DEF Exit
  <2>3. QED
    BY <2>1, <2>2
<1>6. TypeOK'
  <2>1. call' \in [Calls -> Records(Len(shells'))]
    <3>1. \A c \in Calls : call'[c] \in Records(Len(shells))
      BY <1>4, <1>5
    <3>2. call' = [c \in Calls |-> call'[c]]
      BY DEF Exit
    <3>3. QED
      BY <1>3, <3>1, <3>2
  <2>2. current' \in 0 .. Len(shells')
    <3>1. current \in 0 .. Len(shells) /\ Len(shells) \in Nat
      BY DEF TypeOK
    <3>2. current' = IF current = i THEN 0 ELSE current
      BY DEF Exit, EntryAfter
    <3>3. Len(shells') = Len(shells)
      BY <1>3
    <3> HIDE DEF ShellInv, QueueInv
    <3>4. QED
      BY <3>1, <3>2, <3>3
  <2>3. QED
    BY <1>1, <1>3, <2>1, <2>2 DEF TypeOK, Records
<1>7. Asked'
  BY <1>3, <1>5 DEF Asked
<1>8. InQueue'
  <2> SUFFICES ASSUME NEW d \in Calls, call'[d].pc = "queued"
               PROVE  /\ call'[d].shell \in DOMAIN shells'
                      /\ \E k \in DOMAIN shells'[call'[d].shell].queue :
                           shells'[call'[d].shell].queue[k] = d
    BY DEF InQueue, On
  <2>1. call'[d] = call[d] /\ call[d].shell \in DOMAIN shells
    BY <1>5 DEF InQueue
  <2>2. QED
    BY <1>2, <1>3, <2>1 DEF InQueue, On
<1>9. AtHead'
  <2>1. \A d \in Calls : call'[d].pc \in Under => call[d].pc \in Under /\ call'[d].shell = call[d].shell
    BY <1>5 DEF Under
  <2>2. QED
    BY <1>2, <1>3, <2>1 DEF AtHead, On
<1>10. LeaseOwned'
  BY <1>1, <1>5 DEF LeaseOwned, TypeOK, Under
<1>11. RunsHead'
  <2> SUFFICES ASSUME NEW j \in DOMAIN shells, shells'[j].running # None
               PROVE  /\ shells'[j].active /\ shells'[j].queue # <<>>
                      /\ Head(shells'[j].queue) = shells'[j].running
                      /\ call'[shells'[j].running].pc = "running"
                      /\ call'[shells'[j].running].shell = j
    BY <1>3 DEF RunsHead
  <2>1. j # i /\ shells'[j] = shells[j] /\ shells[j] \in Handles
    BY <1>2, <1>3 DEF TypeOK
  <2>2. shells[j].running \in Calls
    BY <2>1 DEF Handles
  <2>3. QED
    BY <1>5, <2>1, <2>2 DEF RunsHead
<1>12. LatestIsLast'
  BY <1>2, <1>3 DEF LatestIsLast
<1>13. NoOrphan'
  <2>1. current' = (IF current = i THEN 0 ELSE current) /\ overlap' = overlap
    BY DEF Exit, EntryAfter
  <2>2. ~overlap => \A j \in DOMAIN shells : shells[j].active => j = current
    BY DEF NoOrphan
  <2>3. \A j \in DOMAIN shells' : shells'[j].active => j # i /\ shells[j].active /\ j \in DOMAIN shells
    BY <1>2, <1>3
  <2> HIDE DEF ShellInv, QueueInv
  <2>4. QED
    BY <2>1, <2>2, <2>3 DEF NoOrphan
<1>14. OneRestart'
  <2>1. \A d \in Calls : Restarting(d)' => Restarting(d)
    BY <1>5 DEF Restarting
  <2>2. QED
    BY <1>1, <1>2, <1>3, <2>1 DEF OneRestart
<1>15. QED
  BY <1>6, <1>7, <1>8, <1>9, <1>10, <1>11, <1>12, <1>13, <1>14

-----------------------------------------------------------------------------

LEMMA InitShell == Init => ShellInv
<1> SUFFICES ASSUME Init PROVE ShellInv
  OBVIOUS
<1>1. TypeOK
  <2>1. shells \in Seq(Handles) /\ Len(shells) = 0
    BY DEF Init
  <2>2. Idle \in Records(0)
    BY DEF Idle, Records, PCs, Answers
  <2>3. current = 0 /\ lock = None /\ overlap = FALSE /\ call = [c \in Calls |-> Idle]
    BY DEF Init
  <2>4. call \in [Calls -> Records(Len(shells))]
    BY <2>1, <2>2, <2>3
  <2>5. current \in 0 .. Len(shells)
    BY <2>1, <2>3
  <2>6. QED
    BY <2>1, <2>3, <2>4, <2>5 DEF TypeOK, Records
<1>2. QueueInv /\ NoOrphan /\ OneRestart
  BY DEF Init, Idle, QueueInv, Asked, InQueue, AtHead, LeaseOwned, RunsHead, LatestIsLast, NoOrphan,
         OneRestart, Restarting, Under
<1>3. QED
  BY <1>1, <1>2 DEF ShellInv

LEMMA NextShell == ShellInv /\ [Next]_vars => ShellInv'
<1> SUFFICES ASSUME ShellInv, [Next]_vars PROVE ShellInv'
  OBVIOUS
<1>1. ASSUME NEW c \in Calls, Begin(c) PROVE ShellInv'
  BY <1>1, OpenStays, CloseStays, WaitStays, WriteStays DEF Begin
<1>2. ASSUME NEW c \in Calls, Proceed(c) \/ CommandEnds(c) PROVE ShellInv'
  BY <1>2, ReopenStays, EndingStays, EnqueueStays, TakeLeaseStays, CommandStays, ReleaseStays
  DEF Proceed
<1>3. ASSUME NEW i \in DOMAIN shells, Exit(i) PROVE ShellInv'
  BY <1>3, ExitStays
<1>4. CASE UNCHANGED vars
  BY <1>4
  DEF vars, ShellInv, QueueInv, TypeOK, Asked, InQueue, AtHead, LeaseOwned, RunsHead, LatestIsLast,
      NoOrphan, OneRestart, Restarting, On
<1>5. QED
  BY <1>1, <1>2, <1>3, <1>4 DEF Next

\* Types, the order of every shell's queue and the owner of the workspace's lease, in
\* every reachable state (LocalSandbox with any number of overlapping calls).
THEOREM ShellIsInvariant == Spec => []ShellInv
BY InitShell, NextShell, PTL DEF Spec

\* As long as no shell is asked for during a restart, the only shell of a session that
\* takes commands is the one its next call finds, for any number of calls that open,
\* close, restart, time out and die in any order (openPersistentShell and its close
\* listener).
THEOREM OneLiveShell == Spec => []NoOrphan
BY ShellIsInvariant, PTL DEF ShellInv

\* shell_wait is told of the command that is running if none is queued behind it
\* (currentExecution of execPersistentShell, which nothing resets).
THEOREM WaitMeetsRunning == Spec => []WaitsForRunning
<1>1. ShellInv => WaitsForRunning
  <2> SUFFICES ASSUME ShellInv, NEW i \in DOMAIN shells,
                      shells[i].running # None, Len(shells[i].queue) = 1
               PROVE  shells[i].latest = shells[i].running
    BY DEF WaitsForRunning
  <2>1. shells[i].queue \in Seq(Calls)
    <3>1. shells[i] \in Handles
      BY DEF ShellInv, TypeOK
    <3>2. QED
      BY <3>1 DEF Handles
  <2>2. QED
    BY <2>1 DEF ShellInv, QueueInv, RunsHead, LatestIsLast
<1>2. QED
  BY <1>1, ShellIsInvariant, PTL

\* A command is refused as busy only for a writer or for another shell's command, for
\* the shell's own commands come one after the other; and it fails without running only
\* in a shell that was closed (execPersistentShell, withWriteLease).
THEOREM RefusalsHaveCause == Spec => RefusedForCause
<1>1. ShellInv /\ [Next]_vars =>
        [\A c \in Calls : call[c].pc \in {"queued", "leased"} /\ call[c].pc # call'[c].pc =>
           /\ call'[c].answer = "busy" =>
                call[lock].op.name = "write" \/ call[lock].shell # call[c].shell
           /\ call'[c].answer = "inactive" => ~On(c).active]_vars
  <2> SUFFICES ASSUME ShellInv, Next, NEW c \in Calls, call[c].pc \in {"queued", "leased"},
                      call[c].pc # call'[c].pc
               PROVE  /\ call'[c].answer = "busy" =>
                           call[lock].op.name = "write" \/ call[lock].shell # call[c].shell
                      /\ call'[c].answer = "inactive" => ~On(c).active
    OBVIOUS
  <2>1. TakeLease(c) \/ RunCommand(c)
    <3>1. ASSUME NEW d \in Calls, Begin(d) PROVE FALSE
      BY <3>1, Beginning
      DEF Begin, Open, CloseHandle, Spawn, Enters, Close, Wait, Write, AnswerAtOnce, ShellInv, TypeOK
    <3>2. ASSUME NEW d \in Calls, Proceed(d) \/ CommandEnds(d) PROVE d = c
      BY <3>2
      DEF Proceed, Reopen, Spawn, Enters, CloseOver, OpenOver, Enqueue, TakeLease, RunCommand,
          CommandTimer, CommandEnds, Release, WaitOver, WriteOver, Goto, Answer, Settle, ShellInv,
          TypeOK
    <3>3. ASSUME NEW i \in DOMAIN shells, Exit(i) PROVE FALSE
      BY <3>3 DEF Exit
    <3>4. Proceed(c) \/ CommandEnds(c)
      BY <3>1, <3>2, <3>3 DEF Next
    <3>5. QED
      BY <3>4
      DEF Proceed, Reopen, CloseOver, OpenOver, Enqueue, CommandTimer, TimesOut, CommandEnds,
          Release, WaitOver, WriteOver, Is
  <2>2. call[c].answer = "none"
    BY DEF ShellInv, QueueInv, Asked
  <2>3. CASE TakeLease(c)
    <3>1. call'[c].answer = "busy" => lock # None
      BY <2>2, <2>3 DEF TakeLease, Goto, ShellInv, TypeOK
    <3>2. call'[c].answer # "inactive"
      BY <2>2, <2>3 DEF TakeLease, Goto, Answer, ShellInv, TypeOK
    <3>3. ASSUME lock # None, call[lock].shell = call[c].shell PROVE call[lock].op.name = "write"
      <4>1. call[c].pc = "queued" /\ Head(On(c).queue) = c /\ lock \in Calls
        BY <2>3, <3>3 DEF TakeLease, Is, Turn, ShellInv, TypeOK
      <4>2. call[lock].pc \notin Under
        BY <3>3, <4>1 DEF ShellInv, QueueInv, AtHead, On, Under
      <4>3. QED
        BY <3>3, <4>2 DEF ShellInv, QueueInv, LeaseOwned
    <3>4. QED
      BY <3>1, <3>2, <3>3
  <2>4. CASE RunCommand(c)
    BY <2>2, <2>4 DEF RunCommand, Goto, Settle, ShellInv, TypeOK
  <2>5. QED
    BY <2>1, <2>3, <2>4
<1>2. QED
  BY <1>1, ShellIsInvariant, PTL DEF Spec, RefusedForCause

=============================================================================
