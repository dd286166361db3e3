# openboa in TLA+

openboa runs long-lived agents as *sessions*: an append-only journal of events on disk, a session
record beside it, a queue of delayed wakes, and any number of processes that look for a session
with something to do, lease it, run one bounded turn of the model, and write the result back.
Agents and people talk to each other over a shared *chat* ledger, and share files through a
versioned *substrate*. There is no server and no database. Everything that keeps two processes out
of each other's way is built from files: hard links, renames, exclusive creates, appended lines and
JSON files rewritten whole; some of it is not kept apart at all.

These modules model that: the files and the locks over them, the path of an event or a wake from
arrival to a finished turn, the loops that serve all sessions of an agent, the confirmation gate
and the tools behind it, the shell of a session, the chat service and its readers. They are
translated from the source under `src/src`.

* [1. The system](#1-the-system)
* [2. The modules](#2-the-modules)
* [3. The runs](#3-the-runs)
* [4. What does not hold](#4-what-does-not-hold)
* [5. The proofs](#5-the-proofs)
* [6. Not modelled](#6-not-modelled)
* [7. The plan](#7-the-plan)

## 1. The system

### 1.1 Components

**Session store** (`agents/sessions/session-store.ts`). Per session: `events.jsonl` (events, and
*processed* markers appended later), `session.json` (status, stop reason, the pending
tool-confirmation request and the pending custom-tool request). Per agent: `runnable-sessions`
(sessions with an unprocessed user event, with `deferUntil` and `failureStreak`) and
`active-wake-leases`. Operations: `emitEvent`, `markProcessed`, `updateSession`,
`deferRunnableSession`, `backoffRunnableSession`, `reconcileRunnableSession`, `acquireWakeLease`
with its handle's `renew` and `release`, and readers that remove stale leases on the way. The
mutating calls run under a per-session mutation lock; `reconcileRunnableSession` does not. Correct
when: no two turns of one session run at the same time; a request is answered once; an
unprocessed event is always indexed; whatever a dead process leaves behind is recovered.

**Wake queue** (`agents/runtime/session-wake-queue.ts`). Per session: `wakes.jsonl` of *enqueued* and
*completed* records, folded into the open wakes. Per agent: `pending-wake-sessions.json`, each
session's next due time, rewritten whole under a lock file. Correct when: no wake is lost or run
twice, and every open wake is indexed.

**Activation queue** (`agents/runtime/session-activation-queue.ts`). Merges runnable sessions and due
wakes into activations (the two indexes are all it looks at), orders them by priority, leases the
first that is free, waits for changes of the indexes, and writes the activation journal. An
activation of kind `queued_wake` carries the list of due wakes it was found with. Correct when: work
is found, and a loop does not sleep over it.

**Wake session** (`agents/runtime/wake-session.ts`). `wakeSessionOnce`: read the journal, decide
which wakes to consume (all of them for an interrupt), consume them, run the harness while a timer
renews the lease, then enqueue the new wakes and *ack*, or put the consumed ones back and *abandon*.

**Harness** (`agents/runtime/harness.ts`). `AgentHarness.run`: a second read of the journal, clear
an interrupted session, mark it running, call the model, mark the events it saw as processed,
write the session back with a new status and possibly a new request. A provider error is turned
into a normal return by `handleRunFailure`; any earlier error is thrown.

**Orchestration** (`agents/runtime/orchestration.ts`). Cycles of lease-and-run over all sessions; after
a throw it reconciles the session and backs it off; between cycles it watches, up to an idle timeout
or for ever. Correct when: a cycle tries every session that was ready, and none starves.

**Managed tools** (`agents/tools/managed-runtime-tools.ts`). What a turn may call. Those that always
ask end the turn with a request; the user's answer is an event; a later turn runs the call. Correct
when: what runs is what the user saw and allowed.

**Resources** (`agents/resources/*`). The substrate: files all sessions of an agent see, a version history
(a JSON line and a content file for each version), and a write lease that is one lock file. Tools stage
a file into the session's workspace, compare, promote it back and restore an older version. Correct when:
nothing is replaced unasked or unexpectedly, the lease is given back, and the last version is the file.

**Sandbox** (`agents/sandbox/sandbox.ts`). Files and commands of a session under the workspace's write
lease, and a persistent shell with a queue of commands, a timer for each, and listeners for its end.
Correct when: a session has one shell, its commands run one after another, and every call is answered.

**Chat service** (`chat/core`, `chat/policy`, `chat/projections`). One append-only `chat-ledger.jsonl`,
read whole and appended to without a lock by every process: rooms, memberships, grant bindings, messages,
edits, redactions, reactions, cursors and attachments. A command checks its caller's authority on what it
read, then makes its writes one after another. Correct when: roles and redactions are what the ledger's
history says, retries converge, and nobody's membership is undone by somebody else's command.

**Front ends** (`chat/cli/adapter.ts`, `shell/desktop`, `shell/web`). The desktop client polls for events
every two seconds and loads everything again when there are any; scripts page through the same feed by
sequence. Correct when: a reader sees everything in the end.

**The rest.** The loop directive, runtime memory and learnings, context and retrieval, outcomes,
providers, auth, agent setup, the command line. `PROJECT.json` lists each with its sources and the reason
when it is not modelled.

### 1.2 How they interact

```
 emitEvent (CLI, chat, other sessions)        orchestrator loops (any number)
          |                                     |  nextReadyActivation: reads both indexes
          v                                     v            ^ watch: fs events, timers
  session store  <---- updateSession ---- leaseNextActivation ---> wake lease (file)
  journal|record|runnable index  markProcessed  |                      ^ renew (timer)
          ^                                     v                      |
          |                              wakeSessionOnce --------------+
          |  deferRunnable, reconcile,          |   consume / restore / enqueue
          +--------- backoff ---- harness.run <-+----------> wake queue: journal | index (lock file)
                                     |
              request / answer  <- gate -> tools -> workspace lease: shell, files
                                                 -> substrate lease: files | history
                                                 -> chat commands -> chat-ledger.jsonl
                                                                        ^ poll, reload
                                                       desktop, web, scripts
```

All interaction is by shared files. A call that writes three files is three steps to everyone else,
and a process can die between any two of them.

### 1.3 What is hard

* two or more processes take over a stale lock at the same time; a lock file is read by path and
  removed by path, and may be another one by then;
* a decision is taken on a snapshot (of the journal, of the due wakes, of an index, of a room) and
  carried out after an `await`, when it is stale;
* a process dies between the journal, the record and the index, or inside a lease;
* a turn fails at one of many places, and what it had consumed must come back exactly once;
* failures must be retried, later and later, and neither forgotten nor retried at once;
* an approval is used turns after it was asked for, when the model may say something else;
* records are numbered by writers that do not know of each other, and order decides what is active;
* a shell that was closed, timed out or replaced ends whenever it likes.

`PROJECT.json` lists every such place with its line and the properties that watch it.

## 2. The modules

| module | models | composed from |
| --- | --- | --- |
| `Lease` | what a wake lease promises, abstractly | |
| `LeaseFile` | the lease files of the session store, one file operation at a time | implements `Lease` |
| `WakeIndex` | `pending-wake-sessions.json` and its lock file | |
| `SessionStore` | journal, record and runnable index of one session: no `Next` of its own | |
| `SessionIngress` | any callers of that store in any order | `SessionStore` |
| `WakeQueue` | journal and index entry of one session's wakes: no `Next` of its own | |
| `ActivationRuntime` | orchestrators running turns of one session while events arrive | `SessionStore`, `WakeQueue` |
| `Scheduler` | the loops of an agent over all its sessions | |
| `ToolGate` | the confirmation gate of the managed tools | |
| `Substrate` | the shared files, their versions and lease, and the tools behind the gate | `ToolGate` |
| `Shell` | the persistent shell of a session under its workspace's lease | |
| `ChatLedger` | the ledger and its folds: rooms, bindings, messages, cursors | |
| `ChatAuthorization` | roles and decisions | `ChatLedger` |
| `ChatCommands` | the checks of each command and the writes it is made of | `ChatAuthorization` |
| `Chat` | the writes of all calls, interleaved, with crashes | `ChatCommands` |
| `ChatViews` | what a participant is shown: unread counts, inbox, followed threads | `Chat` |
| `ChatClient` | readers that poll while the commands go on | `Chat` |
| `MC*` | finite instances | |
| `*_proofs` | theorems | the module they are named after |

Protocols are modelled once, at the grain of file operations, and the modules above them take them as
given. `SessionStore`, `ActivationRuntime` and `Scheduler` assume of a lease what `Lease` says;
`LeaseFile` implements `Lease` under the conditions `Timely` and `Solo` below. `Scheduler` takes a turn as a
beginning and an end, `ActivationRuntime` has its writes. `Substrate` is `ToolGate` with the calls that
pass it spelled out: its specification implies `GateSpec`, which is proved.

**`LeaseFile`.** An *attempt* is one call of `acquireWakeLease` and its handle. It creates at most one
inode, so attempts also name inodes; `lock` is the inode at the lock path, `candidate` the one at each
owner's candidate path, `stamp` and `torn` what can be read from an inode. Actions follow the
awaits of `tryAcquireLeaseRecord` (`Prepare`, `Link`, `Judge`, `Retire`, `Relink`, `CleanUp`), of the
handle (`RenewOpen`, `RenewWrite`, `RenewIndex`, `Release`, `ReleaseRemove`, `ReleaseIndex`) and of the
readers that sweep stale leases (`SweepIndex`, `SweepJudge`, `SweepRemove`, `SweepUnindex`). `Crash`
may happen anywhere. `InvalidIsStale` selects the flavour: the wake lease (FALSE), which is renewed and
indexed, or the mutation lock (TRUE), which is neither and treats an unreadable file as stale.
`Timely` keeps the clock from passing a deadline that a live process would still meet (the heartbeat
is 60 s, the deadline 10 min). `Solo` keeps two takeovers from overlapping. The refinement maps `owner` to
the attempt whose inode is at the lock path and `working` to the attempts that believe they hold the lease.

**`WakeIndex`.** One caller per session: `Change` (the journal has changed), `Open`, `Fill`, `Judge`,
`Retire`, `TimeOut`, `Read`, `Write`, `Check`, `Remove`, `Crash`. The lock is created empty and filled
afterwards, so a contender may read it in between. `want` is the truth in the journal, `index` the file.

**`SessionStore`.** Each call is split at its writes: `emitEvent` into check, append, record, index;
`markProcessed` into one step per marker and the index; `backoffRunnableSession` and
`reconcileRunnableSession` into read and write. Calls that read and rename one file under the lock are
one step. Events of the agent itself (`processedAt` already set) change neither the pending events nor
the index and are left out. `failureStreak` and `deferUntil` are the two fields of an index entry.

**`WakeQueue`.** `EnqueueAppend`/`EnqueueSync`, `ConsumeBegin`/`ConsumeOne`/`ConsumeSync` (one completed
record at a time), and the lookup `ListDue`/`DueBatch`, which repairs the entry it looks at. The
states `enqueue` read before its append are the ones it syncs from, as in the code.

**`ActivationRuntime`.** A worker's `pc` walks through `look` (`nextReadyActivation`), `claim`
(`acquireWakeLease`), `wake` (the first snapshot and the consumption), `consumed` (the second snapshot),
`clear`, `start`, `model`, then `mark` and `finish` for a completed turn or `failing` and `failed` for
`handleRunFailure`, `return`, `enqueue` or `restore`, the release, and for a throw `reconcile` and
`backoff`. What the model does is a choice among `Outcomes`. `job` is the worker's local state: the kind
of its activation, the wakes that came with it, the wakes it consumed, the events it saw, the wakes it
still has to enqueue. `handled`, `repeated`, `owed` and `thrown` are history: no action reads them, except
that `thrown` bounds the number of failures in a row.

**`Scheduler`.** Each loop is a process: `StartCycle`, `ListLeases`, `Find`, `Claim` are
`executeReadyActivationsForCycle` with `leaseNextActivation`; `BeginTurn`, `EndTurn`, `Release`, `Reconcile`,
`Backoff` are `AgentOrchestration.wake`; `Drain`, `Listen`, `LastCycle`, `Check`, `Woken`, `Timeout` are
`runAgentLoop` with `waitForChange`. Around them events and wakes come, time passes (`Elapse`), processes die
and leases grow stale. A session is what its entries in the two indexes say, with one queued wake at a time;
due times are "now" or "later", so among wakes of one priority the order is open. `ear` is a loop's
listeners: quiet, told of a change, or deaf to one, for `fs.watch` may lose a notice and time sends none.

**`ToolGate`.** `Answer`, `BeginTurn`, then a call that passes (`Pass`), is refused as denied (`Refuse`) or
ends the turn with a request (`Interruption`), and `Reply`, `Fail` or `Die`. Which arguments a call has is open:
the gate compares only the tool's name. The writes of the record and the journal are one step here.

**`Substrate`.** A promotion or a restore is interleaved at its awaits: `ReadVersion`, `CheckVersion`,
`CheckContent`, `Lease`, `Open`, `Write`, `Release`, `Reconcile`, `Readback`, `RecordLine`, `RecordContent`,
`Recorded`. The session's own tools (`Edit`, `Stage`) are one step each, made under its workspace's lease. A content
stands for itself and its hash; a file open for writing is `Empty`. A caller that expects something expects
what it compared with when it asked, however much later the user answers. The outcome gate, a verdict on
the session's record, is a choice to give up. `targetPath` is the path of the source.
`Uses` gives each session a role, `Calls` bounds what may be asked; `raced` and `died` are history.

**`Shell`.** A call begins (`Open`, `Close`, `Wait`, `Write`) and goes on at its awaits (`Reopen`, `Enqueue`,
`TakeLease`, `RunCommand`, `Release`, ...); commands end (`CommandEnds`), time out (`CommandTimer`), and shells
exit (`Exit`) whenever they like, or never. Calls overlap, since a model may make several at a time and a call
that its turn gave up goes on. A shell's exit and its `close` event are one step; output cut off before its
markers is a command that does not end.

**`ChatLedger` to `Chat`.** The file is `log`; the position of the record that created a room, a binding or a
message is its id. Readers sort by sequence, equal ones in file order, as `Array.sort` does. A call is `Begin`
(the checks on the ledger as it stands; `todo` is what is left to write), then for each write `Prepare`, which
reads the ledger again and numbers the record, and `AppendRecord`, which appends it: between the two every
other process may append. `Die` ends a call anywhere. `Serial` names commands no two of which are in
progress together: what a property says of them holds only then. `saw` (in a cursor), `began` and `since` (in a call)
are not in the code; they remember how long the ledger was at the time. `Record`, `Write` and `Calls` are the types of
lines, writes and calls; `WellFormed` says what the service's own ledgers look like, and `ChatAssumption` asks it of
the ledger to begin with.

**`ChatViews`.** The projections of the ledger, each an operator: `Unread` and `UnreadMainline`, the inbox
(`MentionEntries`, `DirectEntries`) and the followed threads (`Follows`, `FollowedThreads`). Nothing is kept between two
reads, so the views have no state, and `MCChat` checks them in every state of `Chat`. `Mentioned` gives whom a body
mentions. The ids a room's lineage is walked by are one: no command makes a room that continues another.

**`ChatClient`.** The desktop client polls, loads the events, takes their last as its watermark, then loads the
conversations; the script asks for the page after the last sequence it got.

## 3. The runs

| run | checks |
| --- | --- |
| `LeaseFile_leases` | `TypeOK`, `Exclusion`, `StaleIsReplaced`, `ImplementsLease` |
| `WakeIndex_locked` | `TypeOK`, `EntriesKept`, `StaleIsRetired` |
| `SessionIngress_calls` | `TypeOK`, `AnsweredOnce`, `IndexComplete` |
| `ActivationRuntime_turns` | `TypeOK`, `IntentKept`, `WakesIndexed` |
| `ActivationRuntime_requests` | `EventOnce`, `NoStrandedRequest` |
| `ActivationRuntime_live` | `EventsHandled`, `WakesRun` |
| `Scheduler_loops` | `CycleSweeps`, `NoLostWakeup`, `NoStarvation` |
| `Substrate_promotions` | `ConfirmedOnly`, `WithdrawnStays`, `LeaseHeldInside`, `ExpectedReplaced`, `LatestIsLive`, `CreatesOnly` |
| `Shell_calls` | `NoOrphan`, `WaitsForRunning`, `RefusedForCause`, `AllAnswered` |
| `Chat_rooms` | `RemovedHasNoRole`, `RevocationSticks`, `JoinKept`, `ArchivedForGood`, `ManagerKept` |
| `Chat_messages` | `RedactionSticks`, `PostedOnce`, `AttentionKept` |
| `ChatClient_events` | `FeedComplete`, `CaughtUp` |

All pass, each in less than three minutes with two workers. The type invariants of `Chat`, `ChatClient`
(`ClientTypeOK`), `Scheduler`, `Shell` and `Substrate` hold in the same instances; add them to the `.cfg` after a
change. What the runs say:

* `Exclusion`: at most one attempt believes it holds the lease. Two of the three attempts share an owner
  name, as two orchestrators on the same cycle number do. `ImplementsLease`: in every step a lease is taken when
  nobody has it and ends when its holder does not work any more.
* `StaleIsReplaced`, `StaleIsRetired`: a contender that meets a dead process's stale file gets rid of it.
* `EntriesKept`: no rewrite of the wake index loses another session's entry.
* `AnsweredOnce`: no request is answered by two events, however callers, reconciliations and crashes
  interleave. `IndexComplete`: a pending event is always indexed, if no event is emitted while the
  session is reconciled and no caller dies between the append and the index of `emitEvent`.
* `EventOnce`: no event goes through two completed turns, also when workers die or a heartbeat throws.
  `IntentKept`: what a wake was for stays in the queue or in the lease holder's hands until a turn
  with it has completed or an interrupt has dropped it. `WakesIndexed`: between calls, the index
  entry is not later than the first open wake.
* `NoStrandedRequest`: when no turn is running, a request that a processed event answers is not pending
  any more; otherwise its answer would be refused from then on. Workers may die anywhere except between
  `markProcessed` and `updateSession` (`CrashAt`), which is exactly where it would not hold.
* `EventsHandled`, `WakesRun`: an event is processed and a wake completed in the end, however often a
  turn fails with a retryable error.
* `CycleSweeps`: a cycle ends only when every session that was ready and free all along has been tried.
  `NoLostWakeup`: a loop whose listeners have missed nothing does not sleep over work. `NoStarvation`: pending
  events and due wakes get a turn although another session is never quiet, turns fail and a loop dies.
* `ConfirmedOnly`: what runs behind the gate is exactly the call of a request the user allowed.
  `WithdrawnStays`: a request cleared by an interrupt never runs. `CreatesOnly`: without `overwrite` nothing is
  replaced. `LeaseHeldInside`: every way out of a promotion gives the lease back. `ExpectedReplaced`: what the
  caller expected is what is replaced. `LatestIsLive`: the last version is the file and can be read back.
* `NoOrphan`: a shell that takes commands is the one the next call finds. `RefusedForCause`: a queued command
  is never refused for the one before it. `WaitsForRunning`: `shell_wait` waits for the command that runs.
  `AllAnswered`: every call returns, whatever commands and shells do.
* `RemovedHasNoRole`, `RevocationSticks`: a departure ends all roles that were there, duplicates included, and what
  is revoked stays so although sequences repeat and run backwards. `JoinKept`, `ArchivedForGood`:
  nobody is put out of a room and no archived room opens by a call about something else. `ManagerKept`: a departure
  does not leave people in a room without a manager, if one of the room's managers was one when it began.
* `RedactionSticks`: late edits and reactions do not bring a redacted message back. `PostedOnce`: a post retried with
  its key is made once. `AttentionKept`: every message of another in a room one is in is called attention to, by an
  unread count, an inbox entry or a followed thread, until one marks its scope read while it is there, and by none
  of them afterwards; only threads one has turned off, or has nothing to do with, are passed over.
* `FeedComplete`: paging by sequence skips nothing. `CaughtUp`: an open client shows every message in the end.

### Bounds

* Two orchestrators and one emitter, three callers in `SessionIngress`, three attempts and a sweeper in `LeaseFile`,
  two sessions in `WakeIndex`. The races of section 4 need two. With three attempts the
  clock of `LeaseFile` stops when the first lease can be taken over; the theorems cover the rest.
* Two events, two or three wakes (ids are never reused, so three ids are enough for two wakes and the
  restored copy of one), two kinds of intent, one with a dedupe key. A turn that throws needs a free id
  for each wake it puts back (`Restores`); a step that needs more is left out.
* Clocks stop at `MaxTime`, and due times are capped there (`Capped`), so nothing is due later than the
  clock can reach. `MaxStreak` bounds the failures in a row and `MaxUntil` deferrals. Delays are 1; only their
  order matters.
* `Scheduler`: two sessions, one never quiet and first in every list, and two loops, one of which may die or be
  interrupted. Time is not counted, so there is no bound on it; contention, starvation and the race at the end
  of an idle timeout each need two of something and no more.
* `Substrate`: two sessions with different roles, one file, two contents, two requests and two versions: enough for
  a second promotion over the first, a restore, an approval that outlives a failed turn, and a lease left by a
  dead process. Theorems cover any number for all of its properties.
* `Shell`: four overlapping calls, two of them commands, one that restarts or closes, one that waits or writes.
* `Chat`: two processes; three people for rooms, two for messages; `MaxCalls` calls after an initial ledger. The
  ledger `MCSettled` already holds what interleavings produce (duplicate bindings, a sequence far below the
  last), so that two calls more reach their consequences; `<<>>` is the other start. A crash is one of
  `MaxCrashes`. `MCTalk` has a post whose author may not know that it was made, `MCPair` a direct room with a post. Of
  the two bodies `hello` mentions everybody and `quiet` nobody. Posts do not overlap with each other, which
  `PostedOnce` and `AttentionKept` need; reactions and follows do not either, to keep the run short (`MCPosting`).
  The theorems cover any number of processes, people, calls and crashes, and any well-formed ledger.
* `ChatClient`: one writer, one reader, three calls, pages of two events; `MaxLines` bounds the lines that
  `CaughtUp` speaks of, and no instance writes more. Of `FeedComplete` the theorems cover any number of writers, one at
  a time, and any page size.
* `CHECK_DEADLOCK FALSE` where attempts, calls or ids are used up and the system stops.

### Fairness

* `LeaseFile!FairSpec` and `WakeIndex!FairSpec`: a process that is not dead goes on with the call it
  has begun (`WF` per process). Starting a call, renewing and releasing are not assumed.
* `ActivationRuntime!FairSpec`: weak fairness of each worker's steps, of the continuation of store
  calls, and of the clock; the orchestrator's loop and its poll interval justify it. That the model does not
  fail for ever is strong fairness on `Reply` (asked again and again, it replies in the end),
  see the comment at `FairSpec`; emitting events is never assumed.
* `Scheduler!Spec`: weak fairness of each loop's next step (a turn ends by the provider's time limit, a sleep by
  `resolveWatchSleepMs`), of time for each session and of a dead holder's lease growing stale. That a notice
  arrives, or that a turn succeeds, is not assumed.
* `Shell!Spec`: weak fairness of `Proceed`, the callbacks and timers of the process. That a command ends or a
  shell obeys its signal is not assumed.
* `ChatClient!ClientSpec`: weak fairness of polling and of the two rounds of a load, for the client polls on a
  2-second timer. That a load succeeds is not assumed; commands are never assumed.
* `Substrate` and `Chat` have no liveness property and no fairness.

## 4. What does not hold

Seven statements of the repository's documents and tests fail for the code, and TLC finds each at once. They are
stated as properties of the modules but are in no run, since every run here passes. To see a counterexample, change
the `.cfg` as told.

* *The mutation lock excludes.* `src/test/session-store.test.ts:31` "rejects duplicate tool confirmations even
  under concurrent ingress". `session-store.ts:831`: for this lock a missing file counts as stale. A contender
  that looks just after a release removes the next caller's lock, and two callers run the critical section; no
  lease needs to grow old. `LeaseFile_leases.cfg` with `InvalidIsStale = TRUE`: `Exclusion` and `ImplementsLease`.
* *A reconcile makes the session runnable.* `docs/agents/resilience.md:119` "marks the session as runnable
  again". `session-store.ts:540`: a reconcile outside the lock writes what it scanned earlier and erases the
  entry of an event emitted meanwhile. `SessionIngress_calls.cfg` with `Overlaps = TRUE`: `IndexComplete`.
* *A wake runs once.* `src/test/wake-session.test.ts:115` "leases wake execution so concurrent workers do not
  run the same session twice". `session-wake-queue.ts:227`: the wakes an activation was found with are consumed
  again by a worker that leased late, and run a second time. `ActivationRuntime_turns.cfg` with
  `INVARIANT WakeOnce`.
* *An intent survives a failing turn.* `docs/agents/resilience.md:127` "the wake intent should not disappear".
  `harness.ts:1461`: a turn that fails inside the harness returns normally, so the consumed wakes are not put
  back; a retryable failure puts back at most the first. `ActivationRuntime_turns.cfg` with
  `Outcomes = {"ok", "queue", "fatal"}`: `IntentKept`.
* *Failures back off exponentially.* `AGENT_SCENARIO_DEBUG_LOG.md:2044` "replace the fixed failure cooldown
  with per-session exponential backoff". `orchestration.ts:327`: the reconcile before each backoff resets the
  streak it counts. `Events <- Single`, `Outcomes = {"ok", "throw"}`, `MaxTime = 3` in `ActivationRuntime_turns.cfg`, `INVARIANT StreakGrows`.
* *A custom tool's result resumes its session.* `docs/agents/resilience.md:110` "a later
  `user.custom_tool_result` resumes the same session". `harness.ts:1117`: a turn about something else in between
  erases the pending request, and the result is refused. `Events <- Calling`, `Answers <- Result`,
  `RequestOf <- ResultOf`, `Requests <- Customs`, `Custom <- Customs`, `Outcomes = {"ok", "custom"}`,
  `PROPERTY RequestSurvives`.
* *Chat writes converge under retries.* `docs/chat.md:133` "Visible writes must converge under retries."
  `command-service.ts:541`: a join that died after its first write is answered at once by its retry, and the
  participant has no role. `Chat_rooms.cfg` with `INVARIANT JoinRetryDone`.

The passing runs are about the rest of the behaviour, so each names what it sets aside:

* `Solo` (both file protocols): takeovers of a stale file do not overlap, and a wake-index lock is not
  judged while it is empty. Without it the wake lease and the wake index lose exclusion the way the
  mutation lock does.
* An attempt dies with its candidate file on disk (`Crash`): the candidate's name is derived from the owner's,
  so every later attempt of that name throws (`Prepare`). A crash in the middle of a heartbeat leaves a
  truncated lock file, which only an index entry condemns. Neither breaks `Exclusion`; `StaleIsReplaced`
  is about well-formed files and about attempts that got past `Prepare`.
* `Overlaps` and `HalfEmits` (`SessionIngress`): the reconcile above, and a crash between the append and the
  index of `emitEvent`; nothing rebuilds the index from the journals. The same window is in `enqueue`.
* `RenewFails` is off where `IntentKept` is checked: an error of a heartbeat surfaces after the turn has
  completed and drops the wakes the turn asked for.
* `CrashAt` leaves out the window between `markProcessed` and `updateSession` (see `NoStrandedRequest`).
* `WakesIndexed` and `EventsHandled` are checked without crashes and throws.
* A turn that fails with a non-retryable error leaves its events pending and runnable at once, and an
  interrupt that arrives between the two snapshots of a turn is handled with wakes left in the queue.
* `ExpectedReplaced` and `LatestIsLive` hold for calls that do not overlap: two sessions that both pass the checks
  before either takes the lease overwrite each other, and the version is read back after the lease was
  released, so it may be the other's. A process that dies inside leaves the substrate's lock for ever (no age,
  no owner check), and one that dies between the history's line and the content file leaves a version that
  cannot be read. A promotion whose workspace lease is busy fails after the file was promoted.
* An allowed call may run more than once, for its answer stays pending when its turn fails and within a turn the gate
  lets it pass again. Nothing promises otherwise; `ConfirmedOnly` says that each run is the approved call.
* `NoOrphan` is about openings that do not overlap a restart: a restart that overlaps one leaves a shell nobody
  closes. The `SIGKILL` of a shell that ignores `SIGTERM` is never sent, for `killed` is true already. A command
  that timed out may go on after the lease is given back. `currentExecution` is never reset.
* The chat ledger is not locked: `Serial` keeps the calls that write rooms, or posts, from overlapping. When they do
  overlap, a join or a leave is undone by the write of another, two managers leave together, and one key may
  post twice. `createChannel` that dies before its grant leaves a room nobody manages, whose slug is taken.
* Grants may overlap departures, and one that does can make the one who goes the only manager, who then goes: the
  guard of the departure has been passed. `ManagerKept` asks for a manager from before the departure (`began`).
* The notices of joins, departures, settings, archivals and grants are messages too, and one prepared beside a post
  gets the post's scope number: a reader whose cursor is at the one has read the other unseen. `AttentionKept` needs
  all calls that write messages not to overlap.
* The inbox and the followed threads ask only whether one is a participant, not for `room.read`: where a grant was
  revoked and the membership stays, they still show what was said. No document says which is meant.
* Edits, redactions and reactions carry no conversation id, so a client is not told of them by polling. A client
  whose load failed does not poll until its reader does something. Writers that overlap may use one sequence
  twice, and a page may end between the two: `FeedComplete` is checked with one writer. A room that becomes readable,
  by a grant or by being made public, has events below the number the script has reached, and it never gets them.

## 5. The proofs

Theorems hold for every value of the constants that the named assumptions allow.

* `LeaseFile_proofs`: `TypeCorrect` (`TypeOK`), `MutualExclusion` (`Exclusion`), `LiveLeaseStays`
  (`OnlyDeadAreRetired`: no step removes or replaces the lock file of a live holder) and `FilesImplementLease`
  (`ImplementsLease`), all but the first assuming `Timely`, `Solo` and the wake-lease flavour (`WakeLease`).
  `Exclusion` is not inductive. The invariant it follows from says where the lock path can point: a holder's
  inode is at the lock path; nobody is about to remove it, because a file that was judged stale belongs to
  no live attempt and stays judged stale (a stamp under a live attempt is never old, by `Timely`); the index
  entry of a held lease is not old either, so the sweeps of the index pass it by. The refinement maps each
  step to an acquisition, a stop, an end or a stutter from the same invariant.
  `OnlyOwnerWorks` is the abstract promise that the refinement is to, proved of `Lease` itself.
* `SessionIngress_proofs`: `TypeCorrect`; `OneAnswer` (`AnsweredOnce`) for any number of callers and requests,
  with crashes and unlocked reconciliations; `NothingForgotten` (`IndexComplete`) under `~Overlaps` and
  `~HalfEmits`, with every other crash and reconciliation. The first
  needs that the answer a caller is about to append is still the only one for its request, which
  the mutation lock guarantees; the second that only `emitEvent` between its append and its index write
  leaves the index behind, and that what a reconcile has read still includes all that is pending.
* `Substrate_proofs`, of `ToolGate`: `OnlyConfirmedRuns` (`ConfirmedOnly`) and `InterruptedNeverRuns` (`WithdrawnStays`) for
  any number of sessions, requests and calls. Both speak of the moment a call runs; the invariant `GateInv` speaks of
  everything from which that moment is made: each pending answer, and each one a turn began with, was given
  (`AnswersGiven`); sessions have different requests and nobody has a withdrawn one, a turn's own request
  included (`RequestsApart`); what runs is the turn's request (`RunsRequest`).
* `Substrate_proofs`, of `Substrate`: `SubstrateUsesGate` (the whole specification implies `GateSpec`: every step is one of the gate or
  leaves its variables alone), and with it `OnlyConfirmedPromotions` and `InterruptedNeverPromotes` by citing the
  gate's theorems; `LeaseGivenBack` (`LeaseHeldInside`) and `NothingReplaced` (`CreatesOnly`) from `SubstrateInv`:
  whoever is between `open` and `release` has the lease (`HolderInside`), and a file that is to be written and was
  not to be overwritten is the `Empty` one its exclusive open made (`FreshFile`).

  `ExpectedIsReplaced` (`ExpectedReplaced`) and `LastVersionIsLive` (`LatestIsLive`), from `VersionInv`, hold where
  calls do not overlap: then what a call read before it took the lease is still so when it writes.
* `WakeIndex_proofs`: `TypeCorrect`, and `EntriesAreKept` (`EntriesKept`) assuming `Timely` and `Solo`: a process that
  is between the read and the rename of the index holds its lock, the lock it holds was not judged stale, and what
  it read still is the index. It is the argument of `LeaseFile_proofs` again, with the index in the place of the work.
* `Scheduler_proofs`: `WorkingUnderLease` (a loop that works on a session has its lease, the strengthening on which the
  others rest), `EveryCycleSweeps` (`CycleSweeps`) and `NoWakeupIsLost` (`NoLostWakeup`), for any number of loops and
  sessions. The last says of every session with something to do that it is listed, or that a loop is about to look.
* `Shell_proofs`: `OneLiveShell` (`NoOrphan`), `WaitMeetsRunning` (`WaitsForRunning`) and `RefusalsHaveCause`
  (`RefusedForCause`), from `ShellIsInvariant`. The invariant ties the three places in which a shell is known: the
  table of the process, the record of the session, and the callbacks that are still to come.
* `ActivationRuntime_proofs`, for any number of workers, events and wakes. `Base`, the inductive type invariant, ties
  each worker's place to the lease it holds, to the store call and to the queue call it is in. On it rest:
  * `EventsOnce` (`EventOnce`), with crashes anywhere, throws, retries and failed renewals: what was handled is
    marked in the session before the turn that handled it can end, and only its holder can read it unmarked.
  * `AnsweredIsNotPending` (`NoStrandedRequest`) where no process dies between `markProcessed` and `updateSession`
    (`"finish" \notin CrashAt`). A request has a name nobody used before; an answer that is handled while a turn is
    open is for a request that this turn's record no longer holds when it is written.
  * `WakesAreIndexed` (`WakesIndexed`) where no process dies between the queue's file and the index, nor between the
    claim and the restore: a queue that has a wake and no entry belongs to somebody who is about to write one, and
    an entry that is later than a wake is about to be corrected. That a nonempty set of due times has a least
    member, which `Earliest` chooses, is proved from the well-foundedness of the naturals (`HasMinimum`).
  * `IntentsAreKept` (`IntentKept`) where nothing is dropped by what the code calls a failure (`NothingDropped`; section
    4 names the windows it sets aside): an intent is in the queue, in the hands of the one holder who claimed it, or
    was delivered by a turn, or was merged with one of the same key that is.

* `Chat_proofs`, from `LedgerInv`, with no lock and no restriction on which calls overlap: `TypeCorrect` (`TypeOK`),
  `RedactionsStick` (`RedactionSticks`), `RevocationsStick` (`RevocationSticks`), `DeparturesStripAll` (`RemovedHasNoRole`).
  What a writer has read may be old when it appends, so nothing can be said of the order of the file. It
  suffices that a record which changes another was numbered above it when it was prepared (`MayFollow`), which no
  later append can undo, and that readers go by the numbers (`LastOfIsLast`, proved from the well-foundedness of
  the naturals: a finite ledger has a last record in their order). A binding that a departure found is revoked, or is
  on its list, or in the record it is about to append (`StripsAll`). The rest of the invariant ties each write of a
  call to what it names in the ledger (`CallFits`).

  `PostsMadeOnce` (`PostedOnce`) where posts do not overlap (`"post" \in Serial`) and the ledger to begin with has no
  key twice in a scope: the key of a post that is about to be appended is still nobody's (`PostInv`).

  `JoinsKept` (`JoinKept`) and `ArchivedStays` (`ArchivedForGood`), from `RoomInv`, where calls that write rooms do not
  overlap (`RoomOps \cap Ops \subseteq Serial`); grants and messages may. A room, its members and its managers are
  read of any ledger (`RoomIn`, `ParticipantsIn`, `ManagerIn`), so that two ledgers can be compared. A call that
  will write a room still knows its archived flag and its members when it does (`RewriteFits`, `OpenFor`), for no
  other call writes them meanwhile.

  `ManagersKept` (`ManagerKept`), from `DepartureInv`, where moreover revocations do not overlap. A departure
  remembers why its guard let it go (`MayBeMissed`): somebody else manages the room, nobody is left behind, or the
  one who goes was gone or was no manager when it began. Each of these stays so until its writes are done, since
  it revokes only the bindings of the one who has left (`HolderLeft`).

  `AttentionStays` (`AttentionKept`), from `ViewInv`, where calls that write messages or notices do not overlap
  (`Posters \cap Ops \subseteq Serial`) and the ledger to begin with was written so. The numbers of a scope grow
  (`MessagesFit`), and a cursor's number parts the messages that were there when it was read from those that were
  not (`MarksFit`); what is about to be said fits too (`SaysFit`). The proof that every unseen message is then
  noticed, and none that was seen, goes through the views case by case (`Notices`).

  `FeedStaysComplete` (`FeedComplete` of `ChatClient`), from `FeedInv`, where no two calls overlap (`Ops \subseteq
  Serial`), no two lines of the ledger to begin with have one sequence, and no room becomes readable that was not
  (`[][Readable' \subseteq Readable]_log`). `TalkIsDelivered` proves this last condition where the commands
  write messages, changes and marks only (`TalkOps`), as those of the run do. A record about to be appended is
  numbered above every line (`InHand`), hence above what the script has reached; and a page holds every event up to
  its last, for whatever comes before one of the page has fewer events before it (`PageIsWhole`).

`RuntimeAssumption` asks what the code's identifiers guarantee: requests, events and wakes are named apart. Every
theorem with an assumption beyond those of its module's constants names it in its statement, and the run of its
property has constants that meet it.

`ChatAssumption` asks that the ledger to begin with is one the service writes, and `LedgerAssumption` that the roster is
finite.

Every safety property of the runs is stated by a theorem. Model-checked only: the liveness properties
(`StaleIsReplaced`, `StaleIsRetired`, `EventsHandled`, `WakesRun`, `NoStarvation`, `AllAnswered`, `CaughtUp`), for fairness
and `ENABLED` are out of the prover's reach.

## 6. Not modelled

* File operations do not fail on their own (disk full, permissions), except where a call is cut short (`Die`).
  The clock is one for all processes, as on one machine.
* `ActivationRuntime` has one session; `Scheduler` has several, at a coarser grain. The cycle's parallel shards are
  taken as separate loops. The activation journal is a trace nothing reads.
* Memory, learnings, spans, context and prompts do not influence which steps follow.
* **Runtime memory and learnings.** Files rewritten whole after an unlocked check. `MEMORY.md`
  (`workspace/bootstrap-files.ts:276-346`) is read, changed and truncated without a lock by every session of the
  agent; `expectedVersionId` of the memory tools is checked before an unlocked write; a `memory_write` to session
  state is overwritten by the memory write at the end of its own turn (`harness.ts:1086`); a crash between
  `markProcessed` and `capture` loses the turn's learnings. Their promises hold when no two calls overlap, and
  then by a single assignment, so there is nothing left for a model to say.
* **Outcomes.** Pure grading. One observation: the promotion gate
  (`managed-runtime-tools.ts:1740-1770`) evaluates the record as it is on disk during the approved turn, where the
  request is still pending and the status still `requires_action`, which grades as "blocked"
  (`outcome-grade.ts:64-68`); with an active outcome an approved promotion passes only with
  `requireOutcomePass` off.
* **The web shell's view state.** A reducer over the loaded seed, without concurrency. Its asynchronous part is
  described here only: a draft is cleared after the post and the reload, with what was typed meanwhile; a reload
  that is skipped because one is in flight leaves the draft of a message that was posted; choosing another actor
  during a load lets the old actor's seed overwrite the new one's. `addDesktopChatConversationParticipant` is an
  invitation and a join, one of which may fail.
* **Providers, runners, backends, auth, setup, environment, context and retrieval, command line, scenario harness.**
  I/O, parsing, configuration written once, read-only scoring, and test drivers. They keep no lock, queue or
  retry of their own; what a provider may return is a choice in `ActivationRuntime`.
* Chat commands that only read, validation of fields, views, and the CLI's printing.
* A process's `write.lock` in a workspace stays for ever when the process dies; `Substrate` has that, `Shell`, whose
  process is one, does not. Directory and environment of a shell are data. A write to the input of a shell that has
  exited but not yet reported it is not modelled.

## 7. The plan

Done: the core (`LeaseFile`, `WakeIndex`, `SessionStore`, `SessionIngress`, `WakeQueue`, `ActivationRuntime`), then
`Lease` and its refinement, the chat family, `Scheduler`, `ToolGate` with `Substrate`, `Shell`.

Left: the web shell's reducer, if its copies of one conversation are worth checking against each other.
