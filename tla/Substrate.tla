----------------------------- MODULE Substrate ------------------------------
(***************************************************************************)
(* The files an agent's sessions share (the substrate), their versions,    *)
(* and the tools that move files between it and a session's own workspace: *)
(* resources_stage_from_substrate, _compare_with_substrate,                *)
(* _promote_to_substrate and _restore_version                              *)
(* (src/src/agents/tools/managed-runtime-tools.ts) over                    *)
(* src/src/agents/resources/resource-access.ts and version-store.ts.       *)
(*                                                                         *)
(* Promote and restore always ask: ToolGate decides what runs.  Every      *)
(* await of theirs ends a step here, and the sessions' steps interleave.   *)
(* A content stands for itself and its hash.  A file open for writing is   *)
(* empty until it is written.  targetPath is left at its default, the      *)
(* path of the source; versions are numbered in the order of the history.  *)
(***************************************************************************)
EXTENDS ToolGate

CONSTANTS
  Files, Contents,
  Empty,        \* the content of a file that was created or truncated and not yet written
  NoFile,       \* no such file; as an expected hash: none is given
  Drafts,       \* what earlier turns left in each session's workspace
  Uses,         \* what happens in each session, of Doings
  MaxVersions   \* bound on the versions recorded

Doings == {"edit", "stage", "deny", "interrupt", "die"}

Stored == Contents \cup {Empty, NoFile}
Versions == 0 .. MaxVersions

\* from: the version to restore; version, hash: what the caller expects, if anything
SubstrateCalls ==
  [tool : {"promote", "restore"}, file : Files, overwrite : BOOLEAN, from : Versions,
   version : Versions, hash : Stored]

ASSUME SubstrateAssumption ==
  /\ None \notin Sessions
  /\ Calls \subseteq SubstrateCalls
  /\ Empty \notin Contents /\ NoFile \notin Contents \cup {Empty}
  /\ Drafts \in [Sessions -> [Files -> Contents \cup {NoFile}]]
  /\ Uses \in [Sessions -> SUBSET Doings] /\ MaxVersions \in Nat

VARIABLES
  live,       \* the substrate's files
  history,    \* the versions, each with its content file
  lock,       \* the session that holds the substrate's write lease
  draft,      \* the files of each session's workspace
  staged,     \* the files in its staged-substrate manifest
  wlock,      \* the write lease of its workspace
  job,        \* the tool call it is in
  raced,      \* history: two confirmed calls have overlapped
  died        \* history: a process died inside a call

fileVars == <<live, history, lock>>
ownVars  == <<draft, staged, wlock>>
vars == <<gateVars, fileVars, ownVars, job, raced, died>>

NoJob == [step |-> "none", file |-> None, text |-> NoFile, found |-> NoFile, latest |-> 0,
          version |-> 0, stored |-> NoFile, failed |-> FALSE]

Call(s) == running[s].call
Of(f) == {v \in 1 .. Len(history) : history[v].file = f}

\* latestVersion: the last record of the history; 0 when there is none
Latest(f) == IF Of(f) = {} THEN 0 ELSE CHOOSE v \in Of(f) : \A w \in Of(f) : w <= v

Init ==
  /\ GateInit
  /\ live \in [Files -> {NoFile} \cup Contents] /\ history = <<>> /\ lock = None
  /\ draft = Drafts
  /\ staged = [s \in Sessions |-> {}] /\ wlock = [s \in Sessions |-> FALSE]
  /\ job = [s \in Sessions |-> NoJob]
  /\ raced = FALSE /\ died = FALSE

At(s, step) == job[s].step = step
Goto(s, step) == job' = [job EXCEPT ![s].step = step]
\* a tool that does not ask, inside a turn and between its other calls
Free(s) == CanCall(s) /\ At(s, "none")
Ends(s) == Returned(s) /\ job' = [job EXCEPT ![s] = NoJob]

-----------------------------------------------------------------------------
(* The session's own tools *)

\* write_text in the workspace, under its lease
Edit(s, f, text) ==
  /\ "edit" \in Uses[s] /\ Free(s) /\ ~wlock[s]
  /\ draft' = [draft EXCEPT ![s][f] = text]
  /\ UNCHANGED <<gateVars, fileVars, staged, wlock, job, raced, died>>

\* stageSubstrateArtifactToSessionWorkspace, under its lease: a draft that is there
\* and was staged is kept, one that was not staged is not written over
Stage(s, f, overwrite) ==
  /\ "stage" \in Uses[s] /\ Free(s) /\ ~wlock[s] /\ live[f] # NoFile
  /\ draft[s][f] = NoFile \/ overwrite \/ f \in staged[s]
  /\ draft' = IF draft[s][f] = NoFile \/ overwrite THEN [draft EXCEPT ![s][f] = live[f]]
              ELSE draft
  /\ staged' = [staged EXCEPT ![s] = @ \cup {f}]
  /\ UNCHANGED <<gateVars, fileVars, wlock, job, raced, died>>

\* resources_compare_with_substrate, whose answer a caller takes along: the caller
\* asks at once, and the user answers when he likes
Comparison(f) == [version |-> Latest(f), hash |-> live[f]]

-----------------------------------------------------------------------------
(* Asking *)

\* what a caller may expect: nothing, or what it compared with
Nothing == [version |-> 0, hash |-> NoFile]

\* a file to be made, one to be replaced whatever it is, or the one compared with
Promotions(s) ==
  {[tool |-> "promote", file |-> f, overwrite |-> o, from |-> 0, version |-> e.version,
    hash |-> e.hash] : f \in Files, o \in BOOLEAN, e \in {Nothing}}
  \cup {[tool |-> "promote", file |-> f, overwrite |-> TRUE, from |-> 0,
         version |-> Comparison(f).version, hash |-> Comparison(f).hash] : f \in Files}

Restorations(s) ==
  UNION {{[tool |-> "restore", file |-> history[v].file, overwrite |-> TRUE, from |-> v,
           version |-> e.version, hash |-> e.hash] :
            e \in {Nothing, Comparison(history[v].file)}} : v \in 1 .. Len(history)}

Asked(s) == Promotions(s) \cup Restorations(s)

Running == {s \in Sessions : running[s] # None}

\* a call goes to the gate; when it passes its body begins (bounded by MaxVersions)
ToGate(s, c) ==
  /\ At(s, "none")
  /\ \/ /\ Pass(s, c)
        /\ Len(history) + Cardinality(Running) < MaxVersions
        /\ job' = [job EXCEPT ![s] =
             [NoJob EXCEPT !.step = IF c.tool = "restore" THEN "read" ELSE "version",
                           !.file = running'[s].call.file]]
        /\ raced' = (raced \/ Running # {})
     \/ (Refuse(s, c) \/ Interruption(s, c)) /\ UNCHANGED <<job, raced>>
  /\ UNCHANGED <<fileVars, ownVars, died>>

-----------------------------------------------------------------------------
(* Promote and restore *)

\* a check fails, or the outcome gate does: the tool throws, nothing is written
GiveUp(s) ==
  /\ Ends(s) /\ UNCHANGED <<fileVars, ownVars, raced, died>>

\* restore: readVersion
ReadVersion(s) ==
  /\ At(s, "read")
  /\ LET text == history[Call(s).from].content
     IN  \/ text = NoFile /\ GiveUp(s)
         \/ /\ text # NoFile
            /\ job' = [job EXCEPT ![s].step = "version", ![s].text = text]
            /\ UNCHANGED <<gateVars, fileVars, ownVars, raced, died>>

VersionExpected(s) == Call(s).version \in {0, Latest(Call(s).file)}

CheckVersion(s) ==
  /\ At(s, "version")
  /\ \/ ~VersionExpected(s) /\ GiveUp(s)
     \/ /\ VersionExpected(s)
        /\ job' = [job EXCEPT ![s].step = "content", ![s].latest = Latest(Call(s).file)]
        /\ UNCHANGED <<gateVars, fileVars, ownVars, raced, died>>

\* MUTANT of ContentExpected: a hash is only compared with a version's hash
ContentExpectedRecorded(s) ==
  Call(s).hash \in {NoFile} \cup {history[v].hash : v \in {job[s].latest} \ {0}}

ContentExpected(s) == Call(s).hash \in {NoFile, live[Call(s).file]}

\* the live hash, then enforceOutcomePromotionGate, which may refuse
CheckContent(s) ==
  /\ At(s, "content")
  /\ \/ GiveUp(s)
     \/ /\ ContentExpected(s) /\ Goto(s, "lease")
        /\ UNCHANGED <<gateVars, fileVars, ownVars, raced, died>>

Readable(text) == text # NoFile

\* promote reads its source; withResourceWriteLease: taken or busy
Lease(s) ==
  LET text == IF Call(s).tool = "promote" THEN draft[s][Call(s).file] ELSE job[s].text
  IN  /\ At(s, "lease")
      /\ \/ (lock # None \/ ~Readable(text)) /\ GiveUp(s)
         \/ /\ lock = None /\ Readable(text)
            /\ lock' = s
            /\ job' = [job EXCEPT ![s].step = "open", ![s].text = text]
            /\ UNCHANGED <<gateVars, live, history, ownVars, raced, died>>

\* MUTANT of MayOpen: a new file is opened without the exclusive flag
MayOpenAny(s) == TRUE

\* writeFileWithSecureCreate: "wx", or "r+" and truncate to overwrite
MayOpen(s) == Call(s).overwrite \/ live[Call(s).file] = NoFile

Open(s) ==
  /\ At(s, "open")
  /\ IF MayOpen(s)
       THEN /\ live' = [live EXCEPT ![Call(s).file] = Empty]
            /\ job' = [job EXCEPT ![s].step = "write", ![s].found = live[Call(s).file]]
       ELSE /\ job' = [job EXCEPT ![s].step = "release", ![s].failed = TRUE] /\ live' = live
  /\ UNCHANGED <<gateVars, history, lock, ownVars, raced, died>>

Write(s) ==
  /\ At(s, "write")
  /\ live' = [live EXCEPT ![Call(s).file] = job[s].text]
  /\ Goto(s, "release")
  /\ UNCHANGED <<gateVars, history, lock, ownVars, raced, died>>

\* MUTANT of Unlocked: an error leaves the lease behind
UnlockedDone(s) == IF job[s].failed THEN lock ELSE None

Unlocked(s) == None

AfterRelease(s) == IF Call(s).tool = "promote" THEN "reconcile" ELSE "record"

Release(s) ==
  /\ At(s, "release")
  /\ lock' = Unlocked(s)
  /\ IF job[s].failed THEN Ends(s) ELSE Goto(s, AfterRelease(s)) /\ UNCHANGED gateVars
  /\ UNCHANGED <<live, history, ownVars, raced, died>>

\* reconcileStagedSubstrateManifestAfterPromotion, under the workspace's lease: the
\* file stays promoted when that lease is busy
Reconcile(s) ==
  /\ At(s, "reconcile")
  /\ \/ wlock[s] /\ GiveUp(s)
     \/ /\ ~wlock[s] /\ Goto(s, "readback")
        /\ UNCHANGED <<gateVars, fileVars, ownVars, raced, died>>

\* the version records the file as it is read back, not what was promoted
Readback(s) ==
  /\ At(s, "readback")
  /\ job' = [job EXCEPT ![s].step = "record", ![s].text = live[Call(s).file]]
  /\ UNCHANGED <<gateVars, fileVars, ownVars, raced, died>>

\* recordPromotion: the history's line and the content file, at the same time
RecordLine(s) ==
  /\ At(s, "record") /\ job[s].version = 0
  /\ history' = Append(history, [file |-> Call(s).file, hash |-> job[s].text,
                                 content |-> job[s].stored])
  /\ job' = [job EXCEPT ![s].version = Len(history) + 1]
  /\ UNCHANGED <<gateVars, live, lock, ownVars, raced, died>>

RecordContent(s) ==
  /\ At(s, "record") /\ job[s].stored = NoFile
  /\ job' = [job EXCEPT ![s].stored = job[s].text]
  /\ history' = IF job[s].version = 0 THEN history
                ELSE [history EXCEPT ![job[s].version].content = job[s].text]
  /\ UNCHANGED <<gateVars, live, lock, ownVars, raced, died>>

\* MUTANT of RecordDone: the content file is not waited for
RecordDoneLine(s) == job[s].version # 0

RecordDone(s) == job[s].version # 0 /\ job[s].stored # NoFile

Recorded(s) == At(s, "record") /\ RecordDone(s) /\ GiveUp(s)

-----------------------------------------------------------------------------
\* The process of a session dies; a lease it holds stays, that of its workspace too
\* if it was writing there.
Crash(s) ==
  /\ "die" \in Uses[s] /\ Die(s)
  /\ \/ At(s, "none") /\ died' = died /\ wlock' = wlock
     \/ /\ ~died /\ died' = TRUE
        /\ \/ wlock' = wlock
           \/ job[s].step \in {"none", "reconcile"} /\ wlock' = [wlock EXCEPT ![s] = TRUE]
  /\ job' = [job EXCEPT ![s] = NoJob]
  /\ UNCHANGED <<fileVars, draft, staged, raced>>

Turns(s) ==
  /\ \/ \E ok \in BOOLEAN : (ok \/ "deny" \in Uses[s]) /\ Answer(s, ok)
     \/ \E interrupted \in BOOLEAN :
          (interrupted => "interrupt" \in Uses[s]) /\ BeginTurn(s, interrupted)
     \/ At(s, "none") /\ (Reply(s) \/ Fail(s))
  /\ UNCHANGED <<fileVars, ownVars, job, raced, died>>

SubstrateCall(s) ==
  \/ ReadVersion(s) \/ CheckVersion(s) \/ CheckContent(s) \/ Lease(s) \/ Open(s) \/ Write(s)
  \/ Release(s) \/ Reconcile(s) \/ Readback(s)
  \/ RecordLine(s) \/ RecordContent(s) \/ Recorded(s)

Next ==
  \E s \in Sessions :
    \/ Turns(s) \/ SubstrateCall(s) \/ Crash(s)
    \/ \E c \in Asked(s) \cap Calls : ToGate(s, c)
    \/ \E f \in Files, text \in Contents : Edit(s, f, text)
    \/ \E f \in Files, overwrite \in BOOLEAN : Stage(s, f, overwrite)

Spec == Init /\ [][Next]_vars

-----------------------------------------------------------------------------
Steps == {"none", "read", "version", "content", "lease", "open",
          "write", "release", "reconcile", "readback", "record"}

\* The types of the gate's and the substrate's state.
TypeOK ==
  /\ GateTypeOK
  /\ live \in [Files -> Stored] /\ lock \in Sessions \cup {None}
  /\ history \in Seq([file : Files, hash : Stored \ {NoFile}, content : Stored])
  /\ Len(history) <= MaxVersions
  /\ draft \in [Sessions -> [Files -> Stored]]
  /\ staged \in [Sessions -> SUBSET Files] /\ wlock \in [Sessions -> BOOLEAN]
  /\ job \in [Sessions -> [step : Steps, file : Files \cup {None}, text : Stored, found : Stored,
                           latest : Versions, version : Versions, stored : Stored,
                           failed : BOOLEAN]]
  /\ raced \in BOOLEAN /\ died \in BOOLEAN

\* The lease is held only by a call between taking and releasing it, on every way
\* out of it, unless a process died (withResourceWriteLease has no recovery).
LeaseHeldInside ==
  ~died /\ lock # None => job[lock].step \in {"open", "write", "release"}

\* A promotion that does not overwrite never replaces a file, even one that was
\* created after its checks (the exclusive open under the lease).
CreatesOnly ==
  [][\A f \in Files : live[f] \in Contents /\ live'[f] # live[f] =>
       \E s \in Sessions : lock = s /\ Call(s).file = f /\ Call(s).overwrite]_vars

\* When no confirmed calls overlap, a promotion or a restore that expects a content
\* and a version replaces exactly these, however much later it was confirmed.
ExpectedReplaced ==
  \A s \in Sessions :
    ~raced /\ job[s].step \in {"write", "release"} /\ ~job[s].failed =>
      /\ Call(s).hash \in {NoFile, job[s].found}
      /\ Call(s).version \in {0, Latest(Call(s).file)}

\* With no call under way, none ever having overlapped another and no process having
\* died in one, the last version of a file is the file and can be read back.
LatestIsLive ==
  Running = {} /\ ~raced /\ ~died =>
    \A f \in Files : Of(f) # {} =>
      history[Latest(f)].hash = live[f] /\ history[Latest(f)].content = live[f]
=============================================================================
