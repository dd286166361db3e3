----------------------------- MODULE ChatLedger -----------------------------
(***************************************************************************)
(* The shared chat ledger, chat-ledger.jsonl: one append-only file that    *)
(* every process of the company reads and appends to without a lock.       *)
(* A writer reads the file, numbers its record one above the highest       *)
(* sequence it saw and appends it, so two writers may use one sequence and *)
(* a slow one may append a sequence below the last.  Every reader sorts by *)
(* sequence, records of equal sequence in file order, and folds.           *)
(*                                                                         *)
(* The file is `log`; a room, binding or message is named by the position  *)
(* of the record that created it (a fresh id in the code).                 *)
(***************************************************************************)
EXTENDS Integers, Sequences, FiniteSets

CONSTANTS
  People,   \* participants
  System,   \* the author of system messages
  Removed,  \* the body a redacted message shows
  None      \* null: no thread, no key, no slug, and the scope of a chat-wide grant

ASSUME LedgerAssumption ==
  System \notin People /\ None \notin People \cup Nat /\ IsFiniteSet(People)

VARIABLE log

Positions == 1..Len(log)

\* listEvents sorts by sequence, and Array.sort is stable
Before(i, j) == log[i].seq < log[j].seq \/ (log[i].seq = log[j].seq /\ i < j)

LastOf(S) == CHOOSE i \in S : \A j \in S : j = i \/ Before(j, i)

\* the records of one type in the order readers see them: the last of a key wins
Records(type) == {i \in Positions : log[i].type = type}

\* MUTANT of NextSeq: numbered after the last line of the file
NextSeqOfLine == IF log = <<>> THEN 1 ELSE log[Len(log)].seq + 1

\* the sequence a writer gives the record it is about to append
NextSeq == IF log = <<>> THEN 1 ELSE log[LastOf(Positions)].seq + 1

-----------------------------------------------------------------------------
\* Rooms, memberships and grants

Rooms == {log[i].id : i \in Records("room")}

RoomRecord(r) == log[LastOf({i \in Records("room") : log[i].id = r})]

Memberships(r) == {i \in Records("member") : log[i].room = r}

Joined(r, p) ==
  LET own == {i \in Memberships(r) : log[i].who = p}
  IN  own # {} /\ log[LastOf(own)].joined

\* once a room has membership records, they and not the room's own list count
Participants(r) ==
  IF Memberships(r) = {} THEN RoomRecord(r).members ELSE {p \in People : Joined(r, p)}

\* what a reader of the room gets
Room(r) == [RoomRecord(r) EXCEPT !.members = Participants(r)]

ChannelsNamed(slug) ==
  {r \in Rooms : RoomRecord(r).kind = "channel" /\ RoomRecord(r).slug = slug}

DirectRoomsOf(ps) == {r \in Rooms : RoomRecord(r).kind = "direct" /\ Participants(r) = ps}

Bindings == {log[i].id : i \in Records("grant")}

BindingRecord(b) == log[LastOf({i \in Records("grant") : log[i].id = b})]

ActiveBindings == {b \in Bindings : BindingRecord(b).active}

\* the active bindings of one subject and scope (None: the whole chat)
BindingsOf(p, room) ==
  {b \in ActiveBindings : BindingRecord(b).who = p /\ BindingRecord(b).room = room}

-----------------------------------------------------------------------------
\* Messages

Messages == Records("message")

Scope(r, t) == {m \in Messages : log[m].room = r /\ log[m].thread = t}

\* listScopeMessages sorts by scope sequence first
LastInScope(r, t) ==
  CHOOSE m \in Scope(r, t) : \A n \in Scope(r, t) :
    \/ n = m \/ log[n].scope < log[m].scope
    \/ log[n].scope = log[m].scope /\ Before(n, m)

ScopeEnd(r, t) == IF Scope(r, t) = {} THEN 0 ELSE log[LastInScope(r, t)].scope

\* a thread's root is a mainline message of the same room
ValidThread(r, t) == t = None \/ t \in Scope(r, None)

Changes(m) ==
  {i \in Records("edit") \cup Records("redact") \cup Records("react") :
     log[i].message = m /\ Before(m, i)}

\* MUTANT of Effective: the fold does not look at redactedAt
EffectiveAll(m) == Changes(m)

\* edits and reactions that sort after a redaction are ignored
Effective(m) ==
  {i \in Changes(m) :
     \/ log[i].type = "redact"
     \/ ~\E j \in Changes(m) : log[j].type = "redact" /\ Before(j, i)}

Redacted(m) == \E i \in Changes(m) : log[i].type = "redact"

Body(m) ==
  LET last == LastOf({m} \cup {i \in Effective(m) : log[i].type # "react"})
  IN  IF log[last].type = "redact" THEN Removed ELSE log[last].body

\* who reacts: the last word of each participant, none after a redaction
Reactions(m) ==
  {p \in People :
     LET words == {i \in Effective(m) : log[i].type = "redact" \/
                                        (log[i].type = "react" /\ log[i].who = p)}
     IN  words # {} /\ log[LastOf(words)].type = "react" /\ log[LastOf(words)].on}

\* posting, editing and redacting raise a message's revision; a reaction does not
Revision(m) ==
  log[LastOf({m} \cup {i \in Effective(m) : log[i].type # "react"})].seq

\* MUTANT of WithKey: the key is compared with the last message only
WithKeyLast(r, t, key) ==
  {m \in Scope(r, t) : key # None /\ log[m].key = key /\ \A n \in Scope(r, t) : n <= m}

WithKey(r, t, key) == {m \in Scope(r, t) : key # None /\ log[m].key = key}

-----------------------------------------------------------------------------
\* Read cursors and watched scopes

Cursors(r, t, p) ==
  {i \in Records("cursor") : log[i].room = r /\ log[i].thread = t /\ log[i].who = p}

Cursor(r, t, p) == log[LastOf(Cursors(r, t, p))]

Attachments(r, t, p) ==
  {i \in Records("follow") : log[i].room = r /\ log[i].thread = t /\ log[i].who = p}

Attached(r, t, p) ==
  Attachments(r, t, p) # {} /\ log[LastOf(Attachments(r, t, p))].on
=============================================================================
