---------------------------- MODULE ChatCommands ----------------------------
(***************************************************************************)
(* The commands of the chat service.  A call checks its caller's authority *)
(* on the ledger as it stands (Begin), then makes its writes one after     *)
(* another; each write reads the ledger again (Prepare) and appends its    *)
(* record (Append), and anything may happen in between: other processes    *)
(* work on the same file, and the caller may die or a write may fail.      *)
(*                                                                         *)
(* A call is what is left of it: `todo` its coming writes and `rec` the    *)
(* record it is about to append; `who` names the participant a departure   *)
(* is about.  `began` and `since` are history: how long the ledger was     *)
(* when the call began, and when a departure read the roles to revoke.     *)
(***************************************************************************)
EXTENDS ChatAuthorization

CONSTANTS
  Actors,      \* processes: CLI runs, the desktop gateway, agent tools
  Slugs,       \* channel slugs
  Bodies,      \* message bodies
  Keys,        \* idempotency keys
  Ops,         \* the commands this instance uses
  Serial,      \* the commands of which no two are ever in progress together
  MaxCalls,    \* bound on the calls made
  MaxCrashes   \* bound on the calls cut short

ASSUME CommandAssumption ==
  /\ Serial \subseteq Ops /\ MaxCalls \in Nat /\ MaxCrashes \in Nat
  /\ None \notin Ops \cup Slugs \cup Bodies \cup Keys /\ Removed \notin Bodies

VARIABLES
  call,      \* each process's call
  calls,     \* calls made
  crashes    \* calls cut short

commandVars == <<log, call, calls, crashes>>

Idle == [op |-> None, who |-> None, todo |-> <<>>, rec |-> None, began |-> 0, since |-> 0]

Fresh == 0   \* the id of what is not in the ledger yet

Ready(a, op) ==
  /\ call[a] = Idle
  /\ op \in Ops /\ calls < MaxCalls
  /\ op \in Serial => \A d \in Actors : call[d].op \notin Serial

Begin(a, op, p, steps) ==
  /\ call' = [call EXCEPT ![a] =
                [Idle EXCEPT !.op = op, !.who = p, !.todo = steps, !.began = Len(log)]]
  /\ calls' = calls + 1
  /\ UNCHANGED <<log, crashes>>

\* the writes a call is made of
WriteRoom(value) == [do |-> "room", value |-> value]
Member(r, p, joined) == [do |-> "member", room |-> r, who |-> p, joined |-> joined]
Grant(p, role, r, announce) ==
  [do |-> "grant", room |-> r, who |-> p, role |-> role, announce |-> announce]
Strip(r, p) == [do |-> "strip", room |-> r, who |-> p]
RevokeOne(b) == [do |-> "revoke", binding |-> b]
Notice(r) == [do |-> "notice", room |-> r]
Post(r, t, p, key, body) ==
  [do |-> "post", room |-> r, thread |-> t, author |-> p, key |-> key, body |-> body]
Change(value) == [do |-> "change", value |-> value]
Put(value, r, t) == [do |-> "put", value |-> value, room |-> r, thread |-> t]

-----------------------------------------------------------------------------
\* Rooms and membership

NewRoom(kind, slug, ps, public) ==
  [id |-> Fresh, type |-> "room", seq |-> 0, kind |-> kind, slug |-> slug, members |-> ps,
   archived |-> FALSE, public |-> public, restricted |-> FALSE]

CreateChannel(a) ==
  Ready(a, "create") /\ \E p \in People, slug \in Slugs, public \in BOOLEAN :
  /\ ChannelsNamed(slug) = {}
  /\ Begin(a, "create", None,
       <<WriteRoom(NewRoom("channel", slug, {p}, public)),
         Grant(p, "room_manager", Fresh, FALSE)>>)

\* an order of the participants, for the grants made one after another
Listing(ps) == CHOOSE s \in [1..Cardinality(ps) -> ps] :
  \A i, j \in DOMAIN s : s[i] = s[j] => i = j

EnsureDirect(a) ==
  Ready(a, "direct") /\ \E ps \in SUBSET People : \E p \in ps :
  LET order == Listing(ps)
      GrantAt(k) == Grant(order[(k + 1) \div 2],
                          IF k % 2 = 1 THEN "participant" ELSE "room_manager", Fresh, FALSE)
  IN  /\ Cardinality(ps) >= 2
      /\ Begin(a, "direct", None,
           <<WriteRoom(NewRoom("direct", None, ps, FALSE))>> \o
           [k \in 1..(2 * Cardinality(ps)) |-> GrantAt(k)])

\* a participant already listed is answered at once
JoinReturnsAtOnce(p, room) == May(p, "room.join", room) /\ p \in room.members

\* MUTANT of JoinWrite: the others are not carried over
JoinWriteAlone(p, room) == WriteRoom([room EXCEPT !.members = {p}])

JoinWrite(p, room) == WriteRoom([room EXCEPT !.members = @ \cup {p}])

Join(a) ==
  Ready(a, "join") /\ \E p \in People, r \in Rooms : LET room == Room(r) IN
  /\ May(p, "room.join", room) /\ p \notin room.members
  /\ Begin(a, "join", None,
       <<JoinWrite(p, room), Grant(p, "participant", r, FALSE), Notice(r)>>)

Departure(p, room) ==
  <<WriteRoom([room EXCEPT !.members = @ \ {p}]), Strip(room.id, p), Notice(room.id)>>

Leave(a) ==
  Ready(a, "leave") /\ \E p \in People, r \in Rooms : LET room == Room(r) IN
  /\ May(p, "room.leave", room) /\ MayDepart(p, room)
  /\ Begin(a, "leave", p, Departure(p, room))

RemoveParticipant(a) ==
  Ready(a, "remove") /\ \E actor, p \in People, r \in Rooms : LET room == Room(r) IN
  /\ May(actor, "room.membership.manage", room)
  /\ p \in room.members /\ MayDepart(p, room)
  /\ Begin(a, "remove", p, Departure(p, room))

\* MUTANT of SettingsWrite: the lifecycle falls back to its default
SettingsWriteActive(room, public, restricted) ==
  WriteRoom([room EXCEPT !.public = public, !.restricted = restricted, !.archived = FALSE])

SettingsWrite(room, public, restricted) ==
  WriteRoom([room EXCEPT !.public = public, !.restricted = restricted])

\* the posting policy is announced, the visibility is not
UpdateSettings(a) ==
  Ready(a, "settings") /\ \E actor \in People, r \in Rooms, public, restricted \in BOOLEAN :
  LET room == Room(r) IN
  /\ May(actor, "room.settings.update", room)
  /\ <<public, restricted>> # <<room.public, room.restricted>>
  /\ Begin(a, "settings", None,
       <<SettingsWrite(room, public, restricted)>> \o
       (IF restricted # room.restricted THEN <<Notice(r)>> ELSE <<>>))

Archive(a) ==
  Ready(a, "archive") /\ \E actor \in People, r \in Rooms : LET room == Room(r) IN
  /\ May(actor, "room.archive", room) /\ ~room.archived
  /\ Begin(a, "archive", None,
       <<WriteRoom([room EXCEPT !.archived = TRUE]), Notice(r)>>)

-----------------------------------------------------------------------------
\* Grants

GrantRole(a) ==
  Ready(a, "grant") /\ \E actor, p \in People, role \in {"viewer", "participant", "room_manager"},
                   r \in Rooms :
  /\ May(actor, "room.grant.manage", Room(r))
  /\ Begin(a, "grant", None, <<Grant(p, role, r, TRUE)>>)

GrantAdmin(a) ==
  Ready(a, "admin") /\ \E actor, p \in People :
  /\ MayChat(actor)
  /\ Begin(a, "admin", None, <<Grant(p, "chat_admin", None, FALSE)>>)

BootstrapAdmin(a) ==
  Ready(a, "bootstrap") /\ \E p \in People :
  /\ \A b \in ActiveBindings : BindingRecord(b).role # "chat_admin"
  /\ Begin(a, "bootstrap", None, <<Grant(p, "chat_admin", None, FALSE)>>)

\* a binding already revoked is answered at once
RevokeBinding(a) ==
  Ready(a, "revoke") /\ \E actor \in People, b \in ActiveBindings :
  LET r == BindingRecord(b).room IN
  /\ IF r = None THEN MayChat(actor) ELSE May(actor, "room.grant.manage", Room(r))
  /\ Begin(a, "revoke", None,
       <<RevokeOne(b)>> \o (IF r = None THEN <<>> ELSE <<Notice(r)>>))

-----------------------------------------------------------------------------
\* Messages

PostMessage(a) ==
  Ready(a, "post") /\ \E p \in People, r \in Rooms, key \in Keys \cup {None}, body \in Bodies :
  \E t \in {None} \cup Messages :
  /\ May(p, "message.create", Room(r)) /\ ValidThread(r, t)
  /\ Begin(a, "post", None, <<Post(r, t, p, key, body)>>)

\* the checks edit, redact and react share
Standing(p, m, action) ==
  May(p, action, Room(log[m].room)) /\ ~Redacted(m)

EditMessage(a) ==
  Ready(a, "edit") /\ \E p \in People, m \in Messages, body \in Bodies :
  /\ Standing(p, m, "message.edit")
  /\ log[m].author = p /\ Body(m) # body
  /\ Begin(a, "edit", None,
       <<Change([type |-> "edit", seq |-> 0, message |-> m, body |-> body])>>)

RedactMessage(a) ==
  Ready(a, "redact") /\ \E p \in People, m \in Messages :
  /\ Standing(p, m, "message.redact") /\ log[m].author # System
  /\ log[m].author = p \/ Manages(p, Room(log[m].room))
  /\ Begin(a, "redact", None, <<Change([type |-> "redact", seq |-> 0, message |-> m])>>)

SetReaction(a) ==
  Ready(a, "react") /\ \E p \in People, m \in Messages, on \in BOOLEAN :
  /\ Standing(p, m, "message.react") /\ (p \in Reactions(m)) # on
  /\ Begin(a, "react", None,
       <<Change([type |-> "react", seq |-> 0, message |-> m, who |-> p, on |-> on])>>)

Latest(ns) == CHOOSE n \in ns : \A k \in ns : k <= n

LastSequence(r, t) == IF Scope(r, t) = {} THEN 0 ELSE log[LastInScope(r, t)].seq

LastRevision(r, t) ==
  Latest({0} \cup {Revision(m) : m \in Scope(r, t) \cup (IF t = None THEN {} ELSE {t})})

\* MUTANT of ReadTo: the ledger sequence is taken for the scope sequence
ReadToSequence(r, t, p) ==
  [type |-> "cursor", seq |-> 0, room |-> r, thread |-> t, who |-> p,
   scope |-> LastSequence(r, t), sequence |-> LastSequence(r, t),
   revision |-> LastRevision(r, t), saw |-> Len(log)]

\* where a reader stands who has seen the scope to its end.  `saw` is not in the
\* record: it tells which messages were there to be seen
ReadTo(r, t, p) ==
  [type |-> "cursor", seq |-> 0, room |-> r, thread |-> t, who |-> p,
   scope |-> ScopeEnd(r, t), sequence |-> LastSequence(r, t),
   revision |-> LastRevision(r, t), saw |-> Len(log)]

SameCursor(c, d) ==
  c.scope = d.scope /\ c.sequence = d.sequence /\ c.revision = d.revision

MarkRead(a) ==
  Ready(a, "mark") /\ \E p \in People, r \in Rooms : \E t \in {None} \cup Messages :
  LET next == ReadTo(r, t, p) IN
  /\ May(p, "room.read", Room(r)) /\ ValidThread(r, t)
  /\ Cursors(r, t, p) # {} => ~SameCursor(Cursor(r, t, p), next)
  /\ Begin(a, "mark", None, <<Put(next, r, t)>>)

\* watching a room (no thread) and following a thread are one record
SetAttachment(a) ==
  Ready(a, "follow") /\ \E p \in People, r \in Rooms, on \in BOOLEAN :
  \E t \in {None} \cup Messages :
  /\ May(p, "room.read", Room(r)) /\ ValidThread(r, t)
  /\ Attachments(r, t, p) # {} => Attached(r, t, p) # on
  /\ Begin(a, "follow", None,
       <<Put([type |-> "follow", seq |-> 0, room |-> r, thread |-> t, who |-> p, on |-> on],
             r, t)>>)
=============================================================================
