-------------------------------- MODULE Chat --------------------------------
(***************************************************************************)
(* The chat service at work: the writes of the calls of ChatCommands in    *)
(* every interleaving, from an empty ledger or one with a room in it, and  *)
(* what rooms, grants, messages and read marks promise meanwhile.          *)
(***************************************************************************)
EXTENDS ChatCommands, FiniteSetsExt

CONSTANT Ledgers   \* the ledgers to begin with

-----------------------------------------------------------------------------
\* Records and calls

Number == Nat \ {0}

\* the sequence is 0 until a record is about to be written
RoomRecords(seqs) ==
  [id : Nat, type : {"room"}, seq : seqs, kind : {"channel", "direct"},
   slug : Slugs \cup {None}, members : SUBSET People, archived : BOOLEAN,
   public : BOOLEAN, restricted : BOOLEAN]

MemberRecords == [type : {"member"}, seq : Number, room : Number, who : People, joined : BOOLEAN]

GrantRecords ==
  [id : Nat, type : {"grant"}, seq : Number, who : People, role : Roles,
   room : Number \cup {None}, active : BOOLEAN]

MessageRecords ==
  [id : Nat, type : {"message"}, seq : Number, room : Number, thread : Number \cup {None},
   author : People \cup {System}, key : Keys \cup {None}, body : Bodies \cup {None},
   scope : Number]

ChangeRecords(seqs) ==
  [type : {"edit"}, seq : seqs, message : Number, body : Bodies] \cup
  [type : {"redact"}, seq : seqs, message : Number] \cup
  [type : {"react"}, seq : seqs, message : Number, who : People, on : BOOLEAN]

MarkRecords(seqs) ==
  [type : {"cursor"}, seq : seqs, room : Number, thread : Number \cup {None}, who : People,
   scope : Nat, sequence : Nat, revision : Nat, saw : Nat] \cup
  [type : {"follow"}, seq : seqs, room : Number, thread : Number \cup {None}, who : People,
   on : BOOLEAN]

Record ==
  RoomRecords(Number) \cup MemberRecords \cup GrantRecords \cup MessageRecords \cup
  ChangeRecords(Number) \cup MarkRecords(Number)

\* a record that changes another, and what it may be appended to: a room is written
\* again under its id; a binding is only ever revoked, with a higher sequence and
\* otherwise as it was; a change has a higher sequence than its message
MayFollow(l, rec) ==
  /\ rec.type = "room" /\ rec.id # Fresh =>
       rec.id \in DOMAIN l /\ l[rec.id].type = "room" /\ l[rec.id].id = rec.id
  /\ rec.type = "grant" /\ rec.id # Fresh =>
       LET b == rec.id IN
       /\ b \in DOMAIN l /\ l[b].type = "grant" /\ l[b].id = b /\ l[b].seq < rec.seq
       /\ <<l[b].who, l[b].role, l[b].room>> = <<rec.who, rec.role, rec.room>>
       /\ ~rec.active
  /\ rec.type \in {"edit", "redact", "react"} =>
       LET m == rec.message IN
       m \in DOMAIN l /\ l[m].type = "message" /\ l[m].seq < rec.seq

\* the ledgers the service writes: what has an id got it from its position
WellFormed(l) ==
  \A i \in DOMAIN l :
    /\ l[i].type \in {"room", "grant", "message"} => l[i].id # Fresh
    /\ (l[i].type \in {"room", "grant", "message"} /\ l[i].id = i) \/ MayFollow(l, l[i])

ASSUME ChatAssumption ==
  None \notin Record /\ \A l \in Ledgers : l \in Seq(Record) /\ WellFormed(l)

\* the writes of ChatCommands; a room that is yet to be made has no number
Write ==
  [do : {"room"}, value : RoomRecords(Nat)] \cup
  [do : {"member"}, room : Nat, who : People, joined : BOOLEAN] \cup
  [do : {"grant"}, room : Nat \cup {None}, who : People, role : Roles, announce : {FALSE}] \cup
  [do : {"grant"}, room : Number, who : People, role : Roles, announce : {TRUE}] \cup
  [do : {"strip"}, room : Number, who : People] \cup
  [do : {"revoke"}, binding : Number] \cup
  [do : {"notice"}, room : Number] \cup
  [do : {"post"}, room : Number, thread : Number \cup {None}, author : People,
   key : Keys \cup {None}, body : Bodies] \cup
  [do : {"change"}, value : ChangeRecords({0})] \cup
  [do : {"put"}, value : MarkRecords({0}), room : Number, thread : Number \cup {None}]

Calls ==
  [op : Ops \cup {None}, who : People \cup {None}, todo : Seq(Write),
   rec : Record \cup {None}, began : Nat, since : Nat]

-----------------------------------------------------------------------------

Init ==
  /\ log \in Ledgers
  /\ call = [a \in Actors |-> Idle]
  /\ calls = 0 /\ crashes = 0

\* the call goes on with rec to append and todo to do, or is over
Proceed(a, rec, todo) ==
  call' = [call EXCEPT ![a] =
    IF rec = None /\ todo = <<>> THEN Idle ELSE [@ EXCEPT !.rec = rec, !.todo = todo]]

\* the rest of the call speaks of the room it has just created or found
About(r, steps) ==
  [k \in DOMAIN steps |->
     IF "room" \in DOMAIN steps[k] /\ steps[k].room = Fresh
     THEN [steps[k] EXCEPT !.room = r] ELSE steps[k]]

\* syncMembershipRecords
Sync(r, previous, next) ==
  LET joined == Listing(next \ previous)
      left   == Listing(previous \ next)
  IN  [k \in DOMAIN joined |-> Member(r, joined[k], TRUE)] \o
      [k \in DOMAIN left |-> Member(r, left[k], FALSE)]

-----------------------------------------------------------------------------
\* Prepare: the reads of one write, up to the sequence of its record

Step(a, do) == call[a].rec = None /\ call[a].todo # <<>> /\ Head(call[a].todo).do = do

Now(a) == Head(call[a].todo)
Rest(a) == Tail(call[a].todo)

\* ensureConversation: a room found is taken as it is, whoever made it
OpenRoom(a) ==
  LET value == Now(a).value
      found == IF value.kind = "channel" THEN ChannelsNamed(value.slug)
                                         ELSE DirectRoomsOf(value.members)
  IN  /\ Step(a, "room") /\ value.id = Fresh
      /\ IF found # {} THEN Proceed(a, None, About(Min(found), Rest(a)))
         ELSE Proceed(a, [value EXCEPT !.seq = NextSeq],
                      Sync(Fresh, {}, value.members) \o Rest(a))

\* updateConversation writes the room as its caller read it, and the difference
\* between the members it has now and those the caller wants.  The participants
\* of a direct room are immutable: the call fails
UpdateRoom(a) ==
  LET value    == Now(a).value
      previous == Participants(value.id)
  IN  /\ Step(a, "room") /\ value.id # Fresh
      /\ IF value.kind = "direct" /\ value.members # previous
         THEN call' = [call EXCEPT ![a] = Idle]
         ELSE Proceed(a, [value EXCEPT !.seq = NextSeq],
                      Sync(value.id, previous, value.members) \o Rest(a))

UpsertMember(a) ==
  /\ Step(a, "member")
  /\ Proceed(a, [type |-> "member", seq |-> NextSeq, room |-> Now(a).room,
                 who |-> Now(a).who, joined |-> Now(a).joined], Rest(a))

\* ensureGrantBinding: one active binding per subject, role and scope, if no one
\* else is making it at the same time
EnsureGrant(a) ==
  LET g == Now(a)
      found == {b \in BindingsOf(g.who, g.room) : BindingRecord(b).role = g.role}
  IN  /\ Step(a, "grant")
      /\ IF found # {} THEN Proceed(a, None, Rest(a))
         ELSE Proceed(a, [id |-> Fresh, type |-> "grant", seq |-> NextSeq, who |-> g.who,
                          role |-> g.role, room |-> g.room, active |-> TRUE],
                      (IF g.announce THEN <<Notice(g.room)>> ELSE <<>>) \o Rest(a))

\* MUTANT of Doomed: one binding of each role, as if there were no duplicates
DoomedOnce(p, r) ==
  {b \in BindingsOf(p, r) :
     /\ BindingRecord(b).role \in {"participant", "room_manager"}
     /\ \A c \in BindingsOf(p, r) : BindingRecord(c).role = BindingRecord(b).role => b <= c}

\* the bindings a departure ends
Doomed(p, r) ==
  {b \in BindingsOf(p, r) : BindingRecord(b).role \in {"participant", "room_manager"}}

\* revokeConversationRoles; the viewer's grant stays
StripRoles(a) ==
  LET doomed == Listing(Doomed(Now(a).who, Now(a).room))
      todo   == [k \in DOMAIN doomed |-> RevokeOne(doomed[k])] \o Rest(a)
  IN  /\ Step(a, "strip")
      /\ call' = [call EXCEPT ![a].todo = todo, ![a].since = Len(log)]

\* the binding is written again under its id, revoked
RevokeGrant(a) ==
  /\ Step(a, "revoke")
  /\ Proceed(a, [BindingRecord(Now(a).binding) EXCEPT !.active = FALSE, !.seq = NextSeq],
             Rest(a))

Message(r, t, author, key, body) ==
  [id |-> Fresh, type |-> "message", seq |-> NextSeq, room |-> r, thread |-> t,
   author |-> author, key |-> key, body |-> body, scope |-> ScopeEnd(r, t) + 1]

SystemMessage(a) ==
  /\ Step(a, "notice")
  /\ Proceed(a, Message(Now(a).room, None, System, None, None), Rest(a))

\* a message with this key in this scope is the answer
AppendMessage(a) ==
  LET m == Now(a)
  IN  /\ Step(a, "post")
      /\ IF WithKey(m.room, m.thread, m.key) # {} THEN Proceed(a, None, Rest(a))
         ELSE Proceed(a, Message(m.room, m.thread, m.author, m.key, m.body), Rest(a))

ChangeMessage(a) ==
  /\ Step(a, "change") /\ Now(a).value.message \in Messages
  /\ Proceed(a, [Now(a).value EXCEPT !.seq = NextSeq], Rest(a))

\* upsertCursor and upsertConversationAttachment
UpsertMark(a) ==
  /\ Step(a, "put") /\ ValidThread(Now(a).room, Now(a).thread)
  /\ Proceed(a, [Now(a).value EXCEPT !.seq = NextSeq], Rest(a))

Prepare(a) ==
  /\ \/ OpenRoom(a) \/ UpdateRoom(a) \/ UpsertMember(a)
     \/ EnsureGrant(a) \/ StripRoles(a) \/ RevokeGrant(a)
     \/ SystemMessage(a) \/ AppendMessage(a) \/ ChangeMessage(a) \/ UpsertMark(a)
  /\ UNCHANGED <<log, calls, crashes>>

\* appendJsonl: one line, never torn; what is new gets its id
AppendRecord(a) ==
  LET rec == call[a].rec
      id  == Len(log) + 1
      new == "id" \in DOMAIN rec /\ rec.id = Fresh
      isRoom == new /\ rec.type = "room"
  IN  /\ rec # None
      /\ log' = Append(log, IF new THEN [rec EXCEPT !.id = id] ELSE rec)
      /\ Proceed(a, None, IF isRoom THEN About(id, call[a].todo) ELSE call[a].todo)
      /\ UNCHANGED <<calls, crashes>>

\* the process dies or a write fails: what was written stays, the rest is never done
Die(a) ==
  /\ call[a] # Idle /\ crashes < MaxCrashes
  /\ call' = [call EXCEPT ![a] = Idle]
  /\ crashes' = crashes + 1
  /\ UNCHANGED <<log, calls>>

RoomCommand(a) ==
  \/ CreateChannel(a) \/ EnsureDirect(a) \/ Join(a) \/ Leave(a)
  \/ RemoveParticipant(a) \/ UpdateSettings(a) \/ Archive(a)

GrantCommand(a) == GrantRole(a) \/ GrantAdmin(a) \/ BootstrapAdmin(a) \/ RevokeBinding(a)

MessageCommand(a) ==
  \/ PostMessage(a) \/ EditMessage(a) \/ RedactMessage(a)
  \/ SetReaction(a) \/ MarkRead(a) \/ SetAttachment(a)

Next == \E a \in Actors :
  \/ RoomCommand(a) \/ GrantCommand(a) \/ MessageCommand(a)
  \/ Prepare(a) \/ AppendRecord(a) \/ Die(a)

Spec == Init /\ [][Next]_commandVars

-----------------------------------------------------------------------------

\* every line of the ledger is a record readers accept, and every number is one
\* that a writer may use
TypeOK ==
  /\ log \in Seq(Record) /\ call \in [Actors -> Calls]
  /\ calls \in 0..MaxCalls /\ crashes \in 0..MaxCrashes

-----------------------------------------------------------------------------
\* Rooms

Departing(p) == \E a \in Actors : call[a].op \in {"leave", "remove"} /\ call[a].who = p

\* Nobody is put out of a room by a call about something else: a membership ends
\* only in a leave or a removal of that participant.  A call writes the room and
\* its members as it read them some writes ago, so this needs the calls that write
\* rooms not to overlap.
JoinKept ==
  [][\A r \in Rooms, p \in People :
       Joined(r, p) /\ ~Joined(r, p)' => Departing(p)]_log

\* An archived room stays archived and takes no new participant, whatever call on
\* the room was begun before or comes after.
ArchivedForGood ==
  [][\A r \in Rooms : RoomRecord(r).archived =>
       /\ RoomRecord(r)'.archived
       /\ \A p \in People : Joined(r, p)' => Joined(r, p)]_log

\* p is a joined manager of r by a binding that was there at line n
ManagedSince(p, r, n) ==
  Joined(r, p) /\ \E b \in BindingsOf(p, r) \cup BindingsOf(p, None) :
                    b <= n /\ "room.grant.manage" \in Allowed(BindingRecord(b).role)

\* A room with a joined manager who was one when a departure began is not left by
\* that departure with participants of whom none manages it: two managers cannot
\* both go on the strength of the other.  (One who becomes a manager while leaving
\* may be the only one, and go.)
ManagerKept ==
  [][\A a \in Actors, r \in Rooms :
       /\ call[a].op \in {"leave", "remove"} /\ call[a].rec # None /\ call'[a] # call[a]
       /\ {p \in People : Joined(r, p)'} # {}
       /\ \E p \in People : ManagedSince(p, r, call[a].began)
       => JoinedManagers(Room(r))' # {}]_log

\* When a departure has revoked what it set out to revoke, the one who left holds
\* no participant or manager binding of the room that was there before, duplicates
\* made by concurrent grants included.
RemovedHasNoRole ==
  \A a \in Actors :
    call[a].op \in {"leave", "remove"} /\ call[a].since > 0 /\ Len(call[a].todo) = 1
      /\ call[a].rec = None /\ Now(a).do = "notice"
    => \A b \in Doomed(call[a].who, Now(a).room) : b > call[a].since

\* A binding once revoked is never active again, whatever sequences the writers
\* that ran meanwhile have used.
RevocationSticks ==
  \A i \in Records("grant") : ~log[i].active => log[i].id \notin ActiveBindings

\* The command line and the desktop repeat a join that did not come through.  When
\* joinConversation would answer at once because the participant is listed, the
\* join has been made in full: the participant has a role in the room, unless one
\* was revoked.
JoinRetryDone ==
  (\A a \in Actors : call[a] = Idle) =>
    \A r \in Rooms, p \in People :
      JoinReturnsAtOnce(p, Room(r)) =>
        \/ RolesIn(p, r) # {}
        \/ \E b \in Bindings : BindingRecord(b).who = p /\ BindingRecord(b).room = r

-----------------------------------------------------------------------------
\* Messages

\* A redacted message never shows a body or a reaction again, however many edits
\* and reactions were on their way when it was redacted.
RedactionSticks ==
  \A i \in Records("redact") :
    Body(log[i].message) = Removed /\ Reactions(log[i].message) = {}

\* A post repeated with its key, after a crash or a lost answer, is not made twice
\* in its mainline or thread, as long as the repetition waits for the first to end.
PostedOnce ==
  \A m, n \in Messages :
    /\ log[m].key # None /\ log[m].key = log[n].key
    /\ log[m].room = log[n].room /\ log[m].thread = log[n].thread
    => m = n
=============================================================================
