----------------------------- MODULE ChatViews ------------------------------
(***************************************************************************)
(* What a participant is shown of the ledger: the unread counts of the     *)
(* rooms, the inbox and the followed threads                               *)
(* (src/src/chat/projections/projections.ts).  A view is computed anew     *)
(* from the ledger whenever it is read.  No command makes a room that      *)
(* continues another, so a room's lineage is the room itself.              *)
(***************************************************************************)
EXTENDS Chat

CONSTANT Mentioned   \* whom a body mentions

ASSUME ViewAssumption == Mentioned \in [Bodies -> SUBSET People]

\* an edit mentions anew; system messages and redacted ones mention nobody
Mentions(m) == IF Body(m) \in Bodies THEN Mentioned[Body(m)] ELSE {}

Unread(p, r, t) ==
  {m \in Scope(r, t) : log[m].author \notin {System, p} /\
     (Cursors(r, t, p) = {} \/ log[m].scope > Cursor(r, t, p).scope)}

\* what a room's unread count counts: its mainline, if the participant is in it
UnreadMainline(p, r) == IF Joined(r, p) THEN Unread(p, r, None) ELSE {}

-----------------------------------------------------------------------------
\* The inbox

\* unread messages of channels that mention the participant, mainline or thread
MentionEntries(p) ==
  {m \in Messages :
     LET r == log[m].room
     IN  /\ RoomRecord(r).kind = "channel" /\ Joined(r, p) /\ p \in Mentions(m)
         /\ m \in Unread(p, r, log[m].thread)}

\* the last unread message of each direct room's mainline
DirectEntries(p) ==
  {LastOf(UnreadMainline(p, r)) :
     r \in {d \in Rooms : RoomRecord(d).kind = "direct" /\ UnreadMainline(p, d) # {}}}

-----------------------------------------------------------------------------
\* Followed threads

Replies(m) == Scope(log[m].room, m)

\* the participant's last word on the thread counts; without one, whoever began it,
\* has replied or is mentioned in a reply follows it
Follows(p, m) ==
  LET r == log[m].room
  IN  /\ Joined(r, p) /\ Replies(m) # {}
      /\ IF Attachments(r, m, p) # {} THEN Attached(r, m, p)
         ELSE log[m].author = p \/ \E n \in Replies(m) : log[n].author = p \/ p \in Mentions(n)

FollowedThreads(p) == {m \in Messages : log[m].thread = None /\ Follows(p, m)}

UnreadReplies(p, m) == Unread(p, log[m].room, m)

-----------------------------------------------------------------------------

\* the message was not there when p last marked its scope read, if ever
Unseen(p, m) ==
  LET r == log[m].room
      t == log[m].thread
  IN  Cursors(r, t, p) = {} \/ m > Cursor(r, t, p).saw

\* one of the views calls p's attention to the message
Noticed(p, m) ==
  LET t == log[m].thread
  IN  \/ m \in UnreadMainline(p, log[m].room)
      \/ t # None /\ t \in FollowedThreads(p) /\ m \in UnreadReplies(p, t)
      \/ m \in MentionEntries(p) \/ m \in DirectEntries(p)

\* p has turned the thread off, or has nothing to do with it
Ignored(p, m) ==
  LET r == log[m].room
      t == log[m].thread
  IN  /\ t # None /\ ~Follows(p, t)
      /\ p \in Mentions(m) => RoomRecord(r).kind = "direct" /\ Attachments(r, t, p) # {}

\* No message is lost to a reader and none comes back: what others wrote in a room
\* one is in is called attention to, by a count, an inbox entry or a followed
\* thread, until one marks its scope read at a moment when the message is in the
\* ledger, and from then on by none of them.  Posts that overlap may share a scope
\* sequence, so this needs them not to.
AttentionKept ==
  \A p \in People, m \in Messages :
    log[m].author \notin {System, p} /\ Joined(log[m].room, p) =>
      IF Unseen(p, m) THEN Noticed(p, m) \/ Ignored(p, m) ELSE ~Noticed(p, m)
=============================================================================
