------------------------------- MODULE MCChat -------------------------------
(* Two processes, three participants; either no room yet or one channel that *)
(* ann manages and bob has joined.                                           *)
EXTENDS ChatViews, TLC
CONSTANTS a1, a2, ann, bob, cat, general, hello, quiet, k1
MCActors == {a1, a2}
MCTwo == {ann, bob}
MCThree == {ann, bob, cat}
Processes == Permutations(MCActors)

MCRoom == [id |-> 1, type |-> "room", seq |-> 1, kind |-> "channel", slug |-> general,
           members |-> {ann}, archived |-> FALSE, public |-> TRUE, restricted |-> FALSE]
MCMember(n, p) == [type |-> "member", seq |-> n, room |-> 1, who |-> p, joined |-> TRUE]
MCGrant(n, p, role) == [id |-> n, type |-> "grant", seq |-> n, who |-> p, role |-> role,
                        room |-> 1, active |-> TRUE]
MCNote(n, s) == [id |-> n, type |-> "message", seq |-> n, room |-> 1, thread |-> None,
              author |-> System, key |-> None, body |-> None, scope |-> s]

\* createChannel by ann, joinConversation by bob
MCFounded ==
  <<MCRoom, MCMember(2, ann), MCGrant(3, ann, "room_manager"),
    [MCRoom EXCEPT !.members = {ann, bob}, !.seq = 4], MCMember(5, bob),
    MCGrant(6, bob, "participant"), MCNote(7, 1)>>

\* then cat joins while two processes, both at sequence 8, are making bob a
\* manager: the binding is there twice, the last line carries a sequence far below
\* the highest, and the second process died before its notice
MCSettled == MCFounded \o
  <<[MCRoom EXCEPT !.members = {ann, bob, cat}, !.seq = 8], MCMember(9, cat),
    MCGrant(10, cat, "participant"), MCNote(11, 2),
    [MCGrant(12, bob, "room_manager") EXCEPT !.seq = 8], [MCNote(13, 3) EXCEPT !.seq = 12],
    [MCGrant(14, bob, "room_manager") EXCEPT !.seq = 8]>>

MCLedgers == {<<>>, MCSettled}

\* bob has posted with a key, and may not know it
MCTalk == MCFounded \o
  <<[id |-> 8, type |-> "message", seq |-> 8, room |-> 1, thread |-> None, author |-> bob,
     key |-> k1, body |-> quiet, scope |-> 2]>>

\* ensureDirectConversation by ann, who has then written to bob
MCPair ==
  <<[MCRoom EXCEPT !.kind = "direct", !.slug = None, !.members = {ann, bob}, !.public = FALSE],
    MCMember(2, ann), MCMember(3, bob), MCGrant(4, ann, "participant"),
    MCGrant(5, ann, "room_manager"), MCGrant(6, bob, "participant"),
    MCGrant(7, bob, "room_manager"),
    [id |-> 8, type |-> "message", seq |-> 8, room |-> 1, thread |-> None, author |-> ann,
     key |-> None, body |-> hello, scope |-> 1]>>
MCTalks == {MCTalk, MCPair}
\* hello mentions everybody
MCMentioned == [b \in Bodies |-> IF b = hello THEN MCTwo ELSE {}]
MCOneRoom == {MCFounded}

MCGrantOps == {"grant", "admin", "bootstrap", "revoke"}
MCRoomOps == {"create", "direct", "join", "leave", "remove", "settings", "archive"} \cup MCGrantOps
MCMessageOps == {"post", "edit", "redact", "react", "mark", "follow"}
MCPosting == {"post", "react", "follow"}
MCRewriting == MCRoomOps \ {"grant", "admin", "bootstrap"}
=============================================================================
