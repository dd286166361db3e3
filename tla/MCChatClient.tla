---------------------------- MODULE MCChatClient ----------------------------
(* One channel with ann in it, who reads here and writes elsewhere.          *)
EXTENDS ChatClient
CONSTANTS a1, ann, bob, general, hello, bye
MCRoom == [id |-> 1, type |-> "room", seq |-> 1, kind |-> "channel", slug |-> general,
           members |-> {ann}, archived |-> FALSE, public |-> TRUE, restricted |-> FALSE]
MCGrant(n, p, role) == [id |-> n, type |-> "grant", seq |-> n, who |-> p, role |-> role,
                        room |-> 1, active |-> TRUE]
\* createChannel by ann
MCFounded ==
  <<MCRoom, [type |-> "member", seq |-> 2, room |-> 1, who |-> ann, joined |-> TRUE],
    MCGrant(3, ann, "room_manager")>>
MCLedgers == {MCFounded}
=============================================================================
