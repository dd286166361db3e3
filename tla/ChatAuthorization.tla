-------------------------- MODULE ChatAuthorization --------------------------
(***************************************************************************)
(* Who may do what: the roles, how the active grant bindings of a person   *)
(* make up their roles in a room, and the decision itself.                 *)
(***************************************************************************)
EXTENDS ChatLedger

Roles == {"viewer", "participant", "room_manager", "chat_admin"}

ParticipantActions ==
  {"room.read", "room.join", "room.leave",
   "message.create", "message.edit", "message.redact", "message.react"}

ManagerActions ==
  ParticipantActions \cup
  {"message.mass_mention", "room.settings.update", "room.archive",
   "room.membership.manage", "room.grant.manage"}

Allowed(role) ==
  CASE role = "viewer"       -> {"room.read"}
    [] role = "participant"  -> ParticipantActions
    [] role = "room_manager" -> ManagerActions
    [] role = "chat_admin"   -> ManagerActions \cup {"chat.grant.manage"}

\* chat-wide bindings count in every room
RolesIn(p, r) == {BindingRecord(b).role : b \in BindingsOf(p, r) \cup BindingsOf(p, None)}

Grants(roles, action) == \E role \in roles : action \in Allowed(role)

MayChat(p) == Grants({BindingRecord(b).role : b \in BindingsOf(p, None)}, "chat.grant.manage")

\* the actions that need a joined actor and a room that is not archived
InRoom == {"message.create", "message.edit", "message.redact",
           "message.react", "message.mass_mention"}

\* evaluateConversationAction, on the room as its caller read it
May(p, action, room) ==
  LET roles == RolesIn(p, room.id)
  IN  CASE action = "room.read" -> room.public \/ roles # {}
        [] action = "room.join" -> ~room.archived /\ (room.public \/ Grants(roles, action))
        [] OTHER ->
             /\ Grants(roles, action)
             /\ action \in InRoom \cup {"room.leave"} => Joined(room.id, p)
             /\ action \in InRoom => ~room.archived
             /\ action = "message.create" /\ room.restricted =>
                  roles \cap {"room_manager", "chat_admin"} # {}

\* hasManagerAuthority
Manages(p, room) == May(p, "room.grant.manage", room)

JoinedManagers(room) == {p \in People : Joined(room.id, p) /\ Manages(p, room)}

\* MUTANT of MayDepart: the one who goes is counted among those who stay
MayDepartSelf(p, room) ==
  \/ ~Joined(room.id, p)
  \/ room.members \ {p} = {}
  \/ JoinedManagers(room) # {}
  \/ ~Manages(p, room)
\* the guard of removeParticipantFromConversation: the last joined manager may
\* only go when nobody is left behind
MayDepart(p, room) ==
  \/ ~Joined(room.id, p)
  \/ room.members \ {p} = {}
  \/ JoinedManagers(room) \ {p} # {}
  \/ ~Manages(p, room)

=============================================================================
