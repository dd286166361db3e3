----------------------------- MODULE Chat_proofs -----------------------------
(***************************************************************************)
(* Proofs about the chat service, for any number of processes, people,     *)
(* rooms and calls, and any ledger the service may have written before.    *)
(*                                                                         *)
(* What a writer read may be old when it appends.  For redactions,         *)
(* revocations and grants it suffices that a record that changes another   *)
(* was numbered above it and that readers go by the numbers; for keys,     *)
(* rooms, notices and events the calls concerned must not overlap, and     *)
(* each theorem says which.                                                *)
(***************************************************************************)
EXTENDS ChatViews, ChatClient, SequenceTheorems, FiniteSetTheorems, WellFoundedInduction, TLAPS

-----------------------------------------------------------------------------
\* The invariant

\* only the room that is about to be made has no number
Settled(todo) ==
  \A k \in DOMAIN todo : todo[k].do \in {"member", "grant"} => todo[k].room # Fresh

FreshFirst(c) ==
  \/ Settled(c.todo)
  \/ c.rec # None /\ c.rec.type = "room" /\ c.rec.id = Fresh
  \/ c.rec = None /\ c.todo # <<>> /\ c.todo[1].do = "room" /\ c.todo[1].value.id = Fresh

\* b is the line that made a binding
IsBinding(l, b) == b \in DOMAIN l /\ l[b].type = "grant" /\ l[b].id = b

RevokesBindings(l, c) ==
  \A k \in DOMAIN c.todo : c.todo[k].do = "revoke" => IsBinding(l, c.todo[k].binding)

\* r is the line that made a room
IsRoom(l, r) == r \in DOMAIN l /\ l[r].type = "room" /\ l[r].id = r

RewritesRooms(l, c) ==
  \A k \in DOMAIN c.todo :
    c.todo[k].do = "room" /\ c.todo[k].value.id # Fresh => IsRoom(l, c.todo[k].value.id)

\* a key comes from a post
KeysFromPosts(c) ==
  \/ c.op = "post"
  \/ /\ \A k \in DOMAIN c.todo : c.todo[k].do # "post"
     /\ c.rec # None /\ c.rec.type = "message" => c.rec.key = None

\* a departure ends with its revocations and its notice
StripsLast(c) ==
  \A k \in DOMAIN c.todo : c.todo[k].do = "strip" =>
    /\ c.since = 0 /\ c.todo[k].who = c.who
    /\ Len(c.todo) = k + 1 /\ c.todo[k + 1].do = "notice" /\ c.todo[k + 1].room = c.todo[k].room

\* b is a binding that a departure of p from r ends: nobody has revoked it
Holds(l, b, p, r) ==
  /\ IsBinding(l, b) /\ l[b].active /\ l[b].who = p /\ l[b].room = r
  /\ l[b].role \in {"participant", "room_manager"}
  /\ \A i \in DOMAIN l : l[i].type = "grant" /\ l[i].id = b => i = b

\* what the departure found and has not yet revoked it is about to revoke
Revoking(c, b) ==
  \/ \E k \in DOMAIN c.todo : c.todo[k].do = "revoke" /\ c.todo[k].binding = b
  \/ c.rec # None /\ c.rec.type = "grant" /\ c.rec.id = b

StripsAll(l, c) ==
  c.since > 0 =>
    /\ c.since <= Len(l)
    /\ \A k \in DOMAIN c.todo : k < Len(c.todo) => c.todo[k].do = "revoke"
    /\ c.todo = <<>> => c.rec # None /\ c.rec.type = "message"
    /\ c.todo # <<>> =>
         /\ c.todo[Len(c.todo)].do = "notice"
         /\ c.rec # None => c.rec.type = "grant" /\ c.rec.id # Fresh
         /\ \A b \in 1..c.since : Holds(l, b, c.who, c.todo[Len(c.todo)].room) => Revoking(c, b)

CallFits(l, c) ==
  /\ c.rec # None => MayFollow(l, c.rec)
  /\ FreshFirst(c) /\ RevokesBindings(l, c) /\ RewritesRooms(l, c)
  /\ KeysFromPosts(c) /\ StripsLast(c) /\ StripsAll(l, c)

LedgerInv == TypeOK /\ WellFormed(log) /\ \A a \in Actors : CallFits(log, call[a])

\* Calls of which no two may be in progress are not, and so the key that a post is about
\* to write is nobody's
OneAtATime == \A a, d \in Actors : call[a].op \in Serial /\ call[d].op \in Serial => a = d

KeysApart(l) ==
  \A m, n \in DOMAIN l :
    /\ l[m].type = "message" /\ l[n].type = "message"
    /\ l[m].key # None /\ l[m].key = l[n].key
    /\ l[m].room = l[n].room /\ l[m].thread = l[n].thread
    => m = n

KeyUnused(l, rec) ==
  rec # None /\ rec.type = "message" /\ rec.key # None =>
    \A m \in DOMAIN l : l[m].type = "message" =>
      ~(l[m].key = rec.key /\ l[m].room = rec.room /\ l[m].thread = rec.thread)

PostInv == OneAtATime /\ KeysApart(log) /\ \A a \in Actors : KeyUnused(log, call[a].rec)

-----------------------------------------------------------------------------
\* Rooms.  What ChatLedger says of `log`, of any ledger l

Earlier(l, i, j) == l[i].seq < l[j].seq \/ (l[i].seq = l[j].seq /\ i < j)

LastAt(l, S) == CHOOSE i \in S : \A j \in S : j = i \/ Earlier(l, j, i)

RoomLines(l, r) == {i \in DOMAIN l : l[i].type = "room" /\ l[i].id = r}

RoomIn(l, r) == l[LastAt(l, RoomLines(l, r))]

MemberLines(l, r, p) ==
  {i \in DOMAIN l : l[i].type = "member" /\ l[i].room = r /\ l[i].who = p}

JoinedIn(l, r, p) ==
  MemberLines(l, r, p) # {} /\ l[LastAt(l, MemberLines(l, r, p))].joined

ParticipantsIn(l, r) ==
  IF \A i \in DOMAIN l : ~(l[i].type = "member" /\ l[i].room = r)
  THEN RoomIn(l, r).members ELSE {p \in People : JoinedIn(l, r, p)}

\* the commands that write rooms, and those that take something away
RoomOps == {"create", "direct", "join", "leave", "remove", "settings", "archive"}
DepartureOps == {"leave", "remove"}

Leaver(c) == IF c.op \in DepartureOps THEN {c.who} ELSE {}

Writes(c, kinds) ==
  \/ \E k \in DOMAIN c.todo : c.todo[k].do \in kinds
  \/ c.rec # None /\ c.rec.type \in kinds

\* v is the room as a call is about to write it: still archived if it is, and without
\* newcomers then; only the one who leaves is missing
RewriteFits(l, c, v) ==
  /\ RoomIn(l, v.id).archived => v.archived
  /\ v.archived => v.members \subseteq ParticipantsIn(l, v.id)
  /\ ParticipantsIn(l, v.id) \ v.members \subseteq Leaver(c)

RoomWriteFits(l, c, k) ==
  LET v == c.todo[k].value IN
  /\ k = 1 /\ c.rec = None /\ \A j \in DOMAIN c.todo : c.todo[j].do # "member"
  /\ IF v.id = Fresh THEN ~v.archived ELSE RewriteFits(l, c, v)

\* a newcomer finds r open, also when the room has been written
OpenFor(l, c, r) ==
  /\ IsRoom(l, r) /\ ~RoomIn(l, r).archived
  /\ c.rec # None /\ c.rec.type = "room" /\ c.rec.id = r => ~c.rec.archived

MemberWriteFits(l, c, w) ==
  IF w.joined THEN w.room # Fresh => OpenFor(l, c, w.room) ELSE Leaver(c) = {w.who}

RoomFits(l, c) ==
  /\ Writes(c, {"room", "member"}) => c.op \in RoomOps \cap Ops
  /\ \A k \in DOMAIN c.todo :
       /\ c.todo[k].do = "room" => RoomWriteFits(l, c, k)
       /\ c.todo[k].do = "member" => MemberWriteFits(l, c, c.todo[k])
  /\ c.rec # None /\ c.rec.type = "room" =>
       IF c.rec.id = Fresh THEN ~c.rec.archived ELSE RoomIn(l, c.rec.id).archived => c.rec.archived
  /\ c.rec # None /\ c.rec.type = "member" =>
       IF c.rec.joined THEN OpenFor(l, c, c.rec.room) ELSE Leaver(c) = {c.rec.who}

RoomInv == OneAtATime /\ \A a \in Actors : RoomFits(log, call[a])

\* b is an active binding
Live(l, b) ==
  /\ IsBinding(l, b) /\ l[b].active
  /\ \A i \in DOMAIN l : l[i].type = "grant" /\ l[i].id = b => i = b

\* by which p manages r
ManagesBy(l, b, p, r) ==
  /\ Live(l, b) /\ l[b].who = p /\ l[b].room \in {r, None}
  /\ l[b].role \in {"room_manager", "chat_admin"}

ManagerIn(l, p, r) == JoinedIn(l, r, p) /\ \E b \in DOMAIN l : ManagesBy(l, b, p, r)

\* what the guard of a departure saw, as far as it is still so: the one who leaves is
\* gone already, is not the only manager, leaves nobody behind, or was no manager
MayBeMissed(l, c, r) ==
  \/ ~JoinedIn(l, r, c.who)
  \/ \E q \in People : q # c.who /\ ManagerIn(l, q, r)
  \/ \A q \in People : JoinedIn(l, r, q) => q = c.who
  \/ \A b \in 1..c.began : ~ManagesBy(l, b, c.who, r)

\* a binding is revoked when its holder has left its room
HolderLeft(l, c, b) ==
  l[b].who = c.who /\ l[b].room # None /\ ~JoinedIn(l, l[b].room, c.who)

Leaving == DepartureOps \cap Ops
Revokers == (DepartureOps \cup {"revoke"}) \cap Ops

\* what is left to do when the one who leaves has left
OnlyRevokes(c) == \A j \in DOMAIN c.todo : c.todo[j].do \in {"revoke", "notice"}

DepartureWriteFits(l, c, k) ==
  LET w == c.todo[k] IN
  /\ w.do \in {"room", "member", "strip", "revoke", "notice"}
  /\ w.do = "room" =>
       /\ w.value.id # Fresh /\ c.who \notin w.value.members
       /\ w.value.members \subseteq ParticipantsIn(l, w.value.id)
       /\ MayBeMissed(l, c, w.value.id)
  /\ w.do = "member" => ~w.joined /\ MayBeMissed(l, c, w.room)
  /\ w.do = "strip" =>
       \/ ~JoinedIn(l, w.room, c.who)
       \/ \E j \in DOMAIN c.todo :
            \/ c.todo[j].do = "room" /\ c.todo[j].value.id = w.room
            \/ c.todo[j].do = "member" /\ c.todo[j].room = w.room
       \/ c.rec # None /\ c.rec.type = "member" /\ c.rec.room = w.room
  /\ w.do = "revoke" => HolderLeft(l, c, w.binding) /\ OnlyRevokes(c)

DepartureFits(l, c) ==
  /\ c.op \in Leaving =>
       /\ c.began <= Len(l)
       /\ \A k \in DOMAIN c.todo : DepartureWriteFits(l, c, k)
       /\ c.rec # None /\ c.rec.type = "room" => c.rec.id # Fresh
       /\ c.rec # None /\ c.rec.type = "member" =>
            /\ ~c.rec.joined /\ MayBeMissed(l, c, c.rec.room)
            /\ \A i \in MemberLines(l, c.rec.room, c.who) : l[i].seq < c.rec.seq
       /\ c.rec # None /\ c.rec.type = "grant" =>
            c.rec.id # Fresh /\ HolderLeft(l, c, c.rec.id) /\ OnlyRevokes(c)
  /\ c.op \notin Revokers =>
       /\ \A k \in DOMAIN c.todo : c.todo[k].do \notin {"strip", "revoke"}
       /\ c.rec # None /\ c.rec.type = "grant" => c.rec.id = Fresh

DepartureInv == \A a \in Actors : DepartureFits(log, call[a])

-----------------------------------------------------------------------------
\* The order in which records are read

\* A nonempty set of natural numbers has a least one.
LEMMA HasMinimum ==
  ASSUME NEW S \in SUBSET Nat, S # {}
  PROVE  \E m \in S : \A n \in S : m <= n
<1> DEFINE Less == OpToRel(<, Nat)
<1>1. IsWellFoundedOn(Less, Nat)
  BY NatLessThanWellFounded
<1>2. \A x, y \in Nat : <<x, y>> \in Less <=> x < y
  BY DEF OpToRel
<1> HIDE DEF Less
<1>3. PICK m \in S : \A n \in S : <<n, m>> \notin Less
  BY <1>1, WFMin
<1>4. ASSUME NEW n \in S PROVE m <= n
  <2>1. n \in Nat /\ m \in Nat
    OBVIOUS
  <2>2. ~ (n < m)
    BY <1>2, <1>3, <2>1
  <2>. QED
    BY <2>1, <2>2
<1>. QED
  BY <1>4

\* A nonempty set of lines has a greatest one, in the order of two numbers and the place.
LEMMA HasGreatest ==
  ASSUME NEW n \in Nat, NEW f \in [1..n -> Nat], NEW g \in [1..n -> Nat],
         NEW S \in SUBSET (1..n), S # {}
  PROVE  \E i \in S : \A j \in S :
           \/ j = i \/ f[j] < f[i]
           \/ f[j] = f[i] /\ (g[j] < g[i] \/ (g[j] = g[i] /\ j < i))
<1> DEFINE Less(j, i) ==
             f[j] < f[i] \/ (f[j] = f[i] /\ (g[j] < g[i] \/ (g[j] = g[i] /\ j < i)))
<1>0. /\ \A i, j \in 1..n : i = j \/ Less(i, j) \/ Less(j, i)
      /\ \A i, j, k \in 1..n : Less(i, j) /\ Less(j, k) => Less(i, k)
  <2>1. \A i \in 1..n : f[i] \in Nat /\ g[i] \in Nat
    OBVIOUS
  <2>2. ASSUME NEW i \in 1..n, NEW j \in 1..n PROVE i = j \/ Less(i, j) \/ Less(j, i)
    BY <2>1
  <2>3. ASSUME NEW i \in 1..n, NEW j \in 1..n, NEW k \in 1..n, Less(i, j), Less(j, k)
        PROVE  Less(i, k)
    <3>1. f[i] \in Nat /\ f[j] \in Nat /\ f[k] \in Nat /\ g[i] \in Nat /\ g[j] \in Nat /\ g[k] \in Nat
      BY <2>1
    <3>. QED
      BY <2>3, <3>1
  <2>. QED
    BY <2>2, <2>3
<1> SUFFICES \E i \in S : \A j \in S : j = i \/ Less(j, i)
  OBVIOUS
<1> HIDE DEF Less
<1> DEFINE Upto(k) == S \cap (1..k)
           Top(k) == \E i \in Upto(k) : \A j \in Upto(k) : j = i \/ Less(j, i)
           Bad == {k \in 0..n : Upto(k) # {} /\ ~Top(k)}
<1>1. \A k \in Nat : \A j \in S : j \in Upto(k) <=> j <= k
  OBVIOUS
<1>2. Upto(n) = S
  OBVIOUS
<1>3. \A k \in Nat : Upto(k) \subseteq S
  OBVIOUS
<1>4. S \subseteq Nat /\ Upto(0) = {}
  OBVIOUS
<1>5. \A k \in Bad : k \in Nat /\ k <= n /\ Upto(k) # {} /\ ~Top(k)
  OBVIOUS
<1>6. \A k \in 0..n : k \notin Bad => Upto(k) = {} \/ Top(k)
  OBVIOUS
<1> HIDE DEF Upto, Bad
<1>7. SUFFICES ASSUME Bad # {} PROVE FALSE
  <2>1. n \notin Bad /\ n \in 0..n
    BY <1>7
  <2>2. Top(n)
    BY <1>2, <1>6, <2>1
  <2>. QED
    BY <1>2, <2>2
<1>8. PICK k \in Bad : \A m \in Bad : k <= m
  <2>1. Bad \in SUBSET Nat
    BY <1>5
  <2>. QED
    BY <1>7, <2>1, HasMinimum
<1>9. k \in Nat /\ k # 0 /\ k <= n /\ Upto(k) # {} /\ ~Top(k)
  BY <1>4, <1>5
<1>10. k - 1 \in Nat /\ k - 1 \in 0..n /\ k - 1 \notin Bad
  <2>1. k - 1 \in Nat /\ k - 1 \in 0..n /\ ~(k <= k - 1)
    BY <1>9
  <2>. QED
    BY <1>8, <2>1
<1>11. \A j \in Upto(k) : j = k \/ j \in Upto(k - 1)
  <2>1. ASSUME NEW j \in Upto(k), j # k PROVE j \in Upto(k - 1)
    <3>1. j \in S /\ j \in Nat /\ j <= k
      BY <1>1, <1>3, <1>4, <1>9
    <3>2. j <= k - 1
      BY <1>9, <2>1, <3>1
    <3>. QED
      BY <1>1, <1>10, <3>1, <3>2
  <2>. QED
    BY <2>1
<1>12. \A j \in Upto(k - 1) : j \in Upto(k) /\ j # k
  <2>1. ASSUME NEW j \in Upto(k - 1) PROVE j \in Upto(k) /\ j # k
    <3>1. j \in S /\ j \in Nat /\ j <= k - 1
      BY <1>1, <1>3, <1>4, <1>10
    <3>2. j <= k /\ j # k
      BY <1>9, <3>1
    <3>. QED
      BY <1>1, <1>9, <3>1, <3>2
  <2>. QED
    BY <2>1
<1>13. CASE Upto(k - 1) = {}
  BY <1>9, <1>11, <1>13
<1>14. CASE Upto(k - 1) # {}
  <2>1. PICK i \in Upto(k - 1) : \A j \in Upto(k - 1) : j = i \/ Less(j, i)
    BY <1>6, <1>10, <1>14
  <2>2. CASE k \notin Upto(k) \/ Less(k, i)
    BY <1>9, <1>11, <1>12, <2>1, <2>2
  <2>3. CASE k \in Upto(k) /\ ~Less(k, i)
    <3>1. i \in 1..n /\ k \in 1..n /\ i # k /\ \A j \in Upto(k - 1) : j \in 1..n
      BY <1>3, <1>9, <1>10, <1>12, <2>3
    <3>2. Less(i, k)
      BY <1>0, <2>3, <3>1
    <3>3. \A j \in Upto(k - 1) : Less(j, k)
      BY <1>0, <2>1, <3>1, <3>2
    <3>. QED
      BY <1>9, <1>11, <2>3, <3>3
  <2>. QED
    BY <2>2, <2>3
<1>. QED
  BY <1>13, <1>14

\* Every record has a sequence.
LEMMA RecordSeq == \A x \in Record : x.seq \in Number
BY DEF Record, RoomRecords, MemberRecords, GrantRecords, MessageRecords, ChangeRecords, MarkRecords

\* The record of a set that readers see last is one of the set, and after all others.
LEMMA LastOfIsLast ==
  ASSUME TypeOK, NEW S \in SUBSET Positions, S # {}
  PROVE  LastOf(S) \in S /\ \A j \in S : j = LastOf(S) \/ Before(j, LastOf(S))
<1>1. Len(log) \in Nat /\ \A i \in Positions : log[i].seq \in Nat
  BY RecordSeq DEF TypeOK, Positions, Number
<1> DEFINE f == [i \in 1..Len(log) |-> log[i].seq]
<1>2. f \in [1..Len(log) -> Nat] /\ \A i \in Positions : f[i] = log[i].seq
  BY <1>1 DEF Positions
<1>3. S \in SUBSET (1..Len(log)) /\ S # {}
  BY DEF Positions
<1> HIDE DEF f
<1>4. \E i \in S : \A j \in S :
        \/ j = i \/ f[j] < f[i]
        \/ f[j] = f[i] /\ (f[j] < f[i] \/ (f[j] = f[i] /\ j < i))
  BY <1>1, <1>2, <1>3, HasGreatest
<1>5. \E i \in S : \A j \in S : j = i \/ Before(j, i)
  BY <1>2, <1>4 DEF Before
<1>. QED
  BY <1>5 DEF LastOf

\* The types of records, told by their type field.
LEMMA RecordKinds ==
  ASSUME NEW x \in Record
  PROVE  /\ x.type = "room" => x \in RoomRecords(Number)
         /\ x.type = "member" => x \in MemberRecords
         /\ x.type = "grant" => x \in GrantRecords
         /\ x.type = "message" => x \in MessageRecords
         /\ x.type \in {"edit", "redact", "react"} => x \in ChangeRecords(Number)
         /\ x.type \in {"cursor", "follow"} => x \in MarkRecords(Number)
BY DEF Record, RoomRecords, MemberRecords, GrantRecords, MessageRecords, ChangeRecords, MarkRecords

\* A writer that reads the ledger numbers its record above all it has read.
LEMMA NextSeqIsHighest ==
  ASSUME TypeOK PROVE NextSeq \in Number /\ \A i \in Positions : log[i].seq < NextSeq
<1>1. \A i \in Positions : log[i].seq \in Nat
  BY RecordSeq DEF TypeOK, Positions, Number
<1>2. CASE log = <<>>
  BY <1>2 DEF NextSeq, Number, Positions
<1>3. CASE log # <<>>
  <2>1. Positions # {} /\ Positions \subseteq Positions
    <3>1. Len(log) \in Nat /\ Len(log) # 0
      BY <1>3, EmptySeq DEF TypeOK
    <3>2. 1 \in Positions
      BY <3>1 DEF Positions
    <3>. QED
      BY <3>2
  <2>2. /\ LastOf(Positions) \in Positions
        /\ \A j \in Positions : j = LastOf(Positions) \/ Before(j, LastOf(Positions))
    BY <2>1, LastOfIsLast
  <2>3. NextSeq = log[LastOf(Positions)].seq + 1
    BY <1>3 DEF NextSeq
  <2>4. \A j \in Positions : log[j].seq <= log[LastOf(Positions)].seq
    BY <1>1, <2>2 DEF Before
  <2>. QED
    BY <1>1, <2>2, <2>3, <2>4 DEF Number
<1>. QED
  BY <1>2, <1>3

\* A room that is listed has a record and a number.
LEMMA RoomListed ==
  ASSUME TypeOK, WellFormed(log), NEW r \in Rooms
  PROVE  /\ RoomRecord(r) \in RoomRecords(Number) /\ RoomRecord(r).id = r /\ r \in Number
         /\ IsRoom(log, r)
<1> DEFINE S == {i \in Records("room") : log[i].id = r}
<1>1. S \subseteq Positions /\ S # {}
  BY DEF Rooms, Records
<1>2. LastOf(S) \in S
  BY <1>1, LastOfIsLast
<1>3. LastOf(S) \in 1..Len(log) /\ log[LastOf(S)].type = "room" /\ log[LastOf(S)].id = r
  BY <1>2 DEF Records, Positions
<1>4. log[LastOf(S)] \in Record
  BY <1>3 DEF TypeOK
<1>5. log[LastOf(S)] \in RoomRecords(Number)
  BY <1>3, <1>4, RecordKinds
<1>6. r \in Nat /\ r # Fresh
  BY <1>3, <1>5 DEF WellFormed, RoomRecords, TypeOK
<1>7. IsRoom(log, r)
  <2>1. LastOf(S) = r \/ MayFollow(log, log[LastOf(S)])
    BY <1>3 DEF WellFormed, TypeOK
  <2>. QED
    BY <1>3, <1>6, <2>1 DEF MayFollow, IsRoom, TypeOK
<1>. QED
  BY <1>3, <1>5, <1>6, <1>7 DEF RoomRecord, Number, Fresh

\* What a reader of a room gets.
LEMMA RoomRead ==
  ASSUME TypeOK, WellFormed(log), NEW r \in Rooms
  PROVE  Room(r) \in RoomRecords(Number) /\ Room(r).id = r /\ r \in Number
<1>1. RoomRecord(r) \in RoomRecords(Number) /\ RoomRecord(r).id = r /\ r \in Number
  BY RoomListed
<1>2. Participants(r) \in SUBSET People
  BY <1>1 DEF Participants, RoomRecords
<1>. QED
  BY <1>1, <1>2 DEF Room, RoomRecords

\* A binding is named by the line that made it, and its record speaks of the same person,
\* role and room.
LEMMA BindingListed ==
  ASSUME TypeOK, WellFormed(log), NEW b \in Bindings
  PROVE  /\ BindingRecord(b) \in GrantRecords /\ BindingRecord(b).id = b
         /\ IsBinding(log, b) /\ b \in Number
         /\ BindingRecord(b).who = log[b].who
         /\ BindingRecord(b).role = log[b].role
         /\ BindingRecord(b).room = log[b].room
<1> DEFINE S == {i \in Records("grant") : log[i].id = b}
           j == LastOf(S)
<1>1. S \subseteq Positions /\ S # {}
  BY DEF Bindings, Records
<1>2. j \in S
  BY <1>1, LastOfIsLast
<1>3. j \in 1..Len(log) /\ log[j].type = "grant" /\ log[j].id = b
  BY <1>2 DEF Records, Positions
<1>4. BindingRecord(b) = log[j]
  BY DEF BindingRecord
<1> HIDE DEF j, S
<1>5. log[j] \in Record /\ DOMAIN log = 1..Len(log)
  BY <1>3 DEF TypeOK
<1>6. log[j] \in GrantRecords
  BY <1>3, <1>5, RecordKinds
<1>7. b \in Number
  BY <1>3, <1>5, <1>6 DEF WellFormed, GrantRecords, Number, Fresh
<1>8. CASE b = j
  BY <1>3, <1>4, <1>5, <1>6, <1>7, <1>8 DEF IsBinding
<1>9. CASE b # j
  <2>1. MayFollow(log, log[j]) /\ log[j].id # Fresh
    BY <1>3, <1>5, <1>7, <1>9 DEF WellFormed, Number, Fresh
  <2>. QED
    BY <1>3, <1>4, <1>6, <1>7, <2>1 DEF MayFollow, IsBinding
<1>. QED
  BY <1>8, <1>9

\* The end of a scope, and what may be read of it.
LEMMA LastInScopeIsThere ==
  ASSUME TypeOK, NEW r, NEW t, Scope(r, t) # {}
  PROVE  /\ LastInScope(r, t) \in Scope(r, t)
         /\ \A m \in Scope(r, t) : log[m].scope <= log[LastInScope(r, t)].scope
<1>1. Scope(r, t) \in SUBSET (1..Len(log)) /\ Len(log) \in Nat
  BY DEF Scope, Messages, Records, Positions, TypeOK
<1>2. \A i \in Scope(r, t) : log[i].scope \in Nat
  <2>1. ASSUME NEW i \in Scope(r, t) PROVE log[i].scope \in Nat
    <3>1. log[i] \in Record /\ log[i].type = "message"
      BY <1>1 DEF Scope, Messages, Records, TypeOK
    <3>2. log[i] \in MessageRecords
      BY <3>1, RecordKinds
    <3>. QED
      BY <3>2 DEF MessageRecords, Number
  <2>. QED
    BY <2>1
<1> DEFINE f == [i \in 1..Len(log) |-> IF i \in Scope(r, t) THEN log[i].scope ELSE 0]
           g == [i \in 1..Len(log) |-> log[i].seq]
<1>3. f \in [1..Len(log) -> Nat] /\ \A i \in Scope(r, t) : f[i] = log[i].scope
  BY <1>1, <1>2
<1>4. g \in [1..Len(log) -> Nat] /\ \A i \in Scope(r, t) : g[i] = log[i].seq
  <2>1. \A i \in 1..Len(log) : log[i].seq \in Nat
    BY RecordSeq DEF TypeOK, Number
  <2>. QED
    BY <1>1, <2>1
<1> DEFINE S == Scope(r, t)
           size == Len(log)
<1> HIDE DEF f, g, size
<1>5. \E i \in Scope(r, t) : \A j \in Scope(r, t) :
        \/ j = i \/ f[j] < f[i]
        \/ f[j] = f[i] /\ (g[j] < g[i] \/ (g[j] = g[i] /\ j < i))
  <2>1. /\ size \in Nat /\ S \in SUBSET (1..size) /\ S # {}
        /\ f \in [1..size -> Nat] /\ g \in [1..size -> Nat]
    BY <1>1, <1>3, <1>4 DEF size
  <2> HIDE DEF S
  <2>2. \E i \in S : \A j \in S :
          \/ j = i \/ f[j] < f[i]
          \/ f[j] = f[i] /\ (g[j] < g[i] \/ (g[j] = g[i] /\ j < i))
    BY <2>1, HasGreatest
  <2>. QED
    BY <2>2 DEF S
<1>6. \E m \in Scope(r, t) : \A n \in Scope(r, t) :
        \/ n = m \/ log[n].scope < log[m].scope
        \/ log[n].scope = log[m].scope /\ Before(n, m)
  BY <1>3, <1>4, <1>5 DEF Before
<1>7. /\ LastInScope(r, t) \in Scope(r, t)
      /\ \A n \in Scope(r, t) :
           \/ n = LastInScope(r, t) \/ log[n].scope < log[LastInScope(r, t)].scope
           \/ log[n].scope = log[LastInScope(r, t)].scope
  BY <1>6 DEF LastInScope
<1>. QED
  BY <1>2, <1>7

\* The greatest of a bounded set of numbers.
LEMMA LatestIsOne ==
  ASSUME NEW S \in SUBSET Nat, S # {}, NEW u \in Nat, \A n \in S : n <= u
  PROVE  Latest(S) \in S
<1> DEFINE T == {u - n : n \in S}
<1>1. T \in SUBSET Nat /\ T # {}
  <2>1. \A n \in S : u - n \in Nat
    OBVIOUS
  <2>. QED
    BY <2>1
<1>2. PICK d \in T : \A e \in T : d <= e
  BY <1>1, HasMinimum
<1>3. PICK m \in S : d = u - m
  OBVIOUS
<1>4. \A n \in S : n <= m
  <2>1. ASSUME NEW n \in S PROVE n <= m
    <3>1. u - n \in T
      OBVIOUS
    <3>2. u - m <= u - n
      BY <1>2, <1>3, <3>1
    <3>. QED
      BY <3>2
  <2>. QED
    BY <2>1
<1>. QED
  BY <1>4 DEF Latest

LEMMA ScopeNumbers ==
  ASSUME TypeOK, NEW r, NEW t
  PROVE  /\ ScopeEnd(r, t) \in Nat /\ LastSequence(r, t) \in Nat
         /\ t \in Messages \cup {None} => LastRevision(r, t) \in Nat
<1>1. \A m \in Messages : m \in Positions /\ log[m].scope \in Nat /\ log[m].seq \in Nat
  <2>1. ASSUME NEW m \in Messages
        PROVE m \in Positions /\ log[m].scope \in Nat /\ log[m].seq \in Nat
    <3>1. m \in Positions /\ log[m] \in Record /\ log[m].type = "message"
      BY DEF Messages, Records, Positions, TypeOK
    <3>2. log[m] \in MessageRecords
      BY <3>1, RecordKinds
    <3>. QED
      BY <3>1, <3>2 DEF MessageRecords, Number
  <2>. QED
    BY <2>1
<1>2. Scope(r, t) \subseteq Messages
  BY DEF Scope
<1>3. ScopeEnd(r, t) \in Nat /\ LastSequence(r, t) \in Nat
  BY <1>1, <1>2, LastInScopeIsThere DEF ScopeEnd, LastSequence
<1>4. ASSUME NEW m \in Messages PROVE Revision(m) \in Nat /\ Revision(m) <= NextSeq
  <2> DEFINE S == {m} \cup {i \in Effective(m) : log[i].type # "react"}
  <2>1. S \subseteq Positions /\ S # {}
    BY <1>1, <1>4 DEF Effective, Changes, Records
  <2>2. LastOf(S) \in Positions
    BY <2>1, LastOfIsLast
  <2>3. Revision(m) = log[LastOf(S)].seq
    BY DEF Revision
  <2> HIDE DEF S
  <2>4. log[LastOf(S)].seq \in Nat /\ NextSeq \in Nat /\ log[LastOf(S)].seq < NextSeq
    BY <2>2, NextSeqIsHighest, RecordSeq DEF TypeOK, Positions, Number
  <2>. QED
    BY <2>3, <2>4
<1>5. ASSUME t \in Messages \cup {None} PROVE LastRevision(r, t) \in Nat
  <2> DEFINE ms == Scope(r, t) \cup (IF t = None THEN {} ELSE {t})
             S == {0} \cup {Revision(m) : m \in ms}
  <2>1. ms \subseteq Messages
    BY <1>2, <1>5
  <2>2. S \in SUBSET Nat /\ S # {} /\ NextSeq \in Nat /\ \A n \in S : n <= NextSeq
    BY <1>4, <2>1, NextSeqIsHighest DEF Number
  <2>3. LastRevision(r, t) = Latest(S)
    BY DEF LastRevision
  <2> HIDE DEF S
  <2>. QED
    BY <2>2, <2>3, LatestIsOne
<1>. QED
  BY <1>3, <1>5

LEMMA ReadToRecord ==
  ASSUME TypeOK, NEW r \in Number, NEW t \in Messages \cup {None}, NEW p \in People
  PROVE  ReadTo(r, t, p) \in MarkRecords({0})
<1>1. ScopeEnd(r, t) \in Nat /\ LastSequence(r, t) \in Nat /\ LastRevision(r, t) \in Nat
  BY ScopeNumbers
<1>2. t \in Number \cup {None} /\ Len(log) \in Nat
  BY DEF Messages, Records, Positions, Number, TypeOK
<1>. QED
  BY <1>1, <1>2 DEF ReadTo, MarkRecords

\* A finite set can be listed.
LEMMA ListingOf ==
  ASSUME NEW S, IsFiniteSet(S)
  PROVE  Cardinality(S) \in Nat /\ Listing(S) \in [1..Cardinality(S) -> S]
         /\ \A x \in S : \E i \in 1..Cardinality(S) : Listing(S)[i] = x
<1>1. Cardinality(S) \in Nat
  BY FS_CardinalityType
<1>2. PICK f : f \in Bijection(1..Cardinality(S), S)
  BY FS_CardinalityType DEF ExistsBijection
<1>3. f \in [1..Cardinality(S) -> S] /\ \A i, j \in DOMAIN f : f[i] = f[j] => i = j
  BY <1>2 DEF Bijection, Injection, IsInjective
<1>4. /\ Listing(S) \in [1..Cardinality(S) -> S]
      /\ \A i, j \in DOMAIN Listing(S) : Listing(S)[i] = Listing(S)[j] => i = j
  BY <1>3 DEF Listing
<1>5. \A x \in S : \E i \in 1..Cardinality(S) : Listing(S)[i] = x
  <2>1. Listing(S) \in Injection(1..Cardinality(S), S)
    BY <1>4 DEF Injection, IsInjective
  <2>2. IsFiniteSet(1..Cardinality(S)) /\ Cardinality(1..Cardinality(S)) = Cardinality(S)
    BY <1>1, FS_Interval
  <2>3. Listing(S) \in Surjection(1..Cardinality(S), S)
    BY <2>1, <2>2, FS_Injection
  <2>. QED
    BY <2>3 DEF Surjection
<1>. QED
  BY <1>1, <1>4, <1>5

-----------------------------------------------------------------------------
\* What readers of a well-formed ledger see

LEMMA RedactedForGood == ASSUME TypeOK, WellFormed(log) PROVE RedactionSticks
<1> SUFFICES ASSUME NEW i \in Records("redact")
             PROVE  Body(log[i].message) = Removed /\ Reactions(log[i].message) = {}
  BY DEF RedactionSticks
<1> DEFINE m == log[i].message
<1>1. i \in Positions /\ log[i].type = "redact" /\ i \in DOMAIN log
  BY DEF Records, Positions, TypeOK
<1>2. m \in Positions /\ log[m].type = "message" /\ log[m].seq < log[i].seq
  <2>1. MayFollow(log, log[i])
    BY <1>1 DEF WellFormed
  <2>. QED
    BY <1>1, <2>1 DEF MayFollow, Positions, TypeOK
<1> HIDE DEF m
<1>3. \A j \in Positions : log[j].seq \in Nat
  BY RecordSeq DEF TypeOK, Positions, Number
<1>4. Before(m, i) /\ ~Before(i, m) /\ i # m
  BY <1>1, <1>2, <1>3 DEF Before
<1>5. i \in Changes(m) /\ i \in Effective(m)
  BY <1>1, <1>4 DEF Changes, Effective, Records, m
<1>6. Effective(m) \subseteq Positions
  BY DEF Effective, Changes, Records
<1>7. \A j \in Effective(m) : j = i \/ log[j].type = "redact" \/ ~Before(i, j)
  BY <1>1, <1>5 DEF Effective
<1>8. Body(m) = Removed
  <2> DEFINE S == {m} \cup {j \in Effective(m) : log[j].type # "react"}
  <2>1. S \subseteq Positions /\ i \in S
    BY <1>1, <1>2, <1>5, <1>6
  <2>2. LastOf(S) \in S /\ (i = LastOf(S) \/ Before(i, LastOf(S)))
    BY <2>1, LastOfIsLast
  <2>3. log[LastOf(S)].type = "redact"
    BY <1>1, <1>4, <1>7, <2>2
  <2>. QED
    BY <2>3 DEF Body
<1>9. Reactions(m) = {}
  <2> SUFFICES ASSUME NEW p \in People, p \in Reactions(m) PROVE FALSE
    BY DEF Reactions
  <2> DEFINE words == {j \in Effective(m) : log[j].type = "redact" \/
                                            (log[j].type = "react" /\ log[j].who = p)}
  <2>1. words \subseteq Positions /\ i \in words
    BY <1>1, <1>5, <1>6
  <2>2. LastOf(words) \in words /\ (i = LastOf(words) \/ Before(i, LastOf(words)))
    BY <2>1, LastOfIsLast
  <2>3. log[LastOf(words)].type = "redact"
    BY <1>1, <1>7, <2>2
  <2>4. log[LastOf(words)].type = "react"
    BY DEF Reactions
  <2>. QED
    BY <2>3, <2>4
<1>. QED
  BY <1>8, <1>9 DEF m

\* An active binding has one line, the one that made it.
LEMMA ActiveIsUnrevoked ==
  ASSUME TypeOK, WellFormed(log), NEW b \in ActiveBindings
  PROVE  /\ IsBinding(log, b) /\ log[b].active
         /\ \A i \in DOMAIN log : log[i].type = "grant" /\ log[i].id = b => i = b
<1> DEFINE S == {j \in Records("grant") : log[j].id = b}
<1>1. S \subseteq Positions /\ S # {} /\ \A j \in S : j \in DOMAIN log
  BY DEF ActiveBindings, Bindings, Records, Positions, TypeOK
<1>2. LastOf(S) \in S /\ \A j \in S : j = LastOf(S) \/ Before(j, LastOf(S))
  BY <1>1, LastOfIsLast
<1>3. log[LastOf(S)].active
  BY DEF ActiveBindings, BindingRecord
<1>4. \A j \in S : j = b \/ (~log[j].active /\ b \in S /\ log[b].seq < log[j].seq)
  <2>1. ASSUME NEW j \in S, j # b
        PROVE  ~log[j].active /\ b \in S /\ log[b].seq < log[j].seq
    <3>1. log[j].type = "grant" /\ log[j].id = b /\ j \in DOMAIN log
      BY <1>1 DEF Records
    <3>2. MayFollow(log, log[j]) /\ log[j].id # Fresh
      BY <2>1, <3>1 DEF WellFormed
    <3>. QED
      BY <3>1, <3>2 DEF MayFollow, Records, Positions, TypeOK
  <2>. QED
    BY <2>1
<1>5. LastOf(S) = b
  BY <1>2, <1>3, <1>4
<1>6. ASSUME NEW i \in S, i # b PROVE FALSE
  <2>1. Before(i, b) /\ log[b].seq < log[i].seq
    BY <1>2, <1>4, <1>5, <1>6
  <2>2. log[b].seq \in Nat /\ log[i].seq \in Nat
    BY <1>1, <1>4, <1>6, RecordSeq DEF TypeOK, Number
  <2>. QED
    BY <2>1, <2>2 DEF Before
<1>7. \A i \in DOMAIN log : log[i].type = "grant" /\ log[i].id = b => i \in S
  BY DEF Records, Positions, TypeOK
<1>8. IsBinding(log, b)
  BY <1>1, <1>2, <1>5 DEF IsBinding, Records
<1>. QED
  BY <1>3, <1>5, <1>6, <1>7, <1>8

LEMMA RevokedForGood == ASSUME TypeOK, WellFormed(log) PROVE RevocationSticks
<1>1. \A i \in Records("grant") : i \in DOMAIN log /\ log[i].type = "grant"
  BY DEF Records, Positions, TypeOK
<1>. QED
  BY <1>1, ActiveIsUnrevoked DEF RevocationSticks

\* A departure ends the bindings that nobody has revoked.
LEMMA DoomedIsHeld ==
  ASSUME TypeOK, WellFormed(log), NEW p, NEW r, NEW b
  PROVE  b \in Doomed(p, r) <=> Holds(log, b, p, r)
<1>1. ASSUME b \in Doomed(p, r) PROVE Holds(log, b, p, r)
  <2>1. /\ b \in ActiveBindings /\ b \in Bindings
        /\ BindingRecord(b).who = p /\ BindingRecord(b).room = r
        /\ BindingRecord(b).role \in {"participant", "room_manager"}
    BY <1>1 DEF Doomed, BindingsOf, ActiveBindings
  <2>2. log[b].who = p /\ log[b].room = r /\ log[b].role \in {"participant", "room_manager"}
    BY <2>1, BindingListed
  <2>. QED
    BY <2>1, <2>2, ActiveIsUnrevoked DEF Holds
<1>2. ASSUME Holds(log, b, p, r) PROVE b \in Doomed(p, r)
  <2> DEFINE S == {i \in Records("grant") : log[i].id = b}
  <2>1. S = {b} /\ S \subseteq Positions
    BY <1>2 DEF Holds, IsBinding, Records, Positions, TypeOK
  <2>2. LastOf(S) = b
    BY <2>1, LastOfIsLast
  <2>3. BindingRecord(b) = log[b]
    BY <2>2 DEF BindingRecord
  <2>4. b \in Bindings
    BY <2>1 DEF Bindings
  <2>. QED
    BY <1>2, <2>3, <2>4 DEF Doomed, BindingsOf, ActiveBindings, Holds
<1>. QED
  BY <1>1, <1>2

-----------------------------------------------------------------------------
\* Writes and calls

\* The kinds of writes, told by what they do.
LEMMA WriteKinds ==
  ASSUME NEW w \in Write
  PROVE  /\ w.do = "room" => w \in [do : {"room"}, value : RoomRecords(Nat)]
         /\ w.do = "member" => w \in [do : {"member"}, room : Nat, who : People, joined : BOOLEAN]
         /\ w.do = "grant" =>
              /\ w \in [do : {"grant"}, room : Nat \cup {None}, who : People, role : Roles,
                        announce : BOOLEAN]
              /\ w.announce => w.room \in Number
         /\ w.do = "strip" => w \in [do : {"strip"}, room : Number, who : People]
         /\ w.do = "revoke" => w \in [do : {"revoke"}, binding : Number]
         /\ w.do = "notice" => w \in [do : {"notice"}, room : Number]
         /\ w.do = "post" =>
              w \in [do : {"post"}, room : Number, thread : Number \cup {None}, author : People,
                     key : Keys \cup {None}, body : Bodies]
         /\ w.do = "change" => w \in [do : {"change"}, value : ChangeRecords({0})]
         /\ w.do = "put" =>
              w \in [do : {"put"}, value : MarkRecords({0}), room : Number,
                     thread : Number \cup {None}]
<1> w \in Write
  OBVIOUS
<1>. QED
  BY DEF Write, Number

LEMMA WritesTyped ==
  /\ \A value \in RoomRecords(Nat) : WriteRoom(value) \in Write
  /\ \A r \in Nat, p \in People, joined \in BOOLEAN : Member(r, p, joined) \in Write
  /\ \A r \in Nat \cup {None}, p \in People, role \in Roles : Grant(p, role, r, FALSE) \in Write
  /\ \A r \in Number, p \in People, role \in Roles : Grant(p, role, r, TRUE) \in Write
  /\ \A r \in Number, p \in People : Strip(r, p) \in Write
  /\ \A b \in Number : RevokeOne(b) \in Write
  /\ \A r \in Number : Notice(r) \in Write
  /\ \A r \in Number, t \in Number \cup {None}, p \in People, key \in Keys \cup {None},
       body \in Bodies : Post(r, t, p, key, body) \in Write
  /\ \A value \in ChangeRecords({0}) : Change(value) \in Write
  /\ \A value \in MarkRecords({0}), r \in Number, t \in Number \cup {None} :
       Put(value, r, t) \in Write
<1>1. \A value \in RoomRecords(Nat) : WriteRoom(value) \in Write
  BY DEF WriteRoom, Write
<1>2. \A r \in Nat, p \in People, joined \in BOOLEAN : Member(r, p, joined) \in Write
  BY DEF Member, Write
<1>3. \A r \in Nat \cup {None}, p \in People, role \in Roles : Grant(p, role, r, FALSE) \in Write
  BY DEF Grant, Write
<1>4. \A r \in Number, p \in People, role \in Roles : Grant(p, role, r, TRUE) \in Write
  BY DEF Grant, Write
<1>5. \A r \in Number, p \in People : Strip(r, p) \in Write
  BY DEF Strip, Write
<1>6. \A b \in Number : RevokeOne(b) \in Write
  BY DEF RevokeOne, Write
<1>7. \A r \in Number : Notice(r) \in Write
  BY DEF Notice, Write
<1>8. \A r \in Number, t \in Number \cup {None}, p \in People, key \in Keys \cup {None},
        body \in Bodies : Post(r, t, p, key, body) \in Write
  BY DEF Post, Write
<1>9. \A value \in ChangeRecords({0}) : Change(value) \in Write
  BY DEF Change, Write
<1>10. \A value \in MarkRecords({0}), r \in Number, t \in Number \cup {None} :
         Put(value, r, t) \in Write
  BY DEF Put, Write
<1>. QED
  BY <1>1, <1>2, <1>3, <1>4, <1>5, <1>6, <1>7, <1>8, <1>9, <1>10

LEMMA HeadAndRest ==
  ASSUME NEW s \in Seq(Write), s # <<>>
  PROVE  /\ Len(s) \in Number /\ Head(s) = s[1] /\ s[1] \in Write
         /\ Tail(s) \in Seq(Write) /\ Len(Tail(s)) = Len(s) - 1
         /\ \A k \in 1..(Len(s) - 1) : Tail(s)[k] = s[k + 1]
         /\ DOMAIN Tail(s) = 1..(Len(s) - 1)
<1>1. Len(s) \in Nat /\ Len(s) # 0
  BY EmptySeq
<1>2. Tail(s) \in Seq(Write) /\ Len(Tail(s)) = Len(s) - 1 /\ Head(s) = s[1]
  BY HeadTailProperties
<1>3. \A k \in 1..(Len(s) - 1) : Tail(s)[k] = s[k + 1]
  BY <1>1, <1>2
<1>. QED
  BY <1>1, <1>2, <1>3 DEF Number

LEMMA InFront ==
  ASSUME NEW s \in Seq(Write), NEW t \in Seq(Write)
  PROVE  /\ s \o t \in Seq(Write) /\ Len(s \o t) = Len(s) + Len(t)
         /\ DOMAIN (s \o t) = 1..(Len(s) + Len(t))
         /\ \A k \in DOMAIN (s \o t) :
              \/ k \in DOMAIN s /\ (s \o t)[k] = s[k]
              \/ k > Len(s) /\ k - Len(s) \in DOMAIN t /\ (s \o t)[k] = t[k - Len(s)]
<1>1. s \o t \in Seq(Write) /\ Len(s \o t) = Len(s) + Len(t)
  BY ConcatProperties
<1>2. \A k \in 1..(Len(s) + Len(t)) : (s \o t)[k] = IF k <= Len(s) THEN s[k] ELSE t[k - Len(s)]
  BY ConcatProperties
<1>3. Len(s) \in Nat /\ Len(t) \in Nat /\ DOMAIN s = 1..Len(s) /\ DOMAIN t = 1..Len(t)
  OBVIOUS
<1>4. DOMAIN (s \o t) = 1..(Len(s) + Len(t))
  BY <1>1
<1>5. ASSUME NEW k \in DOMAIN (s \o t)
      PROVE  \/ k \in DOMAIN s /\ (s \o t)[k] = s[k]
             \/ k > Len(s) /\ k - Len(s) \in DOMAIN t /\ (s \o t)[k] = t[k - Len(s)]
  BY <1>2, <1>3, <1>4
<1>. QED
  BY <1>1, <1>4, <1>5

\* What is left of a call speaks of the new room, and otherwise stays as it was.
LEMMA AboutRoom ==
  ASSUME NEW r \in Number, NEW steps \in Seq(Write)
  PROVE  /\ About(r, steps) \in Seq(Write) /\ Len(About(r, steps)) = Len(steps)
         /\ DOMAIN About(r, steps) = DOMAIN steps
         /\ \A k \in DOMAIN steps :
              /\ About(r, steps)[k].do = steps[k].do
              /\ steps[k].do \notin {"member", "grant"} => About(r, steps)[k] = steps[k]
         /\ Settled(About(r, steps))
<1>1. ASSUME NEW k \in DOMAIN steps
      PROVE  /\ About(r, steps)[k] \in Write
             /\ About(r, steps)[k].do = steps[k].do
             /\ steps[k].do \notin {"member", "grant"} => About(r, steps)[k] = steps[k]
             /\ steps[k].do \in {"member", "grant"} => About(r, steps)[k].room # Fresh
  <2> DEFINE w == steps[k]
  <2>1. w \in Write
    OBVIOUS
  <2>2. About(r, steps)[k] =
          IF "room" \in DOMAIN w /\ w.room = Fresh THEN [w EXCEPT !.room = r] ELSE w
    BY DEF About
  <2> HIDE DEF w
  <2>3. CASE "room" \in DOMAIN w /\ w.room = Fresh
    <3>1. \/ w \in [do : {"member"}, room : Nat, who : People, joined : BOOLEAN]
          \/ w \in [do : {"grant"}, room : Nat \cup {None}, who : People, role : Roles,
                    announce : {FALSE}]
      <4>1. w.do \in {"room", "member", "grant", "strip", "revoke", "notice", "post", "change", "put"}
        BY <2>1 DEF Write
      <4>2. w.do \notin {"room", "revoke", "change"}
        BY <2>1, <2>3, WriteKinds
      <4>3. w.do \notin {"strip", "notice", "post", "put"}
        <5>1. w.do \in {"strip", "notice", "post", "put"} => w.room \in Number
          BY <2>1, WriteKinds
        <5>. QED
          BY <2>3, <5>1 DEF Number, Fresh
      <4>4. CASE w.do = "member"
        BY <2>1, <4>4, WriteKinds
      <4>5. CASE w.do = "grant"
        <5>1. w \in [do : {"grant"}, room : Nat \cup {None}, who : People, role : Roles,
                      announce : BOOLEAN] /\ ~w.announce
          BY <2>1, <2>3, <4>5, WriteKinds DEF Number, Fresh
        <5>. QED
          BY <5>1
      <4>. QED
        BY <4>1, <4>2, <4>3, <4>4, <4>5
    <3>2. [w EXCEPT !.room = r] \in Write /\ [w EXCEPT !.room = r].do = w.do
          /\ w.do \in {"member", "grant"} /\ [w EXCEPT !.room = r].room = r
      BY <3>1 DEF Write, Number
    <3>. QED
      BY <2>2, <2>3, <3>2 DEF w, Number, Fresh
  <2>4. CASE ~("room" \in DOMAIN w /\ w.room = Fresh)
    <3>1. w.do \in {"member", "grant"} => "room" \in DOMAIN w
      BY <2>1, WriteKinds
    <3>. QED
      BY <2>1, <2>2, <2>4, <3>1 DEF w
  <2>. QED
    BY <2>3, <2>4
<1>2. DOMAIN About(r, steps) = 1..Len(steps) /\ Len(steps) \in Nat
  BY DEF About
<1>3. About(r, steps) \in Seq(Write) /\ Len(About(r, steps)) = Len(steps)
  <2>1. About(r, steps) \in [1..Len(steps) -> Write]
    <3>1. \A k \in 1..Len(steps) : About(r, steps)[k] \in Write
      BY <1>1
    <3>. QED
      BY <1>2, <3>1 DEF About
  <2>. QED
    BY <1>2, <2>1, SeqDef
<1>. QED
  BY <1>1, <1>2, <1>3 DEF Settled

LEMMA IdleFits == Idle \in Calls /\ \A l : CallFits(l, Idle)
<1>1. Idle \in Calls
  BY DEF Idle, Calls
<1>2. DOMAIN Idle.todo = {} /\ Idle.rec = None /\ Idle.since = 0 /\ Idle.todo = <<>>
  BY DEF Idle
<1>3. \A l : CallFits(l, Idle)
  BY <1>2 DEF CallFits, FreshFirst, Settled, RevokesBindings, RewritesRooms, KeysFromPosts,
              StripsLast, StripsAll
<1>. QED
  BY <1>1, <1>3

\* A step that leaves the ledger alone keeps the invariant if the call fits.
LEMMA OneCall ==
  ASSUME LedgerInv, NEW a \in Actors, NEW c \in Calls, CallFits(log, c),
         call' = [call EXCEPT ![a] = c], log' = log,
         calls' \in 0..MaxCalls, crashes' \in 0..MaxCrashes
  PROVE  LedgerInv'
<1>1. TypeOK'
  BY DEF LedgerInv, TypeOK
<1>2. \A d \in Actors : call'[d] = IF d = a THEN c ELSE call[d]
  BY DEF LedgerInv, TypeOK
<1>3. \A d \in Actors : CallFits(log', call'[d])
  BY <1>2 DEF LedgerInv
<1>. QED
  BY <1>1, <1>3 DEF LedgerInv

\* A binding stays the binding it was, and gets no more unrevoked, as the ledger grows.
LEMMA LedgerGrows ==
  ASSUME NEW l \in Seq(Record), NEW x \in Record
  PROVE  /\ Append(l, x) \in Seq(Record) /\ Len(Append(l, x)) = Len(l) + 1
         /\ Append(l, x)[Len(l) + 1] = x
         /\ \A i \in DOMAIN l : i \in DOMAIN Append(l, x) /\ Append(l, x)[i] = l[i]
         /\ \A i \in DOMAIN Append(l, x) : i \in DOMAIN l \/ i = Len(l) + 1
         /\ \A rec : MayFollow(l, rec) => MayFollow(Append(l, x), rec)
         /\ \A b : IsBinding(l, b) => IsBinding(Append(l, x), b)
         /\ \A r : IsRoom(l, r) => IsRoom(Append(l, x), r)
         /\ \A b, p, r : b \in DOMAIN l /\ Holds(Append(l, x), b, p, r) => Holds(l, b, p, r)
<1> DEFINE n == Append(l, x)
<1>1. n \in Seq(Record) /\ Len(n) = Len(l) + 1 /\ n[Len(l) + 1] = x
      /\ \A i \in 1..Len(l) : n[i] = l[i]
  BY AppendProperties
<1>2. DOMAIN l = 1..Len(l) /\ DOMAIN n = 1..(Len(l) + 1) /\ Len(l) \in Nat
  BY <1>1
<1> HIDE DEF n
<1>3. \A i \in DOMAIN l : i \in DOMAIN n /\ n[i] = l[i]
  BY <1>1, <1>2
<1>4. \A rec : MayFollow(l, rec) => MayFollow(n, rec)
  BY <1>3 DEF MayFollow
<1>5. \A b : IsBinding(l, b) => IsBinding(n, b)
  BY <1>3 DEF IsBinding
<1>6. \A b, p, r : b \in DOMAIN l /\ Holds(n, b, p, r) => Holds(l, b, p, r)
  BY <1>3 DEF Holds, IsBinding
<1>7. \A r : IsRoom(l, r) => IsRoom(n, r)
  BY <1>3 DEF IsRoom
<1>. QED
  BY <1>1, <1>2, <1>3, <1>4, <1>5, <1>6, <1>7 DEF n

LEMMA CallsStillFit ==
  ASSUME NEW l \in Seq(Record), NEW x \in Record, NEW c \in Calls, CallFits(l, c)
  PROVE  CallFits(Append(l, x), c)
<1>1. c.rec # None => MayFollow(Append(l, x), c.rec)
  BY LedgerGrows DEF CallFits
<1>2. RevokesBindings(Append(l, x), c)
  BY LedgerGrows DEF CallFits, RevokesBindings
<1>4. RewritesRooms(Append(l, x), c)
  BY LedgerGrows DEF CallFits, RewritesRooms
<1>3. StripsAll(Append(l, x), c)
  <2> SUFFICES ASSUME c.since > 0 PROVE StripsAll(Append(l, x), c)
    BY DEF StripsAll
  <2>1. c.since \in Nat /\ Len(l) \in Nat /\ Len(Append(l, x)) = Len(l) + 1 /\ DOMAIN l = 1..Len(l)
    BY LedgerGrows DEF Calls
  <2>2. c.since <= Len(l) /\ \A b \in 1..c.since : b \in DOMAIN l
    BY <2>1 DEF CallFits, StripsAll
  <2>3. \A p, r : \A b \in 1..c.since : Holds(Append(l, x), b, p, r) => Holds(l, b, p, r)
    BY <2>2, LedgerGrows
  <2>. QED
    BY <2>1, <2>2, <2>3 DEF CallFits, StripsAll
<1>. QED
  BY <1>1, <1>2, <1>3, <1>4 DEF CallFits

\* A call that begins fits when its writes do.
LEMMA Begun ==
  ASSUME LedgerInv, NEW a \in Actors, NEW op \in Ops, NEW p \in People \cup {None},
         NEW steps \in Seq(Write), calls < MaxCalls, Begin(a, op, p, steps),
         \/ Settled(steps)
         \/ steps # <<>> /\ steps[1].do = "room" /\ steps[1].value.id = Fresh,
         \A k \in DOMAIN steps :
           /\ steps[k].do = "revoke" => IsBinding(log, steps[k].binding)
           /\ steps[k].do = "room" /\ steps[k].value.id # Fresh => IsRoom(log, steps[k].value.id)
           /\ steps[k].do = "post" => op = "post"
           /\ steps[k].do = "strip" =>
                /\ steps[k].who = p
                /\ Len(steps) = k + 1 /\ steps[k + 1].do = "notice"
                /\ steps[k + 1].room = steps[k].room
  PROVE  LedgerInv'
<1> DEFINE c == [Idle EXCEPT !.op = op, !.who = p, !.todo = steps, !.began = Len(log)]
<1>1. /\ c \in Calls /\ c.op = op /\ c.who = p /\ c.todo = steps /\ c.rec = None
      /\ c.began = Len(log) /\ c.since = 0
  <2>1. Len(log) \in Nat
    BY DEF LedgerInv, TypeOK
  <2>. QED
    BY <2>1 DEF Idle, Calls
<1>2. call' = [call EXCEPT ![a] = c] /\ log' = log /\ crashes' = crashes /\ calls' = calls + 1
  BY DEF Begin
<1> HIDE DEF c
<1>3. CallFits(log, c)
  BY <1>1 DEF CallFits, FreshFirst, RevokesBindings, RewritesRooms, KeysFromPosts, StripsLast,
              StripsAll
<1>4. calls' \in 0..MaxCalls /\ crashes' \in 0..MaxCrashes
  BY <1>2, CommandAssumption DEF LedgerInv, TypeOK
<1>. QED
  BY <1>1, <1>2, <1>3, <1>4, OneCall

-----------------------------------------------------------------------------
\* Beginning a command

\* The writes of most commands are a few, and speak of rooms that are there.
LEMMA FewWrites ==
  /\ \A x \in Write : <<x>> \in Seq(Write) /\ Len(<<x>>) = 1 /\ DOMAIN <<x>> = 1..1 /\ <<x>>[1] = x
  /\ \A x, y \in Write :
       /\ <<x, y>> \in Seq(Write) /\ Len(<<x, y>>) = 2 /\ DOMAIN <<x, y>> = 1..2
       /\ <<x, y>>[1] = x /\ <<x, y>>[2] = y
  /\ \A x, y, z \in Write :
       /\ <<x, y, z>> \in Seq(Write) /\ Len(<<x, y, z>>) = 3 /\ DOMAIN <<x, y, z>> = 1..3
       /\ <<x, y, z>>[1] = x /\ <<x, y, z>>[2] = y /\ <<x, y, z>>[3] = z
OBVIOUS

LEMMA OneInFront ==
  ASSUME NEW x \in Write, NEW y \in Write
  PROVE  <<x>> \o <<y>> = <<x, y>> /\ <<x>> \o <<>> = <<x>>
<1> DEFINE s == <<x>> \o <<y>>
           t == <<x, y>>
<1>1. <<x>> \in Seq(Write) /\ <<y>> \in Seq(Write)
  OBVIOUS
<1>2. <<x>> \o <<>> = <<x>>
  BY <1>1, ConcatEmptySeq
<1>3. s \in Seq(Write) /\ Len(s) = 2 /\ s[1] = x /\ s[2] = y
  BY <1>1, ConcatProperties
<1>4. t \in Seq(Write) /\ Len(t) = 2 /\ t[1] = x /\ t[2] = y
  OBVIOUS
<1> HIDE DEF s, t
<1>5. s = t
  BY <1>3, <1>4, SeqEqual
<1>. QED
  BY <1>2, <1>5 DEF s, t

LEMMA NewRoomRecord ==
  \A kind \in {"channel", "direct"}, slug \in Slugs \cup {None}, ps \in SUBSET People,
    public \in BOOLEAN :
    NewRoom(kind, slug, ps, public) \in RoomRecords(Nat) /\ NewRoom(kind, slug, ps, public).id = Fresh
BY DEF NewRoom, RoomRecords, Fresh

LEMMA CreateBegins ==
  ASSUME LedgerInv, NEW a \in Actors, CreateChannel(a) PROVE LedgerInv'
<1>1. PICK p \in People, slug \in Slugs, public \in BOOLEAN :
        Begin(a, "create", None,
          <<WriteRoom(NewRoom("channel", slug, {p}, public)), Grant(p, "room_manager", Fresh, FALSE)>>)
  BY DEF CreateChannel
<1> DEFINE x == WriteRoom(NewRoom("channel", slug, {p}, public))
           y == Grant(p, "room_manager", Fresh, FALSE)
<1>2. x \in Write /\ x.do = "room" /\ x.value.id = Fresh
  BY NewRoomRecord, WritesTyped DEF WriteRoom
<1>3. y \in Write /\ y.do = "grant"
  BY WritesTyped DEF Grant, Roles, Fresh
<1>4. "create" \in Ops /\ calls < MaxCalls
  BY DEF CreateChannel, Ready
<1> HIDE DEF x, y
<1> DEFINE s == <<x, y>>
<1>5. s \in Seq(Write) /\ s # <<>> /\ DOMAIN s = 1..2 /\ s[1] = x /\ s[2] = y
  BY <1>2, <1>3, FewWrites
<1>6. Begin(a, "create", None, s)
  BY <1>1 DEF x, y
<1> HIDE DEF s
<1>7. \A k \in DOMAIN s :
        s[k].do \in {"room", "grant"} /\ (s[k].do = "room" => s[k].value.id = Fresh)
  BY <1>2, <1>3, <1>5
<1>. QED
  BY <1>2, <1>4, <1>5, <1>6, <1>7, Begun

LEMMA DirectBegins ==
  ASSUME LedgerInv, NEW a \in Actors, EnsureDirect(a) PROVE LedgerInv'
<1>1. PICK ps \in SUBSET People :
        Begin(a, "direct", None,
          <<WriteRoom(NewRoom("direct", None, ps, FALSE))>> \o
          [k \in 1..(2 * Cardinality(ps)) |->
             Grant(Listing(ps)[(k + 1) \div 2],
                   IF k % 2 = 1 THEN "participant" ELSE "room_manager", Fresh, FALSE)])
  BY DEF EnsureDirect
<1> DEFINE x == WriteRoom(NewRoom("direct", None, ps, FALSE))
           n == Cardinality(ps)
           G == [k \in 1..(2 * n) |->
                   Grant(Listing(ps)[(k + 1) \div 2],
                         IF k % 2 = 1 THEN "participant" ELSE "room_manager", Fresh, FALSE)]
<1>2. x \in Write /\ x.do = "room" /\ x.value.id = Fresh
  BY NewRoomRecord, WritesTyped DEF WriteRoom
<1>3. n \in Nat /\ Listing(ps) \in [1..n -> ps]
  <2>1. IsFiniteSet(ps)
    BY LedgerAssumption, FS_Subset
  <2>. QED
    BY <2>1, ListingOf
<1>4. G \in Seq(Write) /\ \A k \in DOMAIN G : G[k].do = "grant"
  <2> HIDE DEF n
  <2>1. ASSUME NEW k \in 1..(2 * n) PROVE G[k] \in Write /\ G[k].do = "grant"
    <3>1. (k + 1) \div 2 \in 1..n
      BY <1>3
    <3>2. Listing(ps)[(k + 1) \div 2] \in People
      BY <1>3, <3>1
    <3>3. (IF k % 2 = 1 THEN "participant" ELSE "room_manager") \in Roles /\ Fresh \in Nat
      BY DEF Roles, Fresh
    <3>4. G[k] = Grant(Listing(ps)[(k + 1) \div 2],
                       IF k % 2 = 1 THEN "participant" ELSE "room_manager", Fresh, FALSE)
      OBVIOUS
    <3> HIDE DEF G
    <3>5. G[k] \in Write
      BY <3>2, <3>3, <3>4, WritesTyped
    <3>. QED
      BY <3>4, <3>5 DEF Grant
  <2>2. G = [k \in 1..(2 * n) |-> G[k]]
    OBVIOUS
  <2> HIDE DEF G
  <2>3. G \in [1..(2 * n) -> Write] /\ 2 * n \in Nat
    BY <1>3, <2>1, <2>2
  <2>. QED
    BY <2>1, <2>3, SeqDef
<1> HIDE DEF x, G, n
<1> DEFINE s == <<x>> \o G
<1>5. /\ s \in Seq(Write) /\ s # <<>> /\ s[1] = x
      /\ \A k \in DOMAIN s : s[k] = x \/ s[k].do = "grant"
  <2>1. /\ <<x>> \in Seq(Write) /\ Len(<<x>>) = 1 /\ DOMAIN <<x>> = 1..1 /\ <<x>>[1] = x
    BY <1>2, FewWrites
  <2>2. /\ s \in Seq(Write) /\ Len(s) = 1 + Len(G) /\ Len(G) \in Nat /\ DOMAIN s = 1..(1 + Len(G))
        /\ \A k \in DOMAIN s :
             \/ k \in 1..1 /\ s[k] = <<x>>[k]
             \/ k > 1 /\ k - 1 \in DOMAIN G /\ s[k] = G[k - 1]
    BY <1>4, <2>1, InFront
  <2> HIDE DEF s
  <2>3. s # <<>> /\ s[1] = x
    BY <2>1, <2>2
  <2>. QED
    BY <1>2, <1>4, <2>1, <2>2, <2>3
<1>6. Begin(a, "direct", None, s)
  BY <1>1 DEF x, G, n
<1>7. "direct" \in Ops /\ calls < MaxCalls
  BY DEF EnsureDirect, Ready
<1> HIDE DEF s
<1>. QED
  BY <1>2, <1>5, <1>6, <1>7, Begun

\* A room written back by its reader.
LEMMA RoomRewritten ==
  ASSUME TypeOK, WellFormed(log), NEW r \in Rooms
  PROVE  /\ \A ps \in SUBSET People : [Room(r) EXCEPT !.members = ps] \in RoomRecords(Nat)
         /\ \A public, restricted \in BOOLEAN :
              [Room(r) EXCEPT !.public = public, !.restricted = restricted] \in RoomRecords(Nat)
         /\ [Room(r) EXCEPT !.archived = TRUE] \in RoomRecords(Nat)
         /\ Room(r).members \in SUBSET People /\ Room(r).id = r /\ r \in Number
         /\ IsRoom(log, r)
<1>1. Room(r) \in RoomRecords(Nat) /\ Room(r).id = r /\ r \in Number
  BY RoomRead DEF RoomRecords, Number
<1>2. \A ps \in SUBSET People : [Room(r) EXCEPT !.members = ps] \in RoomRecords(Nat)
  BY <1>1 DEF RoomRecords
<1>3. \A public, restricted \in BOOLEAN :
        [Room(r) EXCEPT !.public = public, !.restricted = restricted] \in RoomRecords(Nat)
  BY <1>1 DEF RoomRecords
<1>4. [Room(r) EXCEPT !.archived = TRUE] \in RoomRecords(Nat)
  BY <1>1 DEF RoomRecords
<1>5. IsRoom(log, r)
  BY RoomListed
<1>. QED
  BY <1>1, <1>2, <1>3, <1>4, <1>5 DEF RoomRecords

LEMMA JoinBegins ==
  ASSUME LedgerInv, NEW a \in Actors, Join(a) PROVE LedgerInv'
<1>1. PICK p \in People, r \in Rooms :
        Begin(a, "join", None,
              <<JoinWrite(p, Room(r)), Grant(p, "participant", r, FALSE), Notice(r)>>)
  BY DEF Join
<1> DEFINE x == JoinWrite(p, Room(r))
           y == Grant(p, "participant", r, FALSE)
           z == Notice(r)
<1>2. /\ r \in Number /\ [Room(r) EXCEPT !.members = @ \cup {p}] \in RoomRecords(Nat)
      /\ [Room(r) EXCEPT !.members = @ \cup {p}].id = r /\ IsRoom(log, r)
  <2>1. /\ r \in Number /\ Room(r).members \cup {p} \in SUBSET People
        /\ Room(r) \in RoomRecords(Number) /\ Room(r).id = r
    BY RoomRead, RoomRewritten DEF LedgerInv
  <2>. QED
    BY <2>1, RoomRewritten DEF LedgerInv, RoomRecords
<1>3. x \in Write /\ x.do = "room" /\ IsRoom(log, x.value.id)
  BY <1>2, WritesTyped DEF JoinWrite, WriteRoom
<1>4. y \in Write /\ y.do = "grant" /\ y.room # Fresh
  BY <1>2, WritesTyped DEF Grant, Roles, Number, Fresh
<1>5. z \in Write /\ z.do = "notice"
  BY <1>2, WritesTyped DEF Notice
<1>6. "join" \in Ops /\ calls < MaxCalls
  BY DEF Join, Ready
<1> HIDE DEF x, y, z
<1> DEFINE s == <<x, y, z>>
<1>7. s \in Seq(Write) /\ DOMAIN s = 1..3 /\ s[1] = x /\ s[2] = y /\ s[3] = z
  BY <1>3, <1>4, <1>5, FewWrites
<1>8. Begin(a, "join", None, s)
  BY <1>1 DEF x, y, z
<1> HIDE DEF s
<1>9. \A k \in DOMAIN s :
        /\ s[k].do \in {"room", "grant", "notice"}
        /\ s[k].do = "grant" => s[k].room # Fresh
        /\ s[k].do = "room" => IsRoom(log, s[k].value.id)
  BY <1>3, <1>4, <1>5, <1>7
<1>. QED
  BY <1>6, <1>7, <1>8, <1>9, Begun DEF Settled

LEMMA DepartureBegins ==
  ASSUME LedgerInv, NEW a \in Actors, Leave(a) \/ RemoveParticipant(a) PROVE LedgerInv'
<1>1. PICK op \in {"leave", "remove"}, p \in People, r \in Rooms :
        Ready(a, op) /\ Begin(a, op, p, Departure(p, Room(r)))
  BY DEF Leave, RemoveParticipant
<1> DEFINE x == WriteRoom([Room(r) EXCEPT !.members = @ \ {p}])
           y == Strip(Room(r).id, p)
           z == Notice(Room(r).id)
<1>2. /\ Room(r).id \in Number /\ [Room(r) EXCEPT !.members = @ \ {p}] \in RoomRecords(Nat)
      /\ [Room(r) EXCEPT !.members = @ \ {p}].id = r /\ IsRoom(log, r)
  <2>1. /\ Room(r).id \in Number /\ Room(r).members \ {p} \in SUBSET People
        /\ Room(r) \in RoomRecords(Number) /\ Room(r).id = r
    BY RoomRead, RoomRewritten DEF LedgerInv
  <2>. QED
    BY <2>1, RoomRewritten DEF LedgerInv, RoomRecords
<1>3. x \in Write /\ x.do = "room" /\ IsRoom(log, x.value.id)
  BY <1>2, WritesTyped DEF WriteRoom
<1>4. y \in Write /\ y.do = "strip" /\ y.who = p /\ y.room = Room(r).id
  BY <1>2, WritesTyped DEF Strip
<1>5. z \in Write /\ z.do = "notice" /\ z.room = Room(r).id
  BY <1>2, WritesTyped DEF Notice
<1>6. op \in Ops /\ calls < MaxCalls
  BY <1>1 DEF Ready
<1>7. Departure(p, Room(r)) = <<x, y, z>>
  BY DEF Departure
<1> HIDE DEF x, y, z
<1> DEFINE s == <<x, y, z>>
<1>8. s \in Seq(Write) /\ DOMAIN s = 1..3 /\ s[1] = x /\ s[2] = y /\ s[3] = z /\ Len(s) = 3
  BY <1>3, <1>4, <1>5, FewWrites
<1>9. Begin(a, op, p, s)
  BY <1>1, <1>7
<1> HIDE DEF s
<1>10. \A k \in DOMAIN s :
         /\ s[k].do \in {"room", "strip", "notice"}
         /\ s[k].do = "room" => IsRoom(log, s[k].value.id)
         /\ s[k].do = "strip" =>
              /\ s[k].who = p
              /\ Len(s) = k + 1 /\ s[k + 1].do = "notice" /\ s[k + 1].room = s[k].room
  BY <1>3, <1>4, <1>5, <1>8
<1>11. Settled(s)
  BY <1>10 DEF Settled
<1>12. p \in People \cup {None}
  OBVIOUS
<1>. QED
  BY <1>6, <1>8, <1>9, <1>10, <1>11, <1>12, Begun

\* One write, or one and a notice.
LEMMA ShortBegins ==
  ASSUME LedgerInv, NEW a \in Actors, NEW op \in Ops, calls < MaxCalls, NEW x \in Write,
         x.do \in {"member", "grant"} => x.room # Fresh,
         x.do = "revoke" => IsBinding(log, x.binding),
         x.do = "room" => IsRoom(log, x.value.id),
         x.do = "post" => op = "post",
         x.do # "strip",
         \/ Begin(a, op, None, <<x>>)
         \/ \E r \in Number : Begin(a, op, None, <<x, Notice(r)>>)
  PROVE  LedgerInv'
<1>1. CASE Begin(a, op, None, <<x>>)
  <2> DEFINE s == <<x>>
  <2>1. s \in Seq(Write) /\ DOMAIN s = 1..1 /\ s[1] = x
    BY FewWrites
  <2>2. Begin(a, op, None, s)
    BY <1>1
  <2> HIDE DEF s
  <2>3. Settled(s)
    BY <2>1 DEF Settled
  <2>. QED
    BY <2>1, <2>2, <2>3, Begun
<1>2. ASSUME NEW r \in Number, Begin(a, op, None, <<x, Notice(r)>>) PROVE LedgerInv'
  <2> DEFINE y == Notice(r)
  <2>1. y \in Write /\ y.do = "notice"
    BY WritesTyped DEF Notice
  <2> HIDE DEF y
  <2> DEFINE s == <<x, y>>
  <2>2. s \in Seq(Write) /\ DOMAIN s = 1..2 /\ s[1] = x /\ s[2] = y
    BY <2>1, FewWrites
  <2>3. Begin(a, op, None, s)
    BY <1>2 DEF y
  <2> HIDE DEF s
  <2>4. \A k \in DOMAIN s : s[k] = x \/ s[k].do = "notice"
    BY <2>1, <2>2
  <2>5. Settled(s)
    BY <2>4 DEF Settled
  <2>. QED
    BY <2>2, <2>3, <2>4, <2>5, Begun
<1>. QED
  BY <1>1, <1>2

LEMMA RoomChangeBegins ==
  ASSUME LedgerInv, NEW a \in Actors, UpdateSettings(a) \/ Archive(a) PROVE LedgerInv'
<1>1. CASE UpdateSettings(a)
  <2>1. PICK r \in Rooms, public \in BOOLEAN, restricted \in BOOLEAN :
          /\ Ready(a, "settings")
          /\ Begin(a, "settings", None,
                   <<SettingsWrite(Room(r), public, restricted)>> \o
                   (IF restricted # Room(r).restricted THEN <<Notice(r)>> ELSE <<>>))
    BY <1>1 DEF UpdateSettings
  <2> DEFINE x == SettingsWrite(Room(r), public, restricted)
             y == Notice(r)
  <2>2. x \in Write /\ x.do = "room" /\ r \in Number /\ IsRoom(log, x.value.id)
    <3>1. Room(r) \in RoomRecords(Number) /\ Room(r).id = r
      BY RoomRead DEF LedgerInv
    <3>2. [Room(r) EXCEPT !.public = public, !.restricted = restricted].id = r
      BY <3>1 DEF RoomRecords
    <3>. QED
      BY <3>2, RoomRewritten, WritesTyped DEF LedgerInv, SettingsWrite, WriteRoom
  <2>3. y \in Write
    BY <2>2, WritesTyped
  <2>4. <<x>> \o <<y>> = <<x, y>> /\ <<x>> \o <<>> = <<x>>
    BY <2>2, <2>3, OneInFront
  <2>5. Begin(a, "settings", None, <<x, y>>) \/ Begin(a, "settings", None, <<x>>)
    BY <2>1, <2>4
  <2>6. "settings" \in Ops /\ calls < MaxCalls
    BY <2>1 DEF Ready
  <2> HIDE DEF x
  <2>. QED
    BY <2>2, <2>5, <2>6, ShortBegins
<1>2. CASE Archive(a)
  <2>1. PICK r \in Rooms :
          /\ Ready(a, "archive")
          /\ Begin(a, "archive", None,
                   <<WriteRoom([Room(r) EXCEPT !.archived = TRUE]), Notice(r)>>)
    BY <1>2 DEF Archive
  <2> DEFINE x == WriteRoom([Room(r) EXCEPT !.archived = TRUE])
  <2>2. x \in Write /\ x.do = "room" /\ r \in Number /\ IsRoom(log, x.value.id)
    <3>1. Room(r) \in RoomRecords(Number) /\ Room(r).id = r
      BY RoomRead DEF LedgerInv
    <3>2. [Room(r) EXCEPT !.archived = TRUE].id = r
      BY <3>1 DEF RoomRecords
    <3>. QED
      BY <3>2, RoomRewritten, WritesTyped DEF LedgerInv, WriteRoom
  <2>3. "archive" \in Ops /\ calls < MaxCalls /\ Begin(a, "archive", None, <<x, Notice(r)>>)
    BY <2>1 DEF Ready
  <2> HIDE DEF x
  <2>. QED
    BY <2>2, <2>3, ShortBegins
<1>. QED
  BY <1>1, <1>2

LEMMA GrantBegins ==
  ASSUME LedgerInv, NEW a \in Actors, GrantCommand(a) PROVE LedgerInv'
<1>1. CASE GrantRole(a)
  <2>1. PICK p \in People, role \in {"viewer", "participant", "room_manager"}, r \in Rooms :
          Ready(a, "grant") /\ Begin(a, "grant", None, <<Grant(p, role, r, TRUE)>>)
    BY <1>1 DEF GrantRole
  <2> DEFINE x == Grant(p, role, r, TRUE)
  <2>2. r \in Number
    BY RoomRead DEF LedgerInv
  <2>3. x \in Write /\ x.do = "grant" /\ x.room # Fresh
    BY <2>2, WritesTyped DEF Roles, Grant, Number, Fresh
  <2>4. "grant" \in Ops /\ calls < MaxCalls /\ Begin(a, "grant", None, <<x>>)
    BY <2>1 DEF Ready
  <2> HIDE DEF x
  <2>. QED
    BY <2>3, <2>4, ShortBegins
<1>2. CASE GrantAdmin(a) \/ BootstrapAdmin(a)
  <2>1. PICK op \in {"admin", "bootstrap"}, p \in People :
          Ready(a, op) /\ Begin(a, op, None, <<Grant(p, "chat_admin", None, FALSE)>>)
    BY <1>2 DEF GrantAdmin, BootstrapAdmin
  <2> DEFINE x == Grant(p, "chat_admin", None, FALSE)
  <2>2. x \in Write /\ x.do = "grant" /\ x.room # Fresh
    <3>1. None \in Nat \cup {None} /\ "chat_admin" \in Roles /\ None # Fresh
      BY LedgerAssumption DEF Roles, Fresh
    <3>2. x \in Write
      BY <3>1, WritesTyped
    <3>. QED
      BY <3>1, <3>2 DEF Grant
  <2>3. op \in Ops /\ calls < MaxCalls /\ Begin(a, op, None, <<x>>)
    BY <2>1 DEF Ready
  <2> HIDE DEF x
  <2>. QED
    BY <2>2, <2>3, ShortBegins
<1>3. CASE RevokeBinding(a)
  <2>1. PICK b \in ActiveBindings :
          /\ Ready(a, "revoke")
          /\ Begin(a, "revoke", None,
                   <<RevokeOne(b)>> \o
                   (IF BindingRecord(b).room = None THEN <<>> ELSE <<Notice(BindingRecord(b).room)>>))
    BY <1>3 DEF RevokeBinding
  <2> DEFINE x == RevokeOne(b)
             r == BindingRecord(b).room
  <2>2. IsBinding(log, b) /\ b \in Number /\ r \in Number \cup {None}
    <3>1. b \in Bindings
      BY DEF ActiveBindings
    <3>. QED
      BY <3>1, BindingListed DEF LedgerInv, GrantRecords
  <2>3. x \in Write /\ x.do = "revoke" /\ x.binding = b
    BY <2>2, WritesTyped DEF RevokeOne
  <2>4. /\ r # None => <<x>> \o <<Notice(r)>> = <<x, Notice(r)>>
        /\ <<x>> \o <<>> = <<x>>
    <3>1. r # None => Notice(r) \in Write
      BY <2>2, WritesTyped
    <3>2. <<x>> \o <<>> = <<x>>
      BY <2>3, OneInFront
    <3> HIDE DEF x, r
    <3>. QED
      BY <2>3, <3>1, <3>2, OneInFront
  <2>5. \/ Begin(a, "revoke", None, <<x>>)
        \/ r \in Number /\ Begin(a, "revoke", None, <<x, Notice(r)>>)
    BY <2>1, <2>2, <2>4
  <2>6. "revoke" \in Ops /\ calls < MaxCalls
    BY <2>1 DEF Ready
  <2> HIDE DEF x, r
  <2>. QED
    BY <2>2, <2>3, <2>5, <2>6, ShortBegins
<1>. QED
  BY <1>1, <1>2, <1>3 DEF GrantCommand

LEMMA MessageBegins ==
  ASSUME LedgerInv, NEW a \in Actors, MessageCommand(a) PROVE LedgerInv'
<1>1. Messages \subseteq Number
  BY DEF Messages, Records, Positions, Number, LedgerInv, TypeOK
<1>2. \A r \in Rooms : r \in Number
  BY RoomRead DEF LedgerInv
<1>3. CASE PostMessage(a)
  <2>1. PICK p \in People, r \in Rooms, key \in Keys \cup {None}, body \in Bodies,
             t \in {None} \cup Messages :
          Ready(a, "post") /\ Begin(a, "post", None, <<Post(r, t, p, key, body)>>)
    BY <1>3 DEF PostMessage
  <2> DEFINE x == Post(r, t, p, key, body)
  <2>2. r \in Number /\ t \in Number \cup {None}
    BY <1>1, <1>2
  <2>3. x \in Write /\ x.do = "post"
    BY <2>2, WritesTyped DEF Post
  <2>4. "post" \in Ops /\ calls < MaxCalls /\ Begin(a, "post", None, <<x>>)
    BY <2>1 DEF Ready
  <2> HIDE DEF x
  <2>. QED
    BY <2>3, <2>4, ShortBegins
<1>4. CASE EditMessage(a) \/ RedactMessage(a) \/ SetReaction(a)
  <2>1. PICK op \in {"edit", "redact", "react"}, value \in ChangeRecords({0}) :
          Ready(a, op) /\ Begin(a, op, None, <<Change(value)>>)
    <3>1. CASE EditMessage(a)
      <4>1. PICK m \in Messages, body \in Bodies :
              /\ Ready(a, "edit")
              /\ Begin(a, "edit", None,
                       <<Change([type |-> "edit", seq |-> 0, message |-> m, body |-> body])>>)
        BY <3>1 DEF EditMessage
      <4>2. [type |-> "edit", seq |-> 0, message |-> m, body |-> body] \in ChangeRecords({0})
        BY <1>1 DEF ChangeRecords
      <4>. QED
        BY <4>1, <4>2
    <3>2. CASE RedactMessage(a)
      <4>1. PICK m \in Messages :
              /\ Ready(a, "redact")
              /\ Begin(a, "redact", None, <<Change([type |-> "redact", seq |-> 0, message |-> m])>>)
        BY <3>2 DEF RedactMessage
      <4>2. [type |-> "redact", seq |-> 0, message |-> m] \in ChangeRecords({0})
        BY <1>1 DEF ChangeRecords
      <4>. QED
        BY <4>1, <4>2
    <3>3. CASE SetReaction(a)
      <4>1. PICK p \in People, m \in Messages, on \in BOOLEAN :
              /\ Ready(a, "react")
              /\ Begin(a, "react", None,
                   <<Change([type |-> "react", seq |-> 0, message |-> m, who |-> p, on |-> on])>>)
        BY <3>3 DEF SetReaction
      <4>2. [type |-> "react", seq |-> 0, message |-> m, who |-> p, on |-> on]
              \in ChangeRecords({0})
        BY <1>1 DEF ChangeRecords
      <4>. QED
        BY <4>1, <4>2
    <3>. QED
      BY <1>4, <3>1, <3>2, <3>3
  <2> DEFINE x == Change(value)
  <2>2. x \in Write /\ x.do = "change"
    BY WritesTyped DEF Change
  <2>3. op \in Ops /\ calls < MaxCalls /\ Begin(a, op, None, <<x>>)
    BY <2>1 DEF Ready
  <2> HIDE DEF x
  <2>. QED
    BY <2>2, <2>3, ShortBegins
<1>5. CASE MarkRead(a) \/ SetAttachment(a)
  <2>1. PICK op \in {"mark", "follow"}, value \in MarkRecords({0}), r \in Rooms,
             t \in {None} \cup Messages :
          Ready(a, op) /\ Begin(a, op, None, <<Put(value, r, t)>>)
    <3>1. CASE MarkRead(a)
      <4>1. PICK p \in People, r \in Rooms, t \in {None} \cup Messages :
              Ready(a, "mark") /\ Begin(a, "mark", None, <<Put(ReadTo(r, t, p), r, t)>>)
        BY <3>1 DEF MarkRead
      <4>2. ReadTo(r, t, p) \in MarkRecords({0})
        BY <1>2, ReadToRecord DEF LedgerInv
      <4>. QED
        BY <4>1, <4>2
    <3>2. CASE SetAttachment(a)
      <4>1. PICK p \in People, r \in Rooms, on \in BOOLEAN, t \in {None} \cup Messages :
              /\ Ready(a, "follow")
              /\ Begin(a, "follow", None,
                   <<Put([type |-> "follow", seq |-> 0, room |-> r, thread |-> t, who |-> p,
                          on |-> on], r, t)>>)
        BY <3>2 DEF SetAttachment
      <4>2. [type |-> "follow", seq |-> 0, room |-> r, thread |-> t, who |-> p, on |-> on]
              \in MarkRecords({0})
        BY <1>1, <1>2 DEF MarkRecords
      <4>. QED
        BY <4>1, <4>2
    <3>. QED
      BY <1>5, <3>1, <3>2
  <2> DEFINE x == Put(value, r, t)
  <2>2. r \in Number /\ t \in Number \cup {None}
    BY <1>1, <1>2
  <2>3. x \in Write /\ x.do = "put"
    BY <2>2, WritesTyped DEF Put
  <2>4. op \in Ops /\ calls < MaxCalls /\ Begin(a, op, None, <<x>>)
    BY <2>1 DEF Ready
  <2> HIDE DEF x
  <2>. QED
    BY <2>3, <2>4, ShortBegins
<1>. QED
  BY <1>3, <1>4, <1>5 DEF MessageCommand

-----------------------------------------------------------------------------
\* Preparing a write

LEMMA TheWrite ==
  ASSUME LedgerInv, NEW a \in Actors, call[a].rec = None, call[a].todo # <<>>
  PROVE  /\ call[a] \in Calls /\ CallFits(log, call[a])
         /\ Now(a) \in Write /\ Now(a) = call[a].todo[1] /\ Rest(a) \in Seq(Write)
         /\ Len(call[a].todo) \in Number /\ Len(Rest(a)) = Len(call[a].todo) - 1
         /\ DOMAIN call[a].todo = 1..Len(call[a].todo)
         /\ DOMAIN Rest(a) = 1..(Len(call[a].todo) - 1)
         /\ \A k \in DOMAIN Rest(a) :
              k + 1 \in DOMAIN call[a].todo /\ Rest(a)[k] = call[a].todo[k + 1]
         /\ call[a].since = 0 \/ Now(a).do \in {"revoke", "notice"}
<1> DEFINE s == call[a].todo
<1>1. call[a] \in Calls /\ CallFits(log, call[a])
  BY DEF LedgerInv, TypeOK
<1>2. s \in Seq(Write) /\ s # <<>>
  BY <1>1 DEF Calls
<1>3. Len(s) \in Nat /\ DOMAIN s = 1..Len(s)
  BY <1>2
<1>4. /\ Len(s) \in Number /\ Head(s) = s[1] /\ s[1] \in Write
      /\ Tail(s) \in Seq(Write) /\ Len(Tail(s)) = Len(s) - 1
      /\ \A k \in 1..(Len(s) - 1) : Tail(s)[k] = s[k + 1]
      /\ DOMAIN Tail(s) = 1..(Len(s) - 1)
  BY <1>2, HeadAndRest
<1>5. Now(a) = Head(s) /\ Rest(a) = Tail(s)
  BY DEF Now, Rest
<1> HIDE DEF s
<1>6. \A k \in DOMAIN Rest(a) : k + 1 \in DOMAIN s /\ Rest(a)[k] = s[k + 1]
  BY <1>3, <1>4, <1>5
<1>7. call[a].since = 0 \/ Now(a).do \in {"revoke", "notice"}
  <2> SUFFICES ASSUME call[a].since # 0 PROVE Now(a).do \in {"revoke", "notice"}
    OBVIOUS
  <2>1. call[a].since > 0
    BY <1>1 DEF Calls
  <2>2. 1 \in DOMAIN s /\ (1 < Len(s) \/ 1 = Len(s))
    BY <1>3, <1>4 DEF Number
  <2>. QED
    BY <1>1, <1>2, <1>4, <1>5, <2>1, <2>2 DEF CallFits, StripsAll, s
<1>. QED
  BY <1>1, <1>3, <1>4, <1>5, <1>6, <1>7 DEF s

\* A call goes on with a record to append and its other writes, others before them.
LEMMA Continues ==
  ASSUME LedgerInv, NEW a \in Actors, call[a].rec = None, call[a].todo # <<>>,
         NEW pre \in Seq(Write), \A k \in DOMAIN pre : pre[k].do \in {"member", "notice"},
         NEW rest \in Seq(Write), DOMAIN rest = DOMAIN Rest(a), Len(rest) = Len(Rest(a)),
         \A k \in DOMAIN rest :
           /\ rest[k].do = Rest(a)[k].do
           /\ rest[k].do \notin {"member", "grant"} => rest[k] = Rest(a)[k],
         NEW rec \in Record \cup {None},
         rec # None => MayFollow(log, rec),
         rec # None /\ rec.type = "message" /\ rec.key # None => call[a].op = "post",
         NEW todo \in Seq(Write), todo = pre \o rest,
         Proceed(a, rec, todo), UNCHANGED <<log, calls, crashes>>,
         Settled(todo) \/ (rec # None /\ rec.type = "room" /\ rec.id = Fresh),
         call[a].since = 0 \/ StripsAll(log, [call[a] EXCEPT !.rec = rec, !.todo = todo])
  PROVE  LedgerInv'
<1> DEFINE c == [call[a] EXCEPT !.rec = rec, !.todo = todo]
<1>1. call[a] \in Calls /\ CallFits(log, call[a])
  BY TheWrite
<1>2. /\ c \in Calls /\ c.op = call[a].op /\ c.who = call[a].who /\ c.since = call[a].since
      /\ c.rec = rec /\ c.todo = todo
  BY <1>1 DEF Calls
<1>3. call' = [call EXCEPT ![a] = IF rec = None /\ todo = <<>> THEN Idle ELSE c]
  BY DEF Proceed
<1>4. call[a].since = 0 \/ StripsAll(log, c)
  OBVIOUS
<1> HIDE DEF c
<1>5. /\ DOMAIN todo = 1..Len(todo) /\ Len(todo) = Len(pre) + Len(rest)
      /\ \A k \in DOMAIN todo :
           \/ k \in DOMAIN pre /\ todo[k] = pre[k]
           \/ k > Len(pre) /\ k - Len(pre) \in DOMAIN rest /\ todo[k] = rest[k - Len(pre)]
  <2> DEFINE t == pre \o rest
  <2>1. /\ Len(t) = Len(pre) + Len(rest) /\ DOMAIN t = 1..(Len(pre) + Len(rest))
        /\ \A k \in DOMAIN t :
             \/ k \in DOMAIN pre /\ t[k] = pre[k]
             \/ k > Len(pre) /\ k - Len(pre) \in DOMAIN rest /\ t[k] = rest[k - Len(pre)]
    BY InFront
  <2>2. todo = t
    OBVIOUS
  <2> HIDE DEF t
  <2>. QED
    BY <2>1, <2>2
<1>6. \A k \in DOMAIN rest :
        /\ k + 1 \in DOMAIN call[a].todo /\ rest[k].do = call[a].todo[k + 1].do
        /\ rest[k].do \notin {"member", "grant"} => rest[k] = call[a].todo[k + 1]
  BY TheWrite
<1>7. \A k \in DOMAIN todo : todo[k].do \notin {"member", "notice"} =>
        /\ k > Len(pre) /\ k - Len(pre) \in DOMAIN rest /\ todo[k] = rest[k - Len(pre)]
        /\ k - Len(pre) + 1 \in DOMAIN call[a].todo
        /\ todo[k].do = call[a].todo[k - Len(pre) + 1].do
        /\ todo[k].do # "grant" => todo[k] = call[a].todo[k - Len(pre) + 1]
  BY <1>5, <1>6
<1>8. CallFits(log, c)
  <2>1. FreshFirst(c)
    BY <1>2 DEF FreshFirst
  <2>2. RevokesBindings(log, c)
    BY <1>1, <1>2, <1>7 DEF CallFits, RevokesBindings
  <2>3. KeysFromPosts(c)
    <3>1. KeysFromPosts(call[a])
      BY <1>1 DEF CallFits
    <3>2. (\E k \in DOMAIN todo : todo[k].do = "post") =>
            \E k \in DOMAIN call[a].todo : call[a].todo[k].do = "post"
      BY <1>7
    <3>. QED
      BY <1>2, <3>1, <3>2 DEF KeysFromPosts
  <2>4. StripsLast(c)
    <3> SUFFICES ASSUME NEW k \in DOMAIN todo, todo[k].do = "strip"
                 PROVE  /\ c.since = 0 /\ todo[k].who = c.who
                        /\ Len(todo) = k + 1 /\ todo[k + 1].do = "notice"
                        /\ todo[k + 1].room = todo[k].room
      BY <1>2 DEF StripsLast
    <3> DEFINE j == k - Len(pre)
    <3>1. j \in DOMAIN rest /\ j + 1 \in DOMAIN call[a].todo /\ todo[k] = call[a].todo[j + 1]
      BY <1>7
    <3>2. /\ call[a].since = 0 /\ todo[k].who = call[a].who
          /\ Len(call[a].todo) = j + 2
          /\ call[a].todo[j + 2].do = "notice" /\ call[a].todo[j + 2].room = todo[k].room
      <4>1. Len(call[a].todo) = (j + 1) + 1 /\ (j + 1) + 1 = j + 2
        BY <1>1, <3>1 DEF CallFits, StripsLast
      <4>. QED
        BY <1>1, <3>1, <4>1 DEF CallFits, StripsLast
    <3>3. Len(rest) = j + 1 /\ j + 1 \in DOMAIN rest
      BY <3>1, <3>2, TheWrite
    <3>4. rest[j + 1] = call[a].todo[j + 2]
      <4>1. (j + 1) + 1 = j + 2
        BY <3>1
      <4>. QED
        BY <1>6, <3>2, <3>3, <4>1
    <3>5. k + 1 \in DOMAIN todo /\ Len(todo) = k + 1 /\ todo[k + 1] = rest[j + 1]
      <4>1. Len(pre) \in Nat /\ k \in Nat /\ DOMAIN pre = 1..Len(pre)
        BY <1>5
      <4>2. Len(todo) = k + 1 /\ k + 1 > Len(pre)
        BY <1>5, <3>1, <3>3, <4>1
      <4>3. k + 1 \in DOMAIN todo /\ k + 1 \notin DOMAIN pre /\ (k + 1) - Len(pre) = j + 1
        BY <1>5, <4>1, <4>2
      <4>. QED
        BY <1>5, <4>2, <4>3
    <3>. QED
      BY <1>2, <3>2, <3>4, <3>5
  <2>5. StripsAll(log, c)
    BY <1>2, <1>4 DEF StripsAll
  <2>6. RewritesRooms(log, c)
    <3> SUFFICES ASSUME NEW k \in DOMAIN todo, todo[k].do = "room", todo[k].value.id # Fresh
                 PROVE  IsRoom(log, todo[k].value.id)
      BY <1>2 DEF RewritesRooms
    <3>1. PICK j \in DOMAIN call[a].todo : todo[k] = call[a].todo[j]
      BY <1>7
    <3>. QED
      BY <1>1, <3>1 DEF CallFits, RewritesRooms
  <2>. QED
    BY <1>2, <2>1, <2>2, <2>3, <2>4, <2>5, <2>6 DEF CallFits
<1>9. calls' \in 0..MaxCalls /\ crashes' \in 0..MaxCrashes
  BY DEF LedgerInv, TypeOK
<1>10. CASE rec = None /\ todo = <<>>
  BY <1>3, <1>9, <1>10, IdleFits, OneCall
<1>11. CASE ~(rec = None /\ todo = <<>>)
  BY <1>2, <1>3, <1>8, <1>9, <1>11, OneCall
<1>. QED
  BY <1>10, <1>11

\* Only before a new room are there writes to a room without a number.
LEMMA AllSettled ==
  ASSUME LedgerInv, NEW a \in Actors, call[a].rec = None, call[a].todo # <<>>,
         Now(a).do = "room" => Now(a).value.id # Fresh
  PROVE  Settled(call[a].todo) /\ Settled(Rest(a))
<1>1. Settled(call[a].todo)
  <2>1. FreshFirst(call[a]) /\ Now(a) = call[a].todo[1]
    BY TheWrite DEF CallFits
  <2>. QED
    BY <2>1 DEF FreshFirst
<1>2. \A k \in DOMAIN Rest(a) : k + 1 \in DOMAIN call[a].todo /\ Rest(a)[k] = call[a].todo[k + 1]
  BY TheWrite
<1>. QED
  BY <1>1, <1>2 DEF Settled

\* The usual case: a record, and then the rest.
LEMMA GoesOn ==
  ASSUME LedgerInv, NEW a \in Actors, call[a].rec = None, call[a].todo # <<>>,
         NEW rec \in Record \cup {None},
         rec # None => MayFollow(log, rec),
         rec # None /\ rec.type = "message" /\ rec.key # None => call[a].op = "post",
         Now(a).do = "room" => Now(a).value.id # Fresh,
         Proceed(a, rec, Rest(a)), UNCHANGED <<log, calls, crashes>>,
         call[a].since = 0 \/ StripsAll(log, [call[a] EXCEPT !.rec = rec, !.todo = Rest(a)])
  PROVE  LedgerInv'
<1>1. Rest(a) \in Seq(Write) /\ Settled(Rest(a))
  BY TheWrite, AllSettled
<1> DEFINE pre == <<>>
           rest == Rest(a)
<1>2. pre \in Seq(Write) /\ DOMAIN pre = {} /\ pre \o rest = rest
  BY <1>1, ConcatEmptySeq
<1>3. rest \in Seq(Write) /\ DOMAIN rest = DOMAIN Rest(a) /\ Len(rest) = Len(Rest(a))
  BY <1>1
<1>4. rest = pre \o rest
  BY <1>2
<1>5. /\ \A k \in DOMAIN pre : pre[k].do \in {"member", "notice"}
      /\ \A k \in DOMAIN rest :
           /\ rest[k].do = Rest(a)[k].do
           /\ rest[k].do \notin {"member", "grant"} => rest[k] = Rest(a)[k]
  BY <1>2
<1>6. Proceed(a, rec, rest) /\ Settled(rest)
      /\ (call[a].since = 0 \/ StripsAll(log, [call[a] EXCEPT !.rec = rec, !.todo = rest]))
  BY <1>1
<1> HIDE DEF pre, rest
<1>. QED
  BY <1>2, <1>3, <1>4, <1>5, <1>6, Continues

LEMMA MemberPrepared ==
  ASSUME LedgerInv, NEW a \in Actors, UpsertMember(a), UNCHANGED <<log, calls, crashes>>
  PROVE  LedgerInv'
<1> DEFINE w == Now(a)
           rec == [type |-> "member", seq |-> NextSeq, room |-> w.room, who |-> w.who,
                   joined |-> w.joined]
<1>1. call[a].rec = None /\ call[a].todo # <<>> /\ w.do = "member" /\ Proceed(a, rec, Rest(a))
  BY DEF UpsertMember, Step, Now
<1>2. w \in [do : {"member"}, room : Nat, who : People, joined : BOOLEAN]
  BY <1>1, TheWrite, WriteKinds
<1>3. w.room # Fresh
  <2>1. Settled(call[a].todo) /\ w = call[a].todo[1] /\ 1 \in DOMAIN call[a].todo
    BY <1>1, TheWrite, AllSettled DEF Number
  <2>. QED
    BY <1>1, <2>1 DEF Settled
<1>4. rec \in MemberRecords
  BY <1>2, <1>3, NextSeqIsHighest DEF MemberRecords, Number, Fresh, LedgerInv
<1>5. rec \in Record /\ MayFollow(log, rec) /\ rec.type = "member"
  BY <1>4 DEF Record, MayFollow, MemberRecords
<1>6. call[a].since = 0
  BY <1>1, TheWrite
<1> HIDE DEF rec
<1>. QED
  BY <1>1, <1>5, <1>6, GoesOn

LEMMA MessageRecord ==
  ASSUME TypeOK, NEW r \in Number, NEW t \in Number \cup {None},
         NEW author \in People \cup {System}, NEW key \in Keys \cup {None},
         NEW body \in Bodies \cup {None}
  PROVE  /\ Message(r, t, author, key, body) \in Record
         /\ MayFollow(log, Message(r, t, author, key, body))
         /\ Message(r, t, author, key, body).type = "message"
         /\ Message(r, t, author, key, body).key = key
<1>1. NextSeq \in Number /\ ScopeEnd(r, t) + 1 \in Number
  BY NextSeqIsHighest, ScopeNumbers DEF Number
<1>2. Message(r, t, author, key, body) \in MessageRecords
  BY <1>1 DEF Message, MessageRecords, Fresh
<1>. QED
  BY <1>2 DEF Record, MayFollow, MessageRecords, Message

LEMMA NoticePrepared ==
  ASSUME LedgerInv, NEW a \in Actors, SystemMessage(a), UNCHANGED <<log, calls, crashes>>
  PROVE  LedgerInv'
<1> DEFINE rec == Message(Now(a).room, None, System, None, None)
           c == [call[a] EXCEPT !.rec = rec, !.todo = Rest(a)]
<1>1. call[a].rec = None /\ call[a].todo # <<>> /\ Now(a).do = "notice" /\ Proceed(a, rec, Rest(a))
  BY DEF SystemMessage, Step, Now
<1>2. Now(a).room \in Number
  BY <1>1, TheWrite, WriteKinds
<1>3. rec \in Record /\ MayFollow(log, rec) /\ rec.type = "message" /\ rec.key = None
  BY <1>2, MessageRecord DEF LedgerInv
<1>4. call[a] \in Calls /\ StripsAll(log, call[a]) /\ rec # None
  BY <1>1, <1>3, TheWrite, ChatAssumption DEF CallFits
<1> HIDE DEF rec
<1>5. c.rec = rec /\ c.todo = Rest(a) /\ c.since = call[a].since
  BY <1>4 DEF Calls
<1> HIDE DEF c
<1>6. ASSUME call[a].since # 0 PROVE StripsAll(log, c)
  <2>1. call[a].since > 0 /\ call[a].since <= Len(log)
        /\ \A k \in DOMAIN call[a].todo : k < Len(call[a].todo) => call[a].todo[k].do = "revoke"
    BY <1>4, <1>6 DEF StripsAll, Calls
  <2>2. Len(call[a].todo) = 1 /\ Len(Rest(a)) = 0 /\ Rest(a) \in Seq(Write)
    <3>1. /\ Len(call[a].todo) \in Number /\ Now(a) = call[a].todo[1]
          /\ DOMAIN call[a].todo = 1..Len(call[a].todo)
          /\ Len(Rest(a)) = Len(call[a].todo) - 1 /\ Rest(a) \in Seq(Write)
      BY <1>1, TheWrite
    <3>2. ~(1 < Len(call[a].todo))
      BY <1>1, <2>1, <3>1 DEF Number
    <3>3. Len(call[a].todo) = 1
      <4> DEFINE n == Len(call[a].todo)
      <4>1. n \in Number /\ ~(1 < n)
        BY <3>1, <3>2
      <4> HIDE DEF n
      <4>2. n = 1
        BY <4>1 DEF Number
      <4>. QED
        BY <4>2 DEF n
    <3>. QED
      BY <3>1, <3>3
  <2>3. Rest(a) = <<>>
    BY <2>2, EmptySeq
  <2>. QED
    BY <1>3, <1>4, <1>5, <2>1, <2>3 DEF StripsAll
<1>. QED
  BY <1>1, <1>3, <1>6, GoesOn DEF c

LEMMA PostPrepared ==
  ASSUME LedgerInv, NEW a \in Actors, AppendMessage(a), UNCHANGED <<log, calls, crashes>>
  PROVE  LedgerInv'
<1> DEFINE m == Now(a)
           rec == Message(m.room, m.thread, m.author, m.key, m.body)
<1>1. /\ call[a].rec = None /\ call[a].todo # <<>> /\ m.do = "post"
      /\ Proceed(a, None, Rest(a)) \/ Proceed(a, rec, Rest(a))
  BY DEF AppendMessage, Step, Now
<1>2. m \in [do : {"post"}, room : Number, thread : Number \cup {None}, author : People,
             key : Keys \cup {None}, body : Bodies]
  BY <1>1, TheWrite, WriteKinds
<1>3. rec \in Record /\ MayFollow(log, rec) /\ rec.type = "message"
  <2>1. /\ m.room \in Number /\ m.thread \in Number \cup {None}
        /\ m.author \in People \cup {System} /\ m.key \in Keys \cup {None}
        /\ m.body \in Bodies \cup {None}
    BY <1>2
  <2> HIDE DEF m
  <2>. QED
    BY <2>1, MessageRecord DEF LedgerInv
<1>4. call[a].since = 0
  BY <1>1, TheWrite
<1>5. call[a].op = "post"
  <2>1. KeysFromPosts(call[a]) /\ 1 \in DOMAIN call[a].todo /\ m = call[a].todo[1]
    BY <1>1, TheWrite DEF CallFits, Number
  <2>. QED
    BY <1>1, <2>1 DEF KeysFromPosts
<1> HIDE DEF rec
<1>. QED
  BY <1>1, <1>3, <1>4, <1>5, GoesOn

LEMMA ChangePrepared ==
  ASSUME LedgerInv, NEW a \in Actors, ChangeMessage(a), UNCHANGED <<log, calls, crashes>>
  PROVE  LedgerInv'
<1> DEFINE v == Now(a).value
           rec == [v EXCEPT !.seq = NextSeq]
<1>1. /\ call[a].rec = None /\ call[a].todo # <<>> /\ Now(a).do = "change"
      /\ v.message \in Messages /\ Proceed(a, rec, Rest(a))
  BY DEF ChangeMessage, Step, Now
<1>2. v \in ChangeRecords({0})
  BY <1>1, TheWrite, WriteKinds
<1>3. NextSeq \in Number /\ v.message \in DOMAIN log /\ log[v.message].type = "message"
      /\ log[v.message].seq < NextSeq
  BY <1>1, NextSeqIsHighest DEF LedgerInv, Messages, Records, Positions, TypeOK
<1>4. rec \in ChangeRecords(Number) /\ rec.message = v.message /\ rec.seq = NextSeq
      /\ rec.type \in {"edit", "redact", "react"}
  BY <1>2, <1>3 DEF ChangeRecords
<1>5. rec \in Record /\ MayFollow(log, rec) /\ rec.type \in {"edit", "redact", "react"}
  BY <1>3, <1>4 DEF Record, MayFollow
<1>6. call[a].since = 0
  BY <1>1, TheWrite
<1> HIDE DEF rec
<1>. QED
  BY <1>1, <1>5, <1>6, GoesOn

LEMMA MarkPrepared ==
  ASSUME LedgerInv, NEW a \in Actors, UpsertMark(a), UNCHANGED <<log, calls, crashes>>
  PROVE  LedgerInv'
<1> DEFINE v == Now(a).value
           rec == [v EXCEPT !.seq = NextSeq]
<1>1. /\ call[a].rec = None /\ call[a].todo # <<>> /\ Now(a).do = "put"
      /\ Proceed(a, rec, Rest(a))
  BY DEF UpsertMark, Step, Now
<1>2. v \in MarkRecords({0}) /\ NextSeq \in Number
  BY <1>1, TheWrite, WriteKinds, NextSeqIsHighest DEF LedgerInv
<1>3. rec \in MarkRecords(Number) /\ rec.type \in {"cursor", "follow"}
  BY <1>2 DEF MarkRecords
<1>4. rec \in Record /\ MayFollow(log, rec)
  BY <1>3 DEF Record, MayFollow
<1>5. call[a].since = 0
  BY <1>1, TheWrite
<1> HIDE DEF rec
<1>. QED
  BY <1>1, <1>3, <1>4, <1>5, GoesOn

LEMMA GrantPrepared ==
  ASSUME LedgerInv, NEW a \in Actors, EnsureGrant(a), UNCHANGED <<log, calls, crashes>>
  PROVE  LedgerInv'
<1> DEFINE g == Now(a)
           rec == [id |-> Fresh, type |-> "grant", seq |-> NextSeq, who |-> g.who,
                   role |-> g.role, room |-> g.room, active |-> TRUE]
           pre == IF g.announce THEN <<Notice(g.room)>> ELSE <<>>
<1>1. /\ call[a].rec = None /\ call[a].todo # <<>> /\ g.do = "grant"
      /\ Proceed(a, None, Rest(a)) \/ Proceed(a, rec, pre \o Rest(a))
  BY DEF EnsureGrant, Step, Now
<1>2. /\ g \in [do : {"grant"}, room : Nat \cup {None}, who : People, role : Roles,
                announce : BOOLEAN]
      /\ g.announce => g.room \in Number
  BY <1>1, TheWrite, WriteKinds
<1>3. g.room # Fresh
  <2>1. Settled(call[a].todo) /\ g = call[a].todo[1] /\ 1 \in DOMAIN call[a].todo
    BY <1>1, TheWrite, AllSettled DEF Number
  <2>. QED
    BY <1>1, <2>1 DEF Settled
<1>4. rec \in GrantRecords
  <2>1. NextSeq \in Number /\ Fresh \in Nat
    BY NextSeqIsHighest DEF LedgerInv, Fresh
  <2>2. g.room \in Number \cup {None} /\ g.who \in People /\ g.role \in Roles
    BY <1>2, <1>3 DEF Number, Fresh
  <2> HIDE DEF g
  <2>. QED
    BY <2>1, <2>2 DEF GrantRecords
<1>5. rec \in Record /\ MayFollow(log, rec) /\ rec.type = "grant"
  BY <1>4 DEF Record, MayFollow
<1>6. pre \in Seq(Write) /\ \A k \in DOMAIN pre : pre[k].do = "notice"
  <2>1. CASE g.announce
    <3>1. Notice(g.room) \in Write /\ Notice(g.room).do = "notice" /\ pre = <<Notice(g.room)>>
      BY <1>2, <2>1, WritesTyped DEF Notice
    <3>2. <<Notice(g.room)>> \in Seq(Write) /\ DOMAIN <<Notice(g.room)>> = 1..1
          /\ <<Notice(g.room)>>[1] = Notice(g.room)
      BY <3>1, FewWrites
    <3> HIDE DEF pre
    <3>. QED
      BY <3>1, <3>2
  <2>2. CASE ~g.announce
    BY <2>2, EmptySeq
  <2>. QED
    BY <2>1, <2>2
<1>7. call[a].since = 0
  BY <1>1, TheWrite
<1>8. CASE Proceed(a, None, Rest(a))
  BY <1>1, <1>7, <1>8, GoesOn
<1>9. CASE Proceed(a, rec, pre \o Rest(a))
  <2> HIDE DEF pre, rec
  <2> DEFINE rest == Rest(a)
             todo == pre \o rest
  <2>1. rest \in Seq(Write) /\ Settled(rest)
    BY <1>1, TheWrite, AllSettled
  <2>2. /\ todo \in Seq(Write)
        /\ \A k \in DOMAIN todo :
             \/ k \in DOMAIN pre /\ todo[k] = pre[k]
             \/ k > Len(pre) /\ k - Len(pre) \in DOMAIN rest /\ todo[k] = rest[k - Len(pre)]
    BY <1>6, <2>1, InFront
  <2>3. Settled(todo)
    <3> HIDE DEF rest, todo
    <3>. QED
      BY <1>6, <2>1, <2>2 DEF Settled
  <2>4. DOMAIN rest = DOMAIN Rest(a) /\ Len(rest) = Len(Rest(a)) /\ \A k \in DOMAIN rest : rest[k] = Rest(a)[k]
    OBVIOUS
  <2>5. todo = pre \o rest /\ Proceed(a, rec, todo)
    BY <1>9
  <2> HIDE DEF rest, todo
  <2>. QED
    BY <1>1, <1>5, <1>6, <1>7, <2>1, <2>2, <2>3, <2>4, <2>5, Continues
<1>. QED
  BY <1>1, <1>8, <1>9

\* A binding is revoked by a record of its own, above it; a departure has then one
\* revocation less to prepare and one to append.
LEMMA RevocationPrepared ==
  ASSUME LedgerInv, NEW a \in Actors, RevokeGrant(a), UNCHANGED <<log, calls, crashes>>
  PROVE  LedgerInv'
<1> DEFINE b == Now(a).binding
           rec == [BindingRecord(b) EXCEPT !.active = FALSE, !.seq = NextSeq]
           c == [call[a] EXCEPT !.rec = rec, !.todo = Rest(a)]
<1>1. call[a].rec = None /\ call[a].todo # <<>> /\ Now(a).do = "revoke" /\ Proceed(a, rec, Rest(a))
  BY DEF RevokeGrant, Step, Now
<1>2. IsBinding(log, b) /\ b \in Bindings
  <2>1. RevokesBindings(log, call[a]) /\ 1 \in DOMAIN call[a].todo /\ Now(a) = call[a].todo[1]
    BY <1>1, TheWrite DEF CallFits, Number
  <2>2. IsBinding(log, b)
    BY <1>1, <2>1 DEF RevokesBindings
  <2>. QED
    BY <2>2 DEF IsBinding, Bindings, Records, Positions, LedgerInv, TypeOK
<1>3. /\ BindingRecord(b) \in GrantRecords /\ BindingRecord(b).id = b /\ b \in Number
      /\ BindingRecord(b).who = log[b].who /\ BindingRecord(b).role = log[b].role
      /\ BindingRecord(b).room = log[b].room
  BY <1>2, BindingListed DEF LedgerInv
<1>4. NextSeq \in Number /\ log[b].seq < NextSeq
  BY <1>2, NextSeqIsHighest DEF IsBinding, LedgerInv, Positions, TypeOK
<1> HIDE DEF b
<1>5. /\ rec \in GrantRecords /\ rec.id = b /\ rec.type = "grant" /\ ~rec.active /\ rec.seq = NextSeq
      /\ rec.who = log[b].who /\ rec.role = log[b].role /\ rec.room = log[b].room
  BY <1>3, <1>4 DEF GrantRecords
<1>6. rec \in Record /\ MayFollow(log, rec) /\ rec # None
  BY <1>2, <1>4, <1>5, ChatAssumption DEF Record, MayFollow, IsBinding
<1>7. call[a] \in Calls /\ StripsAll(log, call[a])
  BY <1>1, TheWrite DEF CallFits
<1> HIDE DEF rec
<1>8. c.rec = rec /\ c.todo = Rest(a) /\ c.since = call[a].since /\ c.who = call[a].who
  BY <1>7 DEF Calls
<1> HIDE DEF c
<1>9. ASSUME call[a].since # 0 PROVE StripsAll(log, c)
  <2> DEFINE s == call[a].todo
             n == Len(s)
  <2>1. /\ n \in Number /\ Now(a) = s[1] /\ DOMAIN s = 1..n
        /\ Rest(a) \in Seq(Write) /\ Len(Rest(a)) = n - 1 /\ DOMAIN Rest(a) = 1..(n - 1)
        /\ \A k \in DOMAIN Rest(a) : k + 1 \in DOMAIN s /\ Rest(a)[k] = s[k + 1]
    BY <1>1, TheWrite
  <2>2. /\ call[a].since > 0 /\ call[a].since <= Len(log)
        /\ \A k \in DOMAIN s : k < n => s[k].do = "revoke"
        /\ s[n].do = "notice"
        /\ \A i \in 1..call[a].since : Holds(log, i, call[a].who, s[n].room) => Revoking(call[a], i)
    BY <1>1, <1>7, <1>9 DEF StripsAll, Calls
  <2> HIDE DEF s, n
  <2>3. n > 1
    <3>1. n # 1
      BY <1>1, <2>1, <2>2
    <3>. QED
      BY <2>1, <3>1 DEF Number
  <2>4. n - 1 \in DOMAIN Rest(a) /\ Rest(a)[n - 1] = s[n] /\ Rest(a) # <<>>
    <3>1. n - 1 \in DOMAIN Rest(a)
      BY <2>1, <2>3 DEF Number
    <3>2. Rest(a)[n - 1] = s[(n - 1) + 1] /\ (n - 1) + 1 = n
      BY <2>1, <3>1 DEF Number
    <3>3. Rest(a) # <<>>
      BY <3>1
    <3>. QED
      BY <3>1, <3>2, <3>3
  <2>5. \A k \in DOMAIN Rest(a) : k < n - 1 => Rest(a)[k].do = "revoke"
    <3> SUFFICES ASSUME NEW k \in DOMAIN Rest(a), k < n - 1 PROVE Rest(a)[k].do = "revoke"
      OBVIOUS
    <3>1. k + 1 \in DOMAIN s /\ k + 1 < n /\ Rest(a)[k] = s[k + 1]
      BY <2>1 DEF Number
    <3>. QED
      BY <2>2, <3>1
  <2>6. ASSUME NEW i \in 1..call[a].since, Holds(log, i, call[a].who, s[n].room)
        PROVE  Revoking(c, i)
    <3>1. PICK k \in DOMAIN s : s[k].do = "revoke" /\ s[k].binding = i
      BY <1>1, <2>2, <2>6 DEF Revoking, s
    <3>2. CASE k = 1
      BY <1>5, <1>6, <1>8, <2>1, <3>1, <3>2 DEF Revoking, b
    <3>3. CASE k # 1
      <4>1. k - 1 \in DOMAIN Rest(a) /\ Rest(a)[k - 1] = s[(k - 1) + 1] /\ (k - 1) + 1 = k
        BY <2>1, <3>3 DEF Number
      <4>. QED
        BY <1>8, <3>1, <4>1 DEF Revoking
    <3>. QED
      BY <3>2, <3>3
  <2>. QED
    BY <1>3, <1>5, <1>8, <2>1, <2>2, <2>4, <2>5, <2>6 DEF StripsAll, Number, Fresh
<1>. QED
  BY <1>1, <1>5, <1>6, <1>9, GoesOn DEF c

\* A departure lists every binding it finds, to revoke it.
LEMMA StripPrepared ==
  ASSUME LedgerInv, NEW a \in Actors, StripRoles(a), UNCHANGED <<log, calls, crashes>>
  PROVE  LedgerInv'
<1> DEFINE w == Now(a)
           D == Doomed(w.who, w.room)
           n == Cardinality(D)
           revs == [k \in DOMAIN Listing(D) |-> RevokeOne(Listing(D)[k])]
           rest == Rest(a)
           todo == revs \o rest
           c == [call[a] EXCEPT !.todo = todo, !.since = Len(log)]
<1>1. /\ call[a].rec = None /\ call[a].todo # <<>> /\ w.do = "strip"
      /\ call' = [call EXCEPT ![a].todo = todo, ![a].since = Len(log)]
  BY DEF StripRoles, Step, Now
<1>2. /\ call[a].since = 0 /\ w.who = call[a].who
      /\ Len(call[a].todo) = 2
      /\ call[a].todo[2].do = "notice" /\ call[a].todo[2].room = w.room
  <2>1. StripsLast(call[a]) /\ 1 \in DOMAIN call[a].todo /\ w = call[a].todo[1]
    BY <1>1, TheWrite DEF CallFits, Number
  <2>2. 1 + 1 = 2
    OBVIOUS
  <2>. QED
    BY <1>1, <2>1, <2>2 DEF StripsLast
<1>3. /\ rest \in Seq(Write) /\ Len(rest) = 1 /\ DOMAIN rest = 1..1
      /\ rest[1].do = "notice" /\ rest[1].room = w.room /\ Settled(rest)
  <2>1. /\ Rest(a) \in Seq(Write) /\ Len(Rest(a)) = 2 - 1 /\ DOMAIN Rest(a) = 1..(2 - 1)
        /\ \A k \in DOMAIN Rest(a) : Rest(a)[k] = call[a].todo[k + 1]
    BY <1>1, <1>2, TheWrite
  <2>2. Rest(a)[1] = call[a].todo[2]
    BY <2>1
  <2>. QED
    BY <1>1, <1>2, <2>1, <2>2, AllSettled
<1>4. /\ \A b : b \in D <=> Holds(log, b, w.who, w.room)
      /\ D \subseteq 1..Len(log) /\ Len(log) \in Nat
  <2>1. \A b : b \in D <=> Holds(log, b, w.who, w.room)
    BY DoomedIsHeld DEF LedgerInv
  <2>2. DOMAIN log = 1..Len(log) /\ Len(log) \in Nat
    BY DEF LedgerInv, TypeOK
  <2>. QED
    BY <2>1, <2>2 DEF Holds, IsBinding
<1>5. IsFiniteSet(D)
  <2>1. IsFiniteSet(1..Len(log))
    BY <1>4, FS_Interval
  <2>. QED
    BY <1>4, <2>1, FS_Subset
<1> HIDE DEF D
<1>6. /\ n \in Nat /\ DOMAIN Listing(D) = 1..n
      /\ \A k \in 1..n : Listing(D)[k] \in D
      /\ \A b \in D : \E k \in 1..n : Listing(D)[k] = b
  BY <1>5, ListingOf
<1> HIDE DEF n
<1>7. /\ revs \in Seq(Write) /\ DOMAIN revs = 1..n /\ Len(revs) = n
      /\ \A k \in DOMAIN revs : revs[k].do = "revoke" /\ revs[k].binding = Listing(D)[k]
  <2>1. \A k \in 1..n : RevokeOne(Listing(D)[k]) \in Write
    <3>1. D \subseteq Number
      BY <1>4 DEF Number
    <3>. QED
      BY <1>6, <3>1, WritesTyped
  <2>2. revs \in [1..n -> Write]
    BY <1>6, <2>1
  <2>3. \A k \in DOMAIN revs : revs[k].do = "revoke" /\ revs[k].binding = Listing(D)[k]
    BY DEF RevokeOne
  <2> HIDE DEF revs
  <2>4. revs \in Seq(Write)
    BY <1>6, <2>2, SeqDef
  <2>5. Len(revs) = n
    BY <1>6, <2>2, <2>4
  <2>. QED
    BY <2>2, <2>3, <2>4, <2>5
<1> HIDE DEF revs, rest
<1>8. /\ todo \in Seq(Write) /\ Len(todo) = n + 1 /\ DOMAIN todo = 1..(n + 1)
      /\ \A k \in DOMAIN todo :
           \/ k \in DOMAIN revs /\ todo[k] = revs[k]
           \/ k > n /\ k - n \in DOMAIN rest /\ todo[k] = rest[k - n]
  BY <1>3, <1>7, InFront
<1> HIDE DEF todo
<1>9. todo[n + 1] = rest[1] /\ \A k \in 1..n : todo[k] = revs[k]
  <2>1. n + 1 \in DOMAIN todo /\ n + 1 \notin DOMAIN revs /\ (n + 1) - n = 1
    BY <1>6, <1>7, <1>8
  <2>2. \A k \in 1..n : k \in DOMAIN todo /\ ~(k > n)
    BY <1>6, <1>8
  <2>. QED
    BY <1>8, <2>1, <2>2
<1>10. \A k \in DOMAIN todo :
         \/ k \in 1..n /\ k < n + 1 /\ todo[k].do = "revoke" /\ todo[k].binding = Listing(D)[k]
         \/ k = n + 1 /\ todo[k].do = "notice"
  BY <1>3, <1>6, <1>7, <1>8, <1>9
<1>11. call[a] \in Calls /\ CallFits(log, call[a])
  BY <1>1, TheWrite
<1>12. /\ c \in Calls /\ c.op = call[a].op /\ c.who = call[a].who /\ c.since = Len(log)
       /\ c.rec = None /\ c.todo = todo
  BY <1>1, <1>4, <1>8, <1>11 DEF Calls
<1>13. call' = [call EXCEPT ![a] = c]
  <2>1. call \in [Actors -> Calls]
    BY DEF LedgerInv, TypeOK
  <2>. QED
    BY <1>1, <1>11, <2>1 DEF Calls
<1> HIDE DEF c
<1>14. CallFits(log, c)
  <2>1. FreshFirst(c)
    BY <1>10, <1>12 DEF FreshFirst, Settled
  <2>2. RevokesBindings(log, c)
    <3>1. \A k \in 1..n : IsBinding(log, Listing(D)[k])
      BY <1>4, <1>6 DEF Holds
    <3>. QED
      BY <1>10, <1>12, <3>1 DEF RevokesBindings
  <2>3. KeysFromPosts(c) /\ StripsLast(c) /\ RewritesRooms(log, c)
    BY <1>10, <1>12 DEF KeysFromPosts, StripsLast, RewritesRooms
  <2>4. StripsAll(log, c)
    <3>1. \A k \in DOMAIN todo : k < Len(todo) => todo[k].do = "revoke"
      BY <1>6, <1>8, <1>10
    <3>2. todo # <<>> /\ todo[Len(todo)].do = "notice" /\ todo[Len(todo)].room = w.room
      <4>1. n + 1 \in DOMAIN todo
        BY <1>6, <1>8
      <4>. QED
        BY <1>3, <1>8, <1>9, <4>1
    <3>3. ASSUME NEW b \in 1..Len(log), Holds(log, b, c.who, w.room) PROVE Revoking(c, b)
      <4>1. b \in D
        BY <1>2, <1>4, <1>12, <3>3
      <4>2. PICK k \in 1..n : Listing(D)[k] = b
        BY <1>6, <4>1
      <4>3. k \in DOMAIN todo /\ todo[k].do = "revoke" /\ todo[k].binding = b
        BY <1>6, <1>7, <1>8, <1>9, <4>2
      <4>. QED
        BY <1>12, <4>3 DEF Revoking
    <3>. QED
      BY <1>4, <1>12, <3>1, <3>2, <3>3 DEF StripsAll
  <2>. QED
    BY <1>12, <2>1, <2>2, <2>3, <2>4 DEF CallFits
<1>15. calls' \in 0..MaxCalls /\ crashes' \in 0..MaxCrashes /\ log' = log
  BY DEF LedgerInv, TypeOK
<1>. QED
  BY <1>12, <1>13, <1>14, <1>15, OneCall

\* The membership records of a room's writing.
LEMMA MemberWrites ==
  ASSUME NEW r \in Nat, NEW S \in SUBSET People, NEW joined \in BOOLEAN
  PROVE  LET t == [k \in DOMAIN Listing(S) |-> Member(r, Listing(S)[k], joined)]
         IN  /\ t \in Seq(Write)
             /\ \A k \in DOMAIN t :
                  t[k].do = "member" /\ t[k].room = r /\ t[k].who \in S
<1> DEFINE t == [k \in DOMAIN Listing(S) |-> Member(r, Listing(S)[k], joined)]
<1>1. IsFiniteSet(S)
  BY LedgerAssumption, FS_Subset
<1>2. Cardinality(S) \in Nat /\ Listing(S) \in [1..Cardinality(S) -> S]
  BY <1>1, ListingOf
<1>3. \A k \in 1..Cardinality(S) : Listing(S)[k] \in People
  BY <1>2
<1>4. \A k \in 1..Cardinality(S) : Member(r, Listing(S)[k], joined) \in Write
  BY <1>3, WritesTyped
<1>5. t \in [1..Cardinality(S) -> Write]
  BY <1>2, <1>4
<1>6. \A k \in DOMAIN t :
        t[k].do = "member" /\ t[k].room = r /\ t[k].who \in S
  BY <1>2 DEF Member
<1> HIDE DEF t
<1>7. t \in Seq(Write)
  BY <1>2, <1>5, SeqDef
<1>. QED
  BY <1>6, <1>7 DEF t

LEMMA SyncWrites ==
  ASSUME NEW r \in Nat, NEW previous \in SUBSET People, NEW next \in SUBSET People
  PROVE  /\ Sync(r, previous, next) \in Seq(Write)
         /\ \A k \in DOMAIN Sync(r, previous, next) : LET w == Sync(r, previous, next)[k] IN
              /\ w.do = "member" /\ w.room = r
              /\ \/ w.joined /\ w.who \in next \ previous
                 \/ ~w.joined /\ w.who \in previous \ next
<1> DEFINE left == next \ previous
           right == previous \ next
           s == [k \in DOMAIN Listing(left) |-> Member(r, Listing(left)[k], TRUE)]
           t == [k \in DOMAIN Listing(right) |-> Member(r, Listing(right)[k], FALSE)]
<1>1. left \in SUBSET People /\ right \in SUBSET People
  OBVIOUS
<1>2. Sync(r, previous, next) = s \o t
  BY DEF Sync
<1> HIDE DEF left, right
<1>3. /\ s \in Seq(Write)
      /\ \A k \in DOMAIN s :
           s[k].do = "member" /\ s[k].room = r /\ s[k].who \in left /\ s[k].joined
  <2>1. s \in Seq(Write) /\ \A k \in DOMAIN s : s[k].do = "member" /\ s[k].room = r /\ s[k].who \in left
    BY <1>1, MemberWrites
  <2>2. \A k \in DOMAIN s : s[k].joined
    BY DEF Member
  <2>. QED
    BY <2>1, <2>2
<1>4. /\ t \in Seq(Write)
      /\ \A k \in DOMAIN t :
           t[k].do = "member" /\ t[k].room = r /\ t[k].who \in right /\ ~t[k].joined
  <2>1. t \in Seq(Write) /\ \A k \in DOMAIN t : t[k].do = "member" /\ t[k].room = r /\ t[k].who \in right
    BY <1>1, MemberWrites
  <2>2. \A k \in DOMAIN t : ~t[k].joined
    BY DEF Member
  <2>. QED
    BY <2>1, <2>2
<1> HIDE DEF s, t
<1>5. /\ s \o t \in Seq(Write)
      /\ \A k \in DOMAIN (s \o t) : LET w == (s \o t)[k] IN
           /\ w.do = "member" /\ w.room = r
           /\ \/ w.joined /\ w.who \in left
              \/ ~w.joined /\ w.who \in right
  BY <1>3, <1>4, InFront
<1>. QED
  BY <1>2, <1>5 DEF left, right

\* A room is found, and the rest of the call is about it, or is made.
LEMMA RoomOpened ==
  ASSUME LedgerInv, NEW a \in Actors, OpenRoom(a), UNCHANGED <<log, calls, crashes>>
  PROVE  LedgerInv'
<1> DEFINE v == Now(a).value
           found == IF v.kind = "channel" THEN ChannelsNamed(v.slug) ELSE DirectRoomsOf(v.members)
           rec == [v EXCEPT !.seq = NextSeq]
           more == Sync(Fresh, {}, v.members)
<1>1. /\ call[a].rec = None /\ call[a].todo # <<>> /\ Now(a).do = "room" /\ v.id = Fresh
      /\ IF found # {} THEN Proceed(a, None, About(Min(found), Rest(a)))
                       ELSE Proceed(a, rec, more \o Rest(a))
  BY DEF OpenRoom, Step, Now
<1>2. v \in RoomRecords(Nat)
  BY <1>1, TheWrite, WriteKinds
<1>3. call[a].since = 0
  BY <1>1, TheWrite
<1>4. Rest(a) \in Seq(Write)
  BY <1>1, TheWrite
<1>5. CASE found # {}
  <2> DEFINE r == Min(found)
             pre == <<>>
             rest == About(r, Rest(a))
  <2>1. found \subseteq Number
    <3>1. found \subseteq Rooms
      BY DEF ChannelsNamed, DirectRoomsOf
    <3> HIDE DEF found
    <3>. QED
      BY <3>1, RoomListed DEF LedgerInv
  <2> HIDE DEF found
  <2>2. r \in Number
    <3>1. found \in SUBSET Nat
      BY <2>1 DEF Number
    <3>2. \E m \in found : \A n \in found : m <= n
      BY <1>5, <3>1, HasMinimum
    <3>. QED
      BY <2>1, <3>2 DEF Min
  <2>3. Proceed(a, None, rest)
    BY <1>1, <1>5
  <2> HIDE DEF r
  <2>4. /\ rest \in Seq(Write) /\ Len(rest) = Len(Rest(a)) /\ DOMAIN rest = DOMAIN Rest(a)
        /\ \A k \in DOMAIN rest :
             /\ rest[k].do = Rest(a)[k].do
             /\ rest[k].do \notin {"member", "grant"} => rest[k] = Rest(a)[k]
        /\ Settled(rest)
    BY <1>4, <2>2, AboutRoom
  <2> HIDE DEF rest
  <2>5. pre \in Seq(Write) /\ DOMAIN pre = {} /\ rest = pre \o rest
    BY <2>4, ConcatEmptySeq
  <2> HIDE DEF pre
  <2>. QED
    BY <1>1, <1>3, <2>3, <2>4, <2>5, Continues
<1>6. CASE found = {}
  <2>1. rec \in RoomRecords(Number) /\ rec.type = "room" /\ rec.id = Fresh
    BY <1>1, <1>2, NextSeqIsHighest DEF RoomRecords, LedgerInv
  <2>2. rec \in Record /\ MayFollow(log, rec) /\ rec # None
    BY <2>1, ChatAssumption DEF Record, MayFollow
  <2>3. more \in Seq(Write) /\ \A k \in DOMAIN more : more[k].do = "member"
    BY <1>2, SyncWrites DEF RoomRecords, Fresh
  <2>4. Proceed(a, rec, more \o Rest(a))
    BY <1>1, <1>6
  <2> HIDE DEF rec, more
  <2> DEFINE rest == Rest(a)
             todo == more \o rest
  <2>5. rest \in Seq(Write) /\ DOMAIN rest = DOMAIN Rest(a) /\ Len(rest) = Len(Rest(a))
        /\ \A k \in DOMAIN rest : rest[k] = Rest(a)[k]
    BY <1>4
  <2>6. todo \in Seq(Write) /\ todo = more \o rest /\ Proceed(a, rec, todo)
    BY <1>4, <2>3, <2>4, InFront
  <2> HIDE DEF rest, todo
  <2>. QED
    BY <1>1, <1>3, <2>1, <2>2, <2>3, <2>5, <2>6, Continues
<1>. QED
  BY <1>5, <1>6

\* A room the ledger has is written again, with what has changed of its members.
LEMMA RoomUpdated ==
  ASSUME LedgerInv, NEW a \in Actors, UpdateRoom(a), UNCHANGED <<log, calls, crashes>>
  PROVE  LedgerInv'
<1> DEFINE v == Now(a).value
           rec == [v EXCEPT !.seq = NextSeq]
           more == Sync(v.id, Participants(v.id), v.members)
<1>1. /\ call[a].rec = None /\ call[a].todo # <<>> /\ Now(a).do = "room" /\ v.id # Fresh
      /\ call' = [call EXCEPT ![a] = Idle] \/ Proceed(a, rec, more \o Rest(a))
  BY DEF UpdateRoom, Step, Now
<1>2. v \in RoomRecords(Nat)
  BY <1>1, TheWrite, WriteKinds
<1>3. call[a].since = 0
  BY <1>1, TheWrite
<1>4. CASE call' = [call EXCEPT ![a] = Idle]
  <2>1. log' = log /\ calls' \in 0..MaxCalls /\ crashes' \in 0..MaxCrashes
    BY DEF LedgerInv, TypeOK
  <2>. QED
    BY <1>4, <2>1, IdleFits, OneCall
<1>5. CASE Proceed(a, rec, more \o Rest(a))
  <2>1. rec \in RoomRecords(Number) /\ rec.type = "room" /\ rec.id = v.id
    BY <1>2, NextSeqIsHighest DEF RoomRecords, LedgerInv
  <2>2. IsRoom(log, v.id)
    <3>1. RewritesRooms(log, call[a]) /\ 1 \in DOMAIN call[a].todo /\ Now(a) = call[a].todo[1]
      BY <1>1, TheWrite DEF CallFits, Number
    <3>. QED
      BY <1>1, <3>1 DEF RewritesRooms
  <2>3. /\ rec \in Record /\ MayFollow(log, rec)
        /\ v.id \in Rooms
    BY <2>1, <2>2 DEF Record, MayFollow, IsRoom, Rooms, Records, Positions, LedgerInv, TypeOK
  <2>4. Participants(v.id) \in SUBSET People /\ v.members \in SUBSET People /\ v.id \in Nat
    <3>1. RoomRecord(v.id) \in RoomRecords(Number)
      BY <2>3, RoomListed DEF LedgerInv
    <3>2. Participants(v.id) \in SUBSET People
      BY <3>1 DEF Participants, RoomRecords
    <3>. QED
      BY <1>2, <3>2 DEF RoomRecords
  <2>5. more \in Seq(Write) /\ \A k \in DOMAIN more : more[k].do = "member" /\ more[k].room = v.id
    BY <2>4, SyncWrites
  <2>6. Rest(a) \in Seq(Write) /\ Settled(Rest(a))
    BY <1>1, TheWrite, AllSettled
  <2> HIDE DEF rec, more
  <2> DEFINE rest == Rest(a)
             todo == more \o rest
  <2>7. rest \in Seq(Write) /\ DOMAIN rest = DOMAIN Rest(a) /\ Len(rest) = Len(Rest(a))
        /\ Settled(rest) /\ \A k \in DOMAIN rest : rest[k] = Rest(a)[k]
    BY <2>6
  <2>8. /\ todo \in Seq(Write) /\ todo = more \o rest /\ Proceed(a, rec, todo)
        /\ \A k \in DOMAIN todo :
             \/ k \in DOMAIN more /\ todo[k] = more[k]
             \/ k > Len(more) /\ k - Len(more) \in DOMAIN rest /\ todo[k] = rest[k - Len(more)]
    BY <1>5, <2>5, <2>6, InFront
  <2> HIDE DEF rest, todo
  <2>9. Settled(todo)
    BY <1>1, <2>5, <2>7, <2>8 DEF Settled
  <2>10. /\ \A k \in DOMAIN more : more[k].do \in {"member", "notice"}
         /\ rec.type # "message"
    BY <2>1, <2>5
  <2>. QED
    BY <1>1, <1>3, <2>1, <2>3, <2>5, <2>7, <2>8, <2>9, <2>10, Continues
<1>. QED
  BY <1>1, <1>4, <1>5

LEMMA WritePrepared ==
  ASSUME LedgerInv, NEW a \in Actors, Prepare(a) PROVE LedgerInv'
BY RoomOpened, RoomUpdated, MemberPrepared, GrantPrepared, StripPrepared, RevocationPrepared,
   NoticePrepared, PostPrepared, ChangePrepared, MarkPrepared DEF Prepare

-----------------------------------------------------------------------------
\* Appending a record

\* The line appended is the record, named by its place if it is new.
LEMMA LineAppended ==
  ASSUME LedgerInv, NEW a \in Actors, AppendRecord(a)
  PROVE  /\ WellFormed(log')
         /\ \E x \in Record :
              /\ log' = Append(log, x)
              /\ x.type = call[a].rec.type /\ x.seq = call[a].rec.seq
              /\ x.type = "room" =>
                   /\ x.archived = call[a].rec.archived
                   /\ x.id = IF call[a].rec.id = Fresh THEN Len(log) + 1 ELSE call[a].rec.id
              /\ x.type = "member" => x = call[a].rec
              /\ x.type = "grant" /\ call[a].rec.id = Fresh => x.id = Len(log) + 1
              /\ x.type = "grant" /\ call[a].rec.id # Fresh => x = call[a].rec
              /\ x.type = "message" =>
                   /\ x.key = call[a].rec.key /\ x.room = call[a].rec.room
                   /\ x.thread = call[a].rec.thread /\ x.author = call[a].rec.author
                   /\ x.scope = call[a].rec.scope
              /\ x.type = "cursor" => x = call[a].rec
<1> DEFINE rec == call[a].rec
           new == "id" \in DOMAIN rec /\ rec.id = Fresh
           x == IF new THEN [rec EXCEPT !.id = Len(log) + 1] ELSE rec
<1>1. rec # None /\ log' = Append(log, x)
  BY DEF AppendRecord
<1>2. rec \in Record /\ MayFollow(log, rec)
  BY <1>1 DEF LedgerInv, TypeOK, Calls, CallFits
<1>3. log \in Seq(Record) /\ Len(log) \in Nat /\ DOMAIN log = 1..Len(log) /\ WellFormed(log)
  BY DEF LedgerInv, TypeOK
<1> HIDE DEF rec
<1>4. CASE new
  <2>1. rec \in RoomRecords(Number) \cup GrantRecords \cup MessageRecords
    BY <1>2, <1>4
       DEF Record, RoomRecords, MemberRecords, GrantRecords, MessageRecords, ChangeRecords, MarkRecords
  <2>2. /\ x \in RoomRecords(Number) \cup GrantRecords \cup MessageRecords
        /\ x.id = Len(log) + 1 /\ x.type = rec.type
        /\ x.type \in {"room", "grant", "message"}
        /\ x.type = "room" => x.archived = rec.archived
        /\ x.seq = rec.seq
        /\ x.type = "message" =>
             /\ x.key = rec.key /\ x.room = rec.room /\ x.thread = rec.thread
             /\ x.author = rec.author /\ x.scope = rec.scope
    <3>1. CASE rec \in RoomRecords(Number)
      BY <1>3, <1>4, <3>1 DEF RoomRecords
    <3>2. CASE rec \in GrantRecords
      BY <1>3, <1>4, <3>2 DEF GrantRecords
    <3>3. CASE rec \in MessageRecords
      BY <1>3, <1>4, <3>3 DEF MessageRecords
    <3>. QED
      BY <2>1, <3>1, <3>2, <3>3
  <2>3. x \in Record
    BY <2>2 DEF Record
  <2> HIDE DEF x
  <2>4. WellFormed(log')
    <3>1. Append(log, x)[Len(log) + 1].id = Len(log) + 1 /\ Len(log) + 1 # Fresh
      BY <1>3, <2>2, <2>3, LedgerGrows DEF Fresh
    <3>. QED
      BY <1>1, <1>3, <2>2, <2>3, <3>1, LedgerGrows DEF WellFormed
  <2>. QED
    BY <1>1, <1>4, <2>2, <2>3, <2>4 DEF rec
<1>5. CASE ~new
  <2>1. x = rec
    BY <1>5
  <2>2. rec.type \in {"room", "grant", "message"} => rec.id # Fresh
    <3>1. rec.type \in {"room", "grant", "message"} =>
            rec \in RoomRecords(Number) \cup GrantRecords \cup MessageRecords
      BY <1>2, RecordKinds
    <3>. QED
      BY <1>5, <3>1 DEF RoomRecords, GrantRecords, MessageRecords
  <2> HIDE DEF x, new
  <2>3. Append(log, x)[Len(log) + 1] = rec /\ MayFollow(Append(log, x), rec)
    BY <1>2, <1>3, <2>1, LedgerGrows
  <2>4. WellFormed(log')
    BY <1>1, <1>2, <1>3, <2>1, <2>2, <2>3, LedgerGrows DEF WellFormed
  <2>5. log' = Append(log, rec)
    BY <1>1, <2>1
  <2>. QED
    BY <1>2, <2>2, <2>4, <2>5 DEF rec, Fresh
<1>. QED
  BY <1>4, <1>5

\* What is left of the call that appends speaks of the room made, if one was.
LEMMA Appended ==
  ASSUME LedgerInv, NEW a \in Actors, AppendRecord(a) PROVE LedgerInv'
<1> DEFINE rec == call[a].rec
           old == call[a].todo
           isRoom == "id" \in DOMAIN rec /\ rec.id = Fresh /\ rec.type = "room"
           todo == IF isRoom THEN About(Len(log) + 1, old) ELSE old
           c == [call[a] EXCEPT !.rec = None, !.todo = todo]
<1>1. PICK x \in Record :
        /\ log' = Append(log, x) /\ x.type = rec.type
        /\ x.type = "grant" /\ rec.id # Fresh => x = rec
  BY LineAppended
<1>2. rec # None /\ Proceed(a, None, todo) /\ UNCHANGED <<calls, crashes>>
  BY DEF AppendRecord
<1>3. call[a] \in Calls /\ CallFits(log, call[a]) /\ old \in Seq(Write) /\ rec \in Record
  BY <1>2 DEF LedgerInv, TypeOK, Calls
<1>4. log \in Seq(Record) /\ Len(log) \in Nat /\ DOMAIN log = 1..Len(log)
  BY DEF LedgerInv, TypeOK
<1>5. isRoom \/ Settled(old)
  <2>1. rec.type = "room" => rec \in RoomRecords(Number)
    BY <1>3, RecordKinds
  <2>. QED
    BY <1>2, <1>3, <2>1 DEF CallFits, FreshFirst, RoomRecords
<1>6. /\ todo \in Seq(Write) /\ Len(todo) = Len(old) /\ DOMAIN todo = DOMAIN old
      /\ \A k \in DOMAIN todo :
           /\ todo[k].do = old[k].do
           /\ todo[k].do \notin {"member", "grant"} => todo[k] = old[k]
      /\ Settled(todo)
  <2>1. CASE isRoom
    <3>1. Len(log) + 1 \in Number
      BY <1>4 DEF Number
    <3>. QED
      BY <1>3, <2>1, <3>1, AboutRoom
  <2>2. CASE ~isRoom
    BY <1>3, <1>5, <2>2
  <2>. QED
    BY <2>1, <2>2
<1>7. isRoom => rec.type = "room"
  OBVIOUS
<1>8. ~isRoom => todo = old
  OBVIOUS
<1> HIDE DEF todo, isRoom
<1>9. /\ c \in Calls /\ c.op = call[a].op /\ c.who = call[a].who /\ c.since = call[a].since
      /\ c.rec = None /\ c.todo = todo
  BY <1>3, <1>6 DEF Calls
<1>10. call' = [call EXCEPT ![a] = IF todo = <<>> THEN Idle ELSE c]
  BY <1>2 DEF Proceed
<1> HIDE DEF c
<1>11. ASSUME todo # <<>> PROVE CallFits(log', c)
  <2>1. FreshFirst(c)
    BY <1>6, <1>9 DEF FreshFirst
  <2>2. RevokesBindings(log', c) /\ RewritesRooms(log', c)
    <3>1. RevokesBindings(log, c)
      BY <1>3, <1>6, <1>9 DEF CallFits, RevokesBindings
    <3>2. RewritesRooms(log, c)
      <4> SUFFICES ASSUME NEW k \in DOMAIN todo, todo[k].do = "room", todo[k].value.id # Fresh
                   PROVE  IsRoom(log, todo[k].value.id)
        BY <1>9 DEF RewritesRooms
      <4>1. k \in DOMAIN old /\ todo[k] = old[k]
        BY <1>6
      <4>. QED
        BY <1>3, <4>1 DEF CallFits, RewritesRooms
    <3>. QED
      BY <1>1, <1>4, <3>1, <3>2, LedgerGrows DEF RevokesBindings, RewritesRooms
  <2>3. KeysFromPosts(c)
    BY <1>3, <1>6, <1>9 DEF CallFits, KeysFromPosts
  <2>4. StripsLast(c)
    <3> SUFFICES ASSUME NEW k \in DOMAIN todo, todo[k].do = "strip"
                 PROVE  /\ c.since = 0 /\ todo[k].who = c.who
                        /\ Len(todo) = k + 1 /\ todo[k + 1].do = "notice"
                        /\ todo[k + 1].room = todo[k].room
      BY <1>9 DEF StripsLast
    <3>1. k \in DOMAIN old /\ todo[k] = old[k]
      BY <1>6
    <3>2. /\ call[a].since = 0 /\ old[k].who = call[a].who
          /\ Len(old) = k + 1 /\ old[k + 1].do = "notice" /\ old[k + 1].room = old[k].room
      BY <1>3, <3>1 DEF CallFits, StripsLast
    <3>3. k + 1 \in DOMAIN todo
      <4>1. DOMAIN old = 1..Len(old) /\ Len(old) \in Nat
        BY <1>3
      <4>. QED
        BY <1>6, <3>1, <3>2, <4>1
    <3>. QED
      BY <1>6, <1>9, <3>1, <3>2, <3>3
  <2>5. StripsAll(log', c)
    <3> SUFFICES ASSUME call[a].since > 0 PROVE StripsAll(log', c)
      BY <1>9 DEF StripsAll
    <3>1. old # <<>>
      <4>1. CASE isRoom
        <5>1. Len(todo) # 0
          BY <1>6, <1>11, EmptySeq
        <5>. QED
          BY <1>6, <5>1
      <4>2. CASE ~isRoom
        BY <1>8, <1>11, <4>2
      <4>. QED
        BY <4>1, <4>2
    <3>2. /\ call[a].since <= Len(log)
          /\ \A k \in DOMAIN old : k < Len(old) => old[k].do = "revoke"
          /\ old[Len(old)].do = "notice"
          /\ rec.type = "grant" /\ rec.id # Fresh
          /\ \A b \in 1..call[a].since :
               Holds(log, b, call[a].who, old[Len(old)].room) => Revoking(call[a], b)
      BY <1>2, <1>3, <3>1 DEF CallFits, StripsAll
    <3>3. todo = old
      BY <1>7, <1>8, <3>2
    <3>4. ASSUME NEW b \in 1..call[a].since, Holds(log', b, call[a].who, old[Len(old)].room)
          PROVE  Revoking(c, b)
      <4>1. b \in DOMAIN log
        BY <1>3, <1>4, <3>2 DEF Calls
      <4>2. Revoking(call[a], b)
        BY <1>1, <1>4, <3>2, <3>4, <4>1, LedgerGrows
      <4>3. ~(rec.type = "grant" /\ rec.id = b)
        <5>1. ASSUME rec.id = b PROVE FALSE
          <6>1. x = rec /\ x.type = "grant" /\ x.id = b
            BY <1>1, <3>2, <5>1
          <6>2. Len(log) + 1 \in DOMAIN log' /\ log'[Len(log) + 1] = x
            <7>1. /\ Append(log, x) \in Seq(Record) /\ Len(Append(log, x)) = Len(log) + 1
                  /\ Append(log, x)[Len(log) + 1] = x
              BY <1>4, LedgerGrows
            <7>. QED
              BY <1>1, <1>4, <7>1
          <6>3. Len(log) + 1 = b
            BY <3>4, <6>1, <6>2 DEF Holds
          <6>. QED
            BY <1>4, <4>1, <6>3
        <5>. QED
          BY <5>1
      <4>. QED
        BY <1>9, <3>3, <4>2, <4>3 DEF Revoking
    <3>5. Len(log') = Len(log) + 1
      BY <1>1, <1>4, LedgerGrows
    <3>6. call[a].since \in Nat
      BY <1>3 DEF Calls
    <3>. QED
      BY <1>4, <1>9, <3>1, <3>2, <3>3, <3>4, <3>5, <3>6 DEF StripsAll
  <2>. QED
    BY <1>9, <2>1, <2>2, <2>3, <2>4, <2>5 DEF CallFits
<1>12. \A d \in Actors : d # a => CallFits(log', call[d])
  <2>1. \A d \in Actors : call[d] \in Calls /\ CallFits(log, call[d])
    BY DEF LedgerInv, TypeOK
  <2>. QED
    BY <1>1, <1>4, <2>1, CallsStillFit
<1>13. \A d \in Actors : CallFits(log', call'[d])
  <2>1. \A d \in Actors :
          call'[d] = IF d = a THEN (IF todo = <<>> THEN Idle ELSE c) ELSE call[d]
    BY <1>10 DEF LedgerInv, TypeOK
  <2>. QED
    BY <1>11, <1>12, <2>1, IdleFits
<1>14. TypeOK'
  <2>1. log' \in Seq(Record)
    BY <1>1, <1>4, LedgerGrows
  <2>2. call' \in [Actors -> Calls]
    BY <1>9, <1>10, IdleFits DEF LedgerInv, TypeOK
  <2>. QED
    BY <1>2, <2>1, <2>2 DEF LedgerInv, TypeOK
<1>. QED
  BY <1>13, <1>14, LineAppended DEF LedgerInv

LEMMA Died ==
  ASSUME LedgerInv, NEW a \in Actors, Die(a) PROVE LedgerInv'
<1>1. /\ call' = [call EXCEPT ![a] = Idle] /\ log' = log /\ calls' = calls
      /\ crashes' = crashes + 1 /\ crashes < MaxCrashes
  BY DEF Die
<1>2. calls' \in 0..MaxCalls /\ crashes' \in 0..MaxCrashes
  BY <1>1, CommandAssumption DEF LedgerInv, TypeOK
<1>. QED
  BY <1>1, <1>2, IdleFits, OneCall

-----------------------------------------------------------------------------
\* What holds for ever

LEMMA LedgerInvHolds == Spec => []LedgerInv
<1>1. Init => LedgerInv
  <2> SUFFICES ASSUME Init PROVE LedgerInv
    OBVIOUS
  <2>1. \A a \in Actors : call[a] = Idle
    BY DEF Init
  <2>2. log \in Seq(Record) /\ WellFormed(log)
    BY ChatAssumption DEF Init
  <2>3. TypeOK
    BY <2>2, IdleFits, CommandAssumption DEF Init, TypeOK
  <2>. QED
    BY <2>1, <2>2, <2>3, IdleFits DEF LedgerInv
<1>2. LedgerInv /\ [Next]_commandVars => LedgerInv'
  <2> SUFFICES ASSUME LedgerInv, [Next]_commandVars PROVE LedgerInv'
    OBVIOUS
  <2>1. ASSUME NEW a \in Actors, RoomCommand(a) PROVE LedgerInv'
    BY <2>1, CreateBegins, DirectBegins, JoinBegins, DepartureBegins, RoomChangeBegins
       DEF RoomCommand
  <2>2. ASSUME NEW a \in Actors, GrantCommand(a) PROVE LedgerInv'
    BY <2>2, GrantBegins
  <2>3. ASSUME NEW a \in Actors, MessageCommand(a) PROVE LedgerInv'
    BY <2>3, MessageBegins
  <2>4. ASSUME NEW a \in Actors, Prepare(a) PROVE LedgerInv'
    BY <2>4, WritePrepared
  <2>5. ASSUME NEW a \in Actors, AppendRecord(a) PROVE LedgerInv'
    BY <2>5, Appended
  <2>6. ASSUME NEW a \in Actors, Die(a) PROVE LedgerInv'
    BY <2>6, Died
  <2>7. CASE UNCHANGED commandVars
    <3>1. log' = log /\ call' = call /\ calls' = calls /\ crashes' = crashes
      BY <2>7 DEF commandVars
    <3>2. TypeOK'
      BY <3>1 DEF LedgerInv, TypeOK
    <3>. QED
      BY <3>1, <3>2 DEF LedgerInv
  <2>. QED
    BY <2>1, <2>2, <2>3, <2>4, <2>5, <2>6, <2>7 DEF Next
<1>. QED
  BY <1>1, <1>2, PTL DEF Spec

\* Every line of the ledger is a record that readers accept, and what a call is about
\* to write is one too, whatever else was written since the call read the ledger.
THEOREM TypeCorrect == Spec => []TypeOK
<1>1. LedgerInv => TypeOK
  BY DEF LedgerInv
<1>. QED
  BY <1>1, LedgerInvHolds, PTL

\* Redaction is final: edits and reactions prepared before it and appended after it
\* never bring a redacted message back, for any number of processes.
THEOREM RedactionsStick == Spec => []RedactionSticks
<1>1. LedgerInv => RedactionSticks
  BY RedactedForGood DEF LedgerInv
<1>. QED
  BY <1>1, LedgerInvHolds, PTL

\* Revocation is final: no record written meanwhile, of whatever sequence, makes a
\* revoked binding active again.
THEOREM RevocationsStick == Spec => []RevocationSticks
<1>1. LedgerInv => RevocationSticks
  BY RevokedForGood DEF LedgerInv
<1>. QED
  BY <1>1, LedgerInvHolds, PTL

\* A departure that has come to its notice has ended every participant and manager
\* binding there was when it began to revoke them, the duplicates that concurrent
\* grants had made included.
THEOREM DeparturesStripAll == Spec => []RemovedHasNoRole
<1>1. LedgerInv => RemovedHasNoRole
  <2> SUFFICES ASSUME LedgerInv, NEW a \in Actors,
                      call[a].since > 0, Len(call[a].todo) = 1, call[a].rec = None,
                      Now(a).do = "notice", NEW b \in Doomed(call[a].who, Now(a).room)
               PROVE  b > call[a].since
    BY DEF RemovedHasNoRole
  <2>1. Holds(log, b, call[a].who, Now(a).room)
    BY DoomedIsHeld DEF LedgerInv
  <2>2. call[a] \in Calls /\ StripsAll(log, call[a])
    BY DEF LedgerInv, TypeOK, CallFits
  <2>3. call[a].todo # <<>>
    <3>1. Len(<<>>) = 0
      OBVIOUS
    <3>. QED
      BY <3>1
  <2>4. Now(a) = call[a].todo[1] /\ DOMAIN call[a].todo = 1..1
    BY <2>3, TheWrite
  <2>5. ~Revoking(call[a], b)
    BY <2>4 DEF Revoking
  <2>6. b \notin 1..call[a].since
    BY <2>1, <2>2, <2>3, <2>4, <2>5 DEF StripsAll
  <2>7. b \in Nat /\ b >= 1 /\ call[a].since \in Nat
    BY <2>1, <2>2 DEF Holds, IsBinding, LedgerInv, TypeOK, Calls
  <2>. QED
    BY <2>6, <2>7
<1>. QED
  BY <1>1, LedgerInvHolds, PTL

-----------------------------------------------------------------------------
\* Posts with a key

LEMMA Proceeds ==
  ASSUME TypeOK, NEW a \in Actors, NEW rec, NEW todo, Proceed(a, rec, todo)
  PROVE  /\ call'[a].rec = rec /\ call'[a].op \in {call[a].op, None}
         /\ \A d \in Actors : d # a => call'[d] = call[d]
<1>1. call[a] \in Calls /\ call \in [Actors -> Calls]
  BY DEF TypeOK
<1>. QED
  BY <1>1 DEF Proceed, Idle, Calls

\* Only a post prepares a message with a key, and only when its scope has none.
LEMMA PreparedKey ==
  ASSUME LedgerInv, NEW a \in Actors, Prepare(a)
  PROVE  /\ KeyUnused(log, call'[a].rec) /\ call'[a].op \in {call[a].op, None}
         /\ \A d \in Actors : d # a => call'[d] = call[d]
<1> USE DEF LedgerInv
<1>1. ASSUME NEW rec, NEW todo, Proceed(a, rec, todo), KeyUnused(log, rec)
      PROVE  /\ KeyUnused(log, call'[a].rec) /\ call'[a].op \in {call[a].op, None}
             /\ \A d \in Actors : d # a => call'[d] = call[d]
  BY <1>1, Proceeds
<1>2. KeyUnused(log, None) /\ call[a] \in Calls /\ call \in [Actors -> Calls]
  BY DEF KeyUnused, TypeOK
<1>3. CASE call' = [call EXCEPT ![a] = Idle]
  BY <1>2, <1>3 DEF Idle
<1>4. CASE StripRoles(a)
  <2>1. PICK todo : call' = [call EXCEPT ![a].todo = todo, ![a].since = Len(log)]
    BY <1>4 DEF StripRoles
  <2>2. call[a].rec = None
    BY <1>4 DEF StripRoles, Step
  <2>. QED
    BY <1>2, <2>1, <2>2 DEF Calls
<1>5. CASE AppendMessage(a)
  <2> DEFINE m == Now(a)
             rec == Message(m.room, m.thread, m.author, m.key, m.body)
  <2>1. KeyUnused(log, rec) \/ WithKey(m.room, m.thread, m.key) # {}
    BY DEF KeyUnused, Message, WithKey, Scope, Messages, Records, Positions, TypeOK
  <2>2. \/ Proceed(a, None, Rest(a))
        \/ Proceed(a, rec, Rest(a)) /\ KeyUnused(log, rec)
    BY <1>5, <2>1 DEF AppendMessage
  <2> HIDE DEF rec
  <2>. QED
    BY <1>1, <1>2, <2>2
<1>6. CASE OpenRoom(a) \/ UpdateRoom(a)
  <2> DEFINE v == Now(a).value
             rec == [v EXCEPT !.seq = NextSeq]
  <2>1. \/ call' = [call EXCEPT ![a] = Idle]
        \/ \E todo : Proceed(a, None, todo) \/ Proceed(a, rec, todo)
    BY <1>6 DEF OpenRoom, UpdateRoom
  <2>2. v \in RoomRecords(Nat)
    <3>1. call[a].rec = None /\ call[a].todo # <<>> /\ Now(a).do = "room"
      BY <1>6 DEF OpenRoom, UpdateRoom, Step, Now
    <3>. QED
      BY <3>1, TheWrite, WriteKinds
  <2>3. KeyUnused(log, rec)
    BY <2>2 DEF KeyUnused, RoomRecords
  <2> HIDE DEF rec
  <2>. QED
    BY <1>1, <1>2, <1>3, <2>1, <2>3
<1>7. CASE UpsertMember(a) \/ EnsureGrant(a) \/ SystemMessage(a)
  <2>1. \E rec, todo : Proceed(a, rec, todo) /\ (rec = None \/ rec.type # "message" \/ rec.key = None)
    BY <1>7 DEF UpsertMember, EnsureGrant, SystemMessage, Message
  <2>2. PICK rec, todo : Proceed(a, rec, todo) /\ KeyUnused(log, rec)
    BY <2>1 DEF KeyUnused
  <2>. QED
    BY <1>1, <2>2
<1>8. CASE RevokeGrant(a)
  <2> DEFINE b == Now(a).binding
             rec == [BindingRecord(b) EXCEPT !.active = FALSE, !.seq = NextSeq]
  <2>1. call[a].rec = None /\ call[a].todo # <<>> /\ Now(a).do = "revoke" /\ Proceed(a, rec, Rest(a))
    BY <1>8 DEF RevokeGrant, Step, Now
  <2>2. b \in Bindings
    <3>1. RevokesBindings(log, call[a]) /\ 1 \in DOMAIN call[a].todo /\ Now(a) = call[a].todo[1]
      BY <2>1, TheWrite DEF CallFits, Number
    <3>2. IsBinding(log, b)
      BY <2>1, <3>1 DEF RevokesBindings
    <3>. QED
      BY <3>2 DEF IsBinding, Bindings, Records, Positions, TypeOK
  <2>3. KeyUnused(log, rec)
    BY <2>2, BindingListed DEF KeyUnused, GrantRecords
  <2> HIDE DEF rec
  <2>. QED
    BY <1>1, <2>1, <2>3
<1>9. CASE ChangeMessage(a) \/ UpsertMark(a)
  <2> DEFINE v == Now(a).value
             rec == [v EXCEPT !.seq = NextSeq]
  <2>1. call[a].rec = None /\ call[a].todo # <<>> /\ Now(a).do \in {"change", "put"}
        /\ Proceed(a, rec, Rest(a))
    BY <1>9 DEF ChangeMessage, UpsertMark, Step, Now
  <2>2. v \in ChangeRecords({0}) \cup MarkRecords({0})
    BY <2>1, TheWrite, WriteKinds
  <2>3. KeyUnused(log, rec)
    BY <2>2 DEF KeyUnused, ChangeRecords, MarkRecords
  <2> HIDE DEF rec
  <2>. QED
    BY <1>1, <2>1, <2>3
<1>. QED
  BY <1>4, <1>5, <1>6, <1>7, <1>8, <1>9 DEF Prepare

\* A command of which no two are in progress at once begins when none is.
LEMMA BegunAlone ==
  ASSUME LedgerInv, NEW a \in Actors, RoomCommand(a) \/ GrantCommand(a) \/ MessageCommand(a)
  PROVE  /\ log' = log /\ call'[a].rec = None /\ call'[a].op \in Ops
         /\ \A d \in Actors : d # a => call'[d] = call[d]
         /\ call'[a].op \in Serial => \A d \in Actors : call[d].op \notin Serial
<1>1. PICK op, p, steps : Ready(a, op) /\ Begin(a, op, p, steps)
  BY DEF RoomCommand, GrantCommand, MessageCommand, CreateChannel, EnsureDirect, Join, Leave,
         RemoveParticipant, UpdateSettings, Archive, GrantRole, GrantAdmin, BootstrapAdmin,
         RevokeBinding, PostMessage, EditMessage, RedactMessage, SetReaction, MarkRead,
         SetAttachment
<1>. QED
  BY <1>1 DEF Begin, Ready, Idle, LedgerInv, TypeOK

\* A message with a key is on its way from a post only.
LEMMA KeysOfPosts ==
  ASSUME LedgerInv, NEW a \in Actors, call[a].rec # None, call[a].rec.type = "message",
         call[a].rec.key # None
  PROVE  call[a].op = "post"
BY DEF LedgerInv, CallFits, KeysFromPosts

\* A post whose key no message of its scope has when it is prepared finds none when it
\* is appended, if no other post is in progress.
LEMMA PostInvHolds ==
  ASSUME "post" \in Serial, \A l \in Ledgers : KeysApart(l)
  PROVE  Spec => []PostInv
<1>1. Init => PostInv
  <2> SUFFICES ASSUME Init PROVE PostInv
    OBVIOUS
  <2>1. \A a \in Actors : call[a].op = None /\ call[a].rec = None
    BY DEF Init, Idle
  <2>2. None \notin Serial
    BY CommandAssumption
  <2>. QED
    BY <2>1, <2>2 DEF Init, PostInv, OneAtATime, KeyUnused
<1>2. ASSUME LedgerInv, PostInv, [Next]_commandVars PROVE PostInv'
  <2>1. None \notin Serial
    BY CommandAssumption
  <2>2. ASSUME NEW a \in Actors, RoomCommand(a) \/ GrantCommand(a) \/ MessageCommand(a)
        PROVE  PostInv'
    <3>1. /\ log' = log /\ call'[a].rec = None /\ \A d \in Actors : d # a => call'[d] = call[d]
          /\ call'[a].op \in Serial => \A d \in Actors : call[d].op \notin Serial
      BY <1>2, <2>2, BegunAlone
    <3>. QED
      BY <1>2, <3>1 DEF PostInv, OneAtATime, KeyUnused
  <2>3. ASSUME NEW a \in Actors, Prepare(a) PROVE PostInv'
    <3>1. /\ KeyUnused(log, call'[a].rec) /\ call'[a].op \in {call[a].op, None}
          /\ \A d \in Actors : d # a => call'[d] = call[d]
      BY <1>2, <2>3, PreparedKey
    <3>2. log' = log
      BY <2>3 DEF Prepare
    <3>3. OneAtATime'
      BY <1>2, <2>1, <3>1 DEF PostInv, OneAtATime
    <3>4. \A d \in Actors : KeyUnused(log, call'[d].rec)
      BY <1>2, <3>1 DEF PostInv
    <3>. QED
      BY <1>2, <3>2, <3>3, <3>4 DEF PostInv
  <2>4. ASSUME NEW a \in Actors, AppendRecord(a) PROVE PostInv'
    <3>1. PICK x \in Record :
            /\ log' = Append(log, x) /\ x.type = call[a].rec.type
            /\ x.type = "message" =>
                 /\ x.key = call[a].rec.key /\ x.room = call[a].rec.room
                 /\ x.thread = call[a].rec.thread
      BY <1>2, <2>4, LineAppended
    <3>2. /\ call'[a].rec = None /\ call'[a].op \in {call[a].op, None}
          /\ \A d \in Actors : d # a => call'[d] = call[d]
      <4>1. PICK todo : Proceed(a, None, todo)
        BY <2>4 DEF AppendRecord
      <4>. QED
        BY <1>2, <4>1, Proceeds DEF LedgerInv
    <3>3. OneAtATime'
      BY <1>2, <2>1, <3>2 DEF PostInv, OneAtATime
    <3>4. call[a].rec # None
      BY <2>4 DEF AppendRecord
    <3>5. /\ log'[Len(log) + 1] = x
          /\ \A i \in DOMAIN log : log'[i] = log[i]
          /\ \A i \in DOMAIN log' : i \in DOMAIN log \/ i = Len(log) + 1
      BY <1>2, <3>1, LedgerGrows DEF LedgerInv, TypeOK
    <3>6. KeysApart(log')
      <4>1. KeyUnused(log, call[a].rec) /\ KeysApart(log)
        BY <1>2 DEF PostInv
      <4>2. x.type = "message" /\ x.key # None =>
              \A m \in DOMAIN log : log[m].type = "message" =>
                ~(log[m].key = x.key /\ log[m].room = x.room /\ log[m].thread = x.thread)
        BY <3>1, <3>4, <4>1 DEF KeyUnused
      <4>. QED
        BY <3>5, <4>1, <4>2 DEF KeysApart
    <3>7. ASSUME NEW d \in Actors PROVE KeyUnused(log', call'[d].rec)
      <4> SUFFICES ASSUME d # a, call[d].rec # None, call[d].rec.type = "message",
                          call[d].rec.key # None,
                          NEW m \in DOMAIN log', log'[m].type = "message"
                   PROVE  ~(log'[m].key = call[d].rec.key /\ log'[m].room = call[d].rec.room
                            /\ log'[m].thread = call[d].rec.thread)
        BY <3>2 DEF KeyUnused
      <4>1. KeyUnused(log, call[d].rec)
        BY <1>2 DEF PostInv
      <4>2. CASE m \in DOMAIN log
        BY <3>5, <4>1, <4>2 DEF KeyUnused
      <4>3. CASE m = Len(log) + 1
        <5>1. call[d].op = "post" /\ (call[a].rec.key # None => call[a].op = "post")
          BY <1>2, <3>1, <3>4, <3>5, <4>3, KeysOfPosts
        <5>2. call[a].rec.key = None
          BY <1>2, <5>1 DEF PostInv, OneAtATime
        <5>. QED
          BY <3>1, <3>5, <4>3, <5>2
      <4>. QED
        BY <3>5, <4>2, <4>3
    <3>. QED
      BY <3>3, <3>6, <3>7 DEF PostInv
  <2>5. ASSUME NEW a \in Actors, Die(a) PROVE PostInv'
    <3>1. log' = log /\ \A d \in Actors : call'[d] = IF d = a THEN Idle ELSE call[d]
      BY <1>2, <2>5 DEF Die, LedgerInv, TypeOK
    <3>2. Idle.op = None /\ Idle.rec = None
      BY DEF Idle
    <3>. QED
      BY <1>2, <2>1, <3>1, <3>2 DEF PostInv, OneAtATime, KeyUnused
  <2>6. CASE UNCHANGED commandVars
    BY <1>2, <2>6 DEF commandVars, PostInv, OneAtATime
  <2>. QED
    BY <1>2, <2>2, <2>3, <2>4, <2>5, <2>6 DEF Next
<1>. QED
  BY <1>1, <1>2, LedgerInvHolds, PTL DEF Spec

\* A post repeated with its key after a crash or a lost answer is not made twice, for any
\* number of processes and crashes.  What this asks of the callers is that no two posts are
\* in progress at once, and of the ledger to begin with that it has no such pair.
THEOREM PostsMadeOnce ==
  ASSUME "post" \in Serial, \A l \in Ledgers : KeysApart(l)
  PROVE  Spec => []PostedOnce
<1>1. LedgerInv /\ PostInv => PostedOnce
  BY DEF PostInv, KeysApart, PostedOnce, Messages, Records, Positions, LedgerInv, TypeOK
<1>. QED
  BY <1>1, LedgerInvHolds, PostInvHolds, PTL

-----------------------------------------------------------------------------
\* Rooms as the ledger grows

LEMMA LastAtIsLast ==
  ASSUME NEW l \in Seq(Record), NEW S \in SUBSET DOMAIN l, S # {}
  PROVE  /\ LastAt(l, S) \in S
         /\ \A j \in S : j = LastAt(l, S) \/ Earlier(l, j, LastAt(l, S))
<1> DEFINE n == Len(l)
           f == [i \in 1..n |-> l[i].seq]
<1>1. n \in Nat /\ DOMAIN l = 1..n /\ \A i \in DOMAIN l : l[i].seq \in Nat
  BY RecordSeq DEF Number
<1>2. f \in [1..n -> Nat] /\ \A i \in DOMAIN l : f[i] = l[i].seq
  BY <1>1
<1>3. S \in SUBSET (1..n)
  BY <1>1
<1> HIDE DEF f, n
<1>4. \E i \in S : \A j \in S :
        \/ j = i \/ f[j] < f[i]
        \/ f[j] = f[i] /\ (f[j] < f[i] \/ (f[j] = f[i] /\ j < i))
  BY <1>1, <1>2, <1>3, HasGreatest
<1>5. \E i \in S : \A j \in S : j = i \/ Earlier(l, j, i)
  BY <1>2, <1>4 DEF Earlier
<1>. QED
  BY <1>5 DEF LastAt

LEMMA EarlierIsOrder ==
  ASSUME NEW l \in Seq(Record), NEW i \in DOMAIN l, NEW j \in DOMAIN l, Earlier(l, i, j)
  PROVE  i # j /\ ~Earlier(l, j, i)
<1>1. l[i].seq \in Nat /\ l[j].seq \in Nat /\ i \in Nat /\ j \in Nat
  BY RecordSeq DEF Number
<1>. QED
  BY <1>1 DEF Earlier

\* A record that is the last of a set is the last.
LEMMA LastIsOne ==
  ASSUME NEW l \in Seq(Record), NEW S \in SUBSET DOMAIN l, NEW i \in S,
         \A j \in S : j = i \/ Earlier(l, j, i)
  PROVE  LastAt(l, S) = i
<1>1. /\ LastAt(l, S) \in S
      /\ \A j \in S : j = LastAt(l, S) \/ Earlier(l, j, LastAt(l, S))
  BY LastAtIsLast
<1>. QED
  BY <1>1, EarlierIsOrder

\* A line more changes the last of a set only if it is of the set, and then to itself.
LEMMA LastGrows ==
  ASSUME NEW l \in Seq(Record), NEW x \in Record, NEW S \in SUBSET DOMAIN l
  PROVE  /\ S # {} => LastAt(Append(l, x), S) = LastAt(l, S)
         /\ S # {} => LastAt(Append(l, x), S \cup {Len(l) + 1}) \in {LastAt(l, S), Len(l) + 1}
         /\ (\A i \in S : l[i].seq < x.seq) =>
              LastAt(Append(l, x), S \cup {Len(l) + 1}) = Len(l) + 1
<1> DEFINE n == Append(l, x)
           e == Len(l) + 1
<1>1. /\ n \in Seq(Record) /\ n[e] = x /\ Len(l) \in Nat /\ DOMAIN l = 1..Len(l)
      /\ e \in DOMAIN n /\ e \notin DOMAIN l
      /\ \A i \in DOMAIN l : i \in DOMAIN n /\ n[i] = l[i]
  <2>1. n \in Seq(Record) /\ Len(n) = e /\ n[e] = x /\ Len(l) \in Nat /\ DOMAIN l = 1..Len(l)
    BY LedgerGrows
  <2>2. DOMAIN n = 1..Len(n)
    BY <2>1
  <2>. QED
    BY <2>1, <2>2, LedgerGrows
<1> HIDE DEF n, e
<1>2. \A i, j \in DOMAIN l : Earlier(n, i, j) <=> Earlier(l, i, j)
  BY <1>1 DEF Earlier
<1>3. ASSUME S # {} PROVE LastAt(n, S) = LastAt(l, S)
  <2>1. /\ LastAt(l, S) \in S
        /\ \A j \in S : j = LastAt(l, S) \/ Earlier(l, j, LastAt(l, S))
    BY <1>3, LastAtIsLast
  <2>2. \A j \in S : j = LastAt(l, S) \/ Earlier(n, j, LastAt(l, S))
    BY <1>2, <2>1
  <2>3. S \in SUBSET DOMAIN n
    BY <1>1
  <2>. QED
    BY <1>1, <2>1, <2>2, <2>3, LastIsOne
<1> DEFINE T == S \cup {e}
<1>4. T \in SUBSET DOMAIN n /\ T # {} /\ e \in T
  BY <1>1
<1>5. LastAt(n, T) \in T /\ \A j \in T : j = LastAt(n, T) \/ Earlier(n, j, LastAt(n, T))
  BY <1>1, <1>4, LastAtIsLast
<1>6. ASSUME S # {} PROVE LastAt(n, T) \in {LastAt(l, S), e}
  <2>1. CASE LastAt(n, T) = e
    BY <2>1
  <2>2. CASE LastAt(n, T) # e
    <3>1. LastAt(n, T) \in S
      BY <1>5, <2>2
    <3>2. \A j \in S : j = LastAt(n, T) \/ Earlier(l, j, LastAt(n, T))
      BY <1>2, <1>5, <3>1
    <3>. QED
      BY <3>1, <3>2, LastIsOne
  <2>. QED
    BY <2>1, <2>2
<1>7. ASSUME \A i \in S : l[i].seq < x.seq PROVE LastAt(n, T) = e
  <2>1. \A j \in T : j = e \/ Earlier(n, j, e)
    BY <1>1, <1>7 DEF Earlier
  <2>. QED
    BY <1>1, <1>4, <2>1, LastIsOne
<1>. QED
  BY <1>3, <1>6, <1>7 DEF n, e

\* What a line more changes of rooms and memberships: a room's record by a record of
\* that room only, a membership by a record of that room and person only.
LEMMA RoomsGrow ==
  ASSUME NEW l \in Seq(Record), NEW x \in Record, NEW r, NEW n, n = Append(l, x)
  PROVE  /\ IsRoom(l, r) /\ ~(x.type = "room" /\ x.id = r) => RoomIn(n, r) = RoomIn(l, r)
         /\ IsRoom(l, r) => RoomIn(n, r) = RoomIn(l, r) \/ RoomIn(n, r) = x
         /\ RoomLines(l, r) = {} /\ x.type = "room" /\ x.id = r => RoomIn(n, r) = x
<1> DEFINE e == Len(l) + 1
           S == RoomLines(l, r)
           T == RoomLines(n, r)
<1>1. /\ n[e] = x /\ e \notin DOMAIN l /\ e \in DOMAIN n
      /\ \A i \in DOMAIN l : i \in DOMAIN n /\ n[i] = l[i]
      /\ \A i \in DOMAIN n : i \in DOMAIN l \/ i = e
  <2>1. n \in Seq(Record) /\ Len(n) = e /\ Len(l) \in Nat /\ DOMAIN l = 1..Len(l)
    BY LedgerGrows
  <2>2. DOMAIN n = 1..Len(n)
    BY <2>1
  <2>. QED
    BY <2>1, <2>2, LedgerGrows
<1>2. T = IF x.type = "room" /\ x.id = r THEN S \cup {e} ELSE S
  BY <1>1 DEF RoomLines
<1>3. S \in SUBSET DOMAIN l /\ \A i \in S : n[i] = l[i]
  BY <1>1 DEF RoomLines
<1>4. IsRoom(l, r) => S # {}
  BY DEF RoomLines, IsRoom
<1>5. RoomIn(l, r) = l[LastAt(l, S)] /\ RoomIn(n, r) = n[LastAt(n, T)]
  BY DEF RoomIn
<1>6. /\ S # {} => LastAt(n, S) = LastAt(l, S)
      /\ S # {} => LastAt(n, S \cup {e}) \in {LastAt(l, S), e}
      /\ S = {} => LastAt(n, S \cup {e}) = e
  BY <1>3, LastGrows
<1>7. S # {} => LastAt(l, S) \in S
  BY <1>3, LastAtIsLast
<1> HIDE DEF S, T, e
<1>8. S # {} => n[LastAt(l, S)] = l[LastAt(l, S)]
  BY <1>3, <1>7
<1>. QED
  BY <1>1, <1>2, <1>4, <1>5, <1>6, <1>8 DEF S

LEMMA MembersGrow ==
  ASSUME NEW l \in Seq(Record), NEW x \in Record, NEW r, NEW p, NEW n, n = Append(l, x)
  PROVE  /\ ~(x.type = "member" /\ x.room = r /\ x.who = p) =>
              (JoinedIn(n, r, p) <=> JoinedIn(l, r, p))
         /\ x.type = "member" /\ x.room = r /\ x.who = p =>
              /\ JoinedIn(n, r, p) => JoinedIn(l, r, p) \/ x.joined
              /\ JoinedIn(l, r, p) => JoinedIn(n, r, p) \/ ~x.joined
              /\ (\A i \in MemberLines(l, r, p) : l[i].seq < x.seq) =>
                   (JoinedIn(n, r, p) <=> x.joined)
<1> DEFINE e == Len(l) + 1
           S == MemberLines(l, r, p)
           T == MemberLines(n, r, p)
<1>1. /\ n[e] = x /\ e \notin DOMAIN l /\ e \in DOMAIN n
      /\ \A i \in DOMAIN l : i \in DOMAIN n /\ n[i] = l[i]
      /\ \A i \in DOMAIN n : i \in DOMAIN l \/ i = e
  <2>1. n \in Seq(Record) /\ Len(n) = e /\ Len(l) \in Nat /\ DOMAIN l = 1..Len(l)
    BY LedgerGrows
  <2>2. DOMAIN n = 1..Len(n)
    BY <2>1
  <2>. QED
    BY <2>1, <2>2, LedgerGrows
<1>2. T = IF x.type = "member" /\ x.room = r /\ x.who = p THEN S \cup {e} ELSE S
  BY <1>1 DEF MemberLines
<1>3. S \in SUBSET DOMAIN l /\ \A i \in S : n[i] = l[i]
  BY <1>1 DEF MemberLines
<1>4. /\ JoinedIn(l, r, p) <=> S # {} /\ l[LastAt(l, S)].joined
      /\ JoinedIn(n, r, p) <=> T # {} /\ n[LastAt(n, T)].joined
  BY DEF JoinedIn
<1>5. /\ S # {} => LastAt(n, S) = LastAt(l, S)
      /\ S # {} => LastAt(n, S \cup {e}) \in {LastAt(l, S), e}
      /\ (\A i \in S : l[i].seq < x.seq) => LastAt(n, S \cup {e}) = e
  BY <1>3, LastGrows
<1>6. S # {} => LastAt(l, S) \in S
  BY <1>3, LastAtIsLast
<1> HIDE DEF S, T, e
<1>7. S # {} => n[LastAt(l, S)] = l[LastAt(l, S)]
  BY <1>3, <1>6
<1>8. CASE ~(x.type = "member" /\ x.room = r /\ x.who = p)
  BY <1>2, <1>4, <1>5, <1>7, <1>8
<1>9. CASE x.type = "member" /\ x.room = r /\ x.who = p
  <2>1. T = S \cup {e}
    BY <1>2, <1>9
  <2>2. S = {} => LastAt(n, T) = e
    BY <1>5, <2>1
  <2>3. S # {} => LastAt(n, T) \in {LastAt(l, S), e}
    BY <1>5, <2>1
  <2>4. (\A i \in S : l[i].seq < x.seq) => LastAt(n, T) = e
    BY <1>5, <2>1
  <2>5. T # {}
    BY <2>1
  <2>. QED
    BY <1>1, <1>4, <1>7, <1>9, <2>2, <2>3, <2>4, <2>5 DEF S
<1>. QED
  BY <1>8, <1>9

\* A record about something else leaves rooms and memberships as they were.
LEMMA RoomsStay ==
  ASSUME NEW l \in Seq(Record), NEW x \in Record, NEW n, n = Append(l, x),
         x.type # "room" /\ x.type # "member"
  PROVE  /\ \A r : IsRoom(l, r) => RoomIn(n, r) = RoomIn(l, r)
         /\ \A r, p : JoinedIn(n, r, p) <=> JoinedIn(l, r, p)
         /\ \A r : IsRoom(l, r) => ParticipantsIn(n, r) = ParticipantsIn(l, r)
<1>1. ASSUME NEW r, IsRoom(l, r) PROVE RoomIn(n, r) = RoomIn(l, r)
  <2>1. IsRoom(l, r) /\ ~(x.type = "room" /\ x.id = r) => RoomIn(n, r) = RoomIn(l, r)
    BY RoomsGrow
  <2>. QED
    BY <1>1, <2>1
<1>2. \A r, p : JoinedIn(n, r, p) <=> JoinedIn(l, r, p)
  BY MembersGrow
<1>3. \A r : (\A i \in DOMAIN n : ~(n[i].type = "member" /\ n[i].room = r)) <=>
             (\A i \in DOMAIN l : ~(l[i].type = "member" /\ l[i].room = r))
  <2>1. /\ n[Len(l) + 1] = x
        /\ \A i \in DOMAIN l : i \in DOMAIN n /\ n[i] = l[i]
        /\ \A i \in DOMAIN n : i \in DOMAIN l \/ i = Len(l) + 1
    BY LedgerGrows
  <2>. QED
    BY <2>1
<1>4. ASSUME NEW r, IsRoom(l, r) PROVE ParticipantsIn(n, r) = ParticipantsIn(l, r)
  <2>1. RoomIn(n, r) = RoomIn(l, r)
    BY <1>1, <1>4
  <2>2. {p \in People : JoinedIn(n, r, p)} = {p \in People : JoinedIn(l, r, p)}
    BY <1>2
  <2>. QED
    BY <1>3, <2>1, <2>2 DEF ParticipantsIn
<1>. QED
  BY <1>1, <1>2, <1>4

\* What ChatLedger says of the ledger.
LEMMA ReadHere ==
  ASSUME log \in Seq(Record)
  PROVE  /\ \A r : RoomRecord(r) = RoomIn(log, r)
         /\ \A r, p : Joined(r, p) <=> JoinedIn(log, r, p)
         /\ \A r : Participants(r) = ParticipantsIn(log, r)
<1>1. Positions = DOMAIN log
  BY DEF Positions
<1>2. \A S : LastOf(S) = LastAt(log, S)
  BY DEF LastOf, LastAt, Before, Earlier
<1>3. ASSUME NEW r PROVE RoomRecord(r) = RoomIn(log, r)
  <2>1. {i \in Records("room") : log[i].id = r} = RoomLines(log, r)
    BY <1>1 DEF Records, RoomLines
  <2>. QED
    BY <1>2, <2>1 DEF RoomRecord, RoomIn
<1>4. ASSUME NEW r, NEW p PROVE Joined(r, p) <=> JoinedIn(log, r, p)
  <2>1. {i \in Memberships(r) : log[i].who = p} = MemberLines(log, r, p)
    BY <1>1 DEF Memberships, Records, MemberLines
  <2>. QED
    BY <1>2, <2>1 DEF Joined, JoinedIn
<1>5. ASSUME NEW r PROVE Participants(r) = ParticipantsIn(log, r)
  <2>1. Memberships(r) = {} <=> \A i \in DOMAIN log : ~(log[i].type = "member" /\ log[i].room = r)
    BY <1>1 DEF Memberships, Records
  <2>2. {p \in People : Joined(r, p)} = {p \in People : JoinedIn(log, r, p)}
    BY <1>4
  <2>. QED
    BY <1>3, <2>1, <2>2 DEF Participants, ParticipantsIn
<1>. QED
  BY <1>3, <1>4, <1>5

LEMMA ReadNext ==
  ASSUME log' \in Seq(Record)
  PROVE  /\ \A r : RoomRecord(r)' = RoomIn(log', r)
         /\ \A r, p : Joined(r, p)' <=> JoinedIn(log', r, p)
<1>1. Positions' = DOMAIN log'
  BY DEF Positions
<1>2. \A S : LastOf(S)' = LastAt(log', S)
  BY DEF LastOf, LastAt, Before, Earlier
<1>3. ASSUME NEW r PROVE RoomRecord(r)' = RoomIn(log', r)
  <2>1. {i \in Records("room") : log[i].id = r}' = RoomLines(log', r)
    BY <1>1 DEF Records, RoomLines
  <2>. QED
    BY <1>2, <2>1 DEF RoomRecord, RoomIn
<1>4. ASSUME NEW r, NEW p PROVE Joined(r, p)' <=> JoinedIn(log', r, p)
  <2>1. {i \in Memberships(r) : log[i].who = p}' = MemberLines(log', r, p)
    BY <1>1 DEF Memberships, Records, MemberLines
  <2>. QED
    BY <1>2, <2>1 DEF Joined, JoinedIn
<1>. QED
  BY <1>3, <1>4

\* Calls of which no two may be in progress stay apart.
LEMMA AloneStays ==
  ASSUME LedgerInv, OneAtATime, [Next]_commandVars PROVE OneAtATime'
<1>1. None \notin Serial
  BY CommandAssumption
<1>2. ASSUME NEW a \in Actors, RoomCommand(a) \/ GrantCommand(a) \/ MessageCommand(a)
      PROVE  OneAtATime'
  BY <1>2, BegunAlone DEF OneAtATime
<1>3. ASSUME NEW a \in Actors, call'[a].op \in {call[a].op, None},
             \A d \in Actors : d # a => call'[d] = call[d]
      PROVE  OneAtATime'
  BY <1>1, <1>3 DEF OneAtATime
<1>4. ASSUME NEW a \in Actors, Prepare(a) PROVE OneAtATime'
  BY <1>3, <1>4, PreparedKey
<1>5. ASSUME NEW a \in Actors, AppendRecord(a) PROVE OneAtATime'
  <2>1. PICK todo : Proceed(a, None, todo)
    BY <1>5 DEF AppendRecord
  <2>. QED
    BY <1>3, <2>1, Proceeds DEF LedgerInv
<1>6. ASSUME NEW a \in Actors, Die(a) PROVE OneAtATime'
  BY <1>3, <1>6 DEF Die, Idle, LedgerInv, TypeOK
<1>7. CASE UNCHANGED commandVars
  BY <1>7 DEF commandVars, OneAtATime
<1>. QED
  BY <1>2, <1>4, <1>5, <1>6, <1>7 DEF Next

LEMMA RoomHere ==
  ASSUME LedgerInv, NEW r \in Rooms
  PROVE  /\ Room(r) \in RoomRecords(Number) /\ Room(r).id = r /\ r # Fresh /\ IsRoom(log, r)
         /\ Room(r).archived = RoomIn(log, r).archived
         /\ Room(r).members = ParticipantsIn(log, r)
<1>1. /\ RoomRecord(r) \in RoomRecords(Number) /\ IsRoom(log, r)
      /\ Room(r) \in RoomRecords(Number) /\ Room(r).id = r /\ r # Fresh
  BY RoomListed, RoomRead DEF LedgerInv, Number, Fresh
<1>2. RoomRecord(r) = RoomIn(log, r) /\ Participants(r) = ParticipantsIn(log, r)
  BY ReadHere DEF LedgerInv, TypeOK
<1>3. Room(r).archived = RoomRecord(r).archived /\ Room(r).members = Participants(r)
  BY <1>1 DEF Room, RoomRecords
<1>. QED
  BY <1>1, <1>2, <1>3

\* A call without writes of rooms and members.
LEMMA NothingOfRooms ==
  ASSUME NEW l, NEW c, \A k \in DOMAIN c.todo : c.todo[k].do \notin {"room", "member"},
         c.rec = None \/ c.rec.type \notin {"room", "member"}
  PROVE  RoomFits(l, c)
BY DEF RoomFits, Writes

\* What a call that begins is.
LEMMA BegunCall ==
  ASSUME LedgerInv, NEW a \in Actors, NEW op, NEW p, NEW steps, Begin(a, op, p, steps)
  PROVE  /\ call'[a].op = op /\ call'[a].who = p /\ call'[a].todo = steps
         /\ call'[a].rec = None /\ call'[a].began = Len(log) /\ call'[a].since = 0
         /\ log' = log /\ \A d \in Actors : d # a => call'[d] = call[d]
BY DEF Begin, Idle, LedgerInv, TypeOK

\* Grants and messages write no room and no member, and take away by revocation only.
LEMMA SmallCommands ==
  ASSUME LedgerInv, NEW a \in Actors, GrantCommand(a) \/ MessageCommand(a)
  PROVE  \E op, steps :
           /\ Begin(a, op, None, steps) /\ op \notin RoomOps
           /\ \A k \in DOMAIN steps :
                /\ steps[k].do \notin {"room", "member", "strip"}
                /\ steps[k].do = "revoke" => op = "revoke"
<1>1. CASE GrantRole(a) \/ GrantAdmin(a) \/ BootstrapAdmin(a)
  <2>0. PICK op \in {"grant", "admin", "bootstrap"} :
          \E p, role, r, announce : Begin(a, op, None, <<Grant(p, role, r, announce)>>)
    BY <1>1 DEF GrantRole, GrantAdmin, BootstrapAdmin
  <2>1. PICK p, role, r, announce : Begin(a, op, None, <<Grant(p, role, r, announce)>>)
    BY <2>0
  <2> DEFINE x == Grant(p, role, r, announce)
             s == <<x>>
  <2>2. x.do = "grant"
    BY DEF Grant
  <2> HIDE DEF x
  <2>3. \A k \in DOMAIN s : s[k] = x
    OBVIOUS
  <2>4. Begin(a, op, None, s)
    BY <2>1 DEF x
  <2> HIDE DEF s
  <2>. QED
    BY <2>2, <2>3, <2>4 DEF RoomOps
<1>2. CASE RevokeBinding(a)
  <2>0. PICK b \in ActiveBindings : \E t :
          /\ Begin(a, "revoke", None, <<RevokeOne(b)>> \o t)
          /\ \/ t = <<>>
             \/ BindingRecord(b).room # None /\ t = <<Notice(BindingRecord(b).room)>>
    BY <1>2 DEF RevokeBinding
  <2>1. PICK t :
          /\ Begin(a, "revoke", None, <<RevokeOne(b)>> \o t)
          /\ \/ t = <<>>
             \/ BindingRecord(b).room # None /\ t = <<Notice(BindingRecord(b).room)>>
    BY <2>0
  <2> DEFINE x == RevokeOne(b)
             s == <<x>> \o t
  <2>2. b \in Number /\ BindingRecord(b).room \in Number \cup {None}
    <3>1. b \in Bindings
      BY DEF ActiveBindings
    <3>. QED
      BY <3>1, BindingListed DEF LedgerInv, GrantRecords
  <2>3. x \in Write /\ x.do = "revoke"
    BY <2>2, WritesTyped DEF RevokeOne
  <2>4. t \in Seq(Write) /\ \A k \in DOMAIN t : t[k].do = "notice"
    <3>1. CASE t = <<>>
      BY <3>1
    <3>2. CASE BindingRecord(b).room # None /\ t = <<Notice(BindingRecord(b).room)>>
      <4> DEFINE y == Notice(BindingRecord(b).room)
      <4>1. y \in Write /\ y.do = "notice" /\ t = <<y>>
        BY <2>2, <3>2, WritesTyped DEF Notice
      <4> HIDE DEF y
      <4>. QED
        BY <4>1
    <3>. QED
      BY <2>1, <3>1, <3>2
  <2>5. <<x>> \in Seq(Write) /\ \A k \in DOMAIN <<x>> : <<x>>[k] = x
    BY <2>3, FewWrites
  <2>6. \A k \in DOMAIN s : s[k].do \in {"revoke", "notice"}
    BY <2>3, <2>4, <2>5, InFront
  <2>7. Begin(a, "revoke", None, s)
    BY <2>1
  <2> HIDE DEF s
  <2>. QED
    BY <2>6, <2>7 DEF RoomOps
<1>3. CASE MessageCommand(a)
  <2>1. PICK op, x :
          /\ Begin(a, op, None, <<x>>)
          /\ op \in {"post", "edit", "redact", "react", "mark", "follow"}
          /\ x.do \in {"post", "change", "put"}
    <3>1. CASE PostMessage(a)
      BY <3>1 DEF PostMessage, Post
    <3>2. CASE EditMessage(a) \/ RedactMessage(a) \/ SetReaction(a)
      <4>0. PICK op \in {"edit", "redact", "react"} : \E v : Begin(a, op, None, <<Change(v)>>)
        BY <3>2 DEF EditMessage, RedactMessage, SetReaction
      <4>1. PICK v : Begin(a, op, None, <<Change(v)>>)
        BY <4>0
      <4>2. Change(v).do = "change"
        BY DEF Change
      <4>. QED
        BY <4>1, <4>2
    <3>3. CASE MarkRead(a) \/ SetAttachment(a)
      <4>0. PICK op \in {"mark", "follow"} : \E v, r, t : Begin(a, op, None, <<Put(v, r, t)>>)
        BY <3>3 DEF MarkRead, SetAttachment
      <4>1. PICK v, r, t : Begin(a, op, None, <<Put(v, r, t)>>)
        BY <4>0
      <4>2. Put(v, r, t).do = "put"
        BY DEF Put
      <4>. QED
        BY <4>1, <4>2
    <3>. QED
      BY <1>3, <3>1, <3>2, <3>3 DEF MessageCommand
  <2> DEFINE s == <<x>>
  <2>2. \A k \in DOMAIN s : s[k] = x
    OBVIOUS
  <2>3. Begin(a, op, None, s)
    BY <2>1
  <2> HIDE DEF s
  <2>. QED
    BY <2>1, <2>2, <2>3 DEF RoomOps
<1>. QED
  BY <1>1, <1>2, <1>3 DEF GrantCommand

\* A call that is no departure ends no grant.
LEMMA NoDeparture ==
  ASSUME NEW l, NEW c, c.op \notin Leaving,
         c.op \notin Revokers =>
           /\ \A k \in DOMAIN c.todo : c.todo[k].do # "strip" /\ c.todo[k].do # "revoke"
           /\ c.rec # None /\ c.rec.type = "grant" => c.rec.id = Fresh
  PROVE  DepartureFits(l, c)
BY DEF DepartureFits

\* A command on a room begins with the room's writing: a new room, or one it has read.
LEMMA FirstWrite ==
  ASSUME LedgerInv, NEW a \in Actors, NEW op \in RoomOps \cap Ops, NEW p, NEW steps,
         Begin(a, op, p, steps), 1 \in DOMAIN steps, steps[1].do = "room",
         \A k \in DOMAIN steps : k # 1 =>
           /\ steps[k].do # "room" /\ steps[k].do # "member" /\ steps[k].do # "revoke"
           /\ op \in DepartureOps \/ steps[k].do # "strip",
         IF steps[1].value.id = Fresh THEN ~steps[1].value.archived
         ELSE \E r \in Rooms : LET v == steps[1].value IN
           /\ v.id = r
           /\ Room(r).archived => v.archived
           /\ v.archived => v.members \subseteq Room(r).members
           /\ Room(r).members \ v.members \subseteq (IF op \in DepartureOps THEN {p} ELSE {})
  PROVE  RoomFits(log, call'[a]) /\ (op \in DepartureOps \/ DepartureFits(log, call'[a]))
<1> DEFINE c == call'[a]
<1>1. c.op = op /\ c.who = p /\ c.todo = steps /\ c.rec = None
  BY BegunCall
<1> HIDE DEF c
<1> DEFINE v == steps[1].value
<1>2. v.id # Fresh => RewriteFits(log, c, v)
  <2> SUFFICES ASSUME v.id # Fresh PROVE RewriteFits(log, c, v)
    OBVIOUS
  <2>1. PICK r \in Rooms :
          /\ v.id = r
          /\ Room(r).archived => v.archived
          /\ v.archived => v.members \subseteq Room(r).members
          /\ Room(r).members \ v.members \subseteq (IF op \in DepartureOps THEN {p} ELSE {})
    OBVIOUS
  <2>2. Room(r).archived = RoomIn(log, r).archived /\ Room(r).members = ParticipantsIn(log, r)
    BY RoomHere
  <2> HIDE DEF v
  <2>3. Leaver(c) = IF op \in DepartureOps THEN {p} ELSE {}
    BY <1>1 DEF Leaver
  <2>4. RoomIn(log, v.id).archived => v.archived
    BY <2>1, <2>2
  <2>5. v.archived => v.members \subseteq ParticipantsIn(log, v.id)
    BY <2>1, <2>2
  <2>6. ParticipantsIn(log, v.id) \ v.members \subseteq Leaver(c)
    BY <2>1, <2>2, <2>3
  <2>. QED
    BY <2>4, <2>5, <2>6 DEF RewriteFits
<1>3. \A k \in DOMAIN steps : steps[k].do = "room" => RoomWriteFits(log, c, k)
  BY <1>1, <1>2 DEF RoomWriteFits
<1>4. RoomFits(log, c)
  BY <1>1, <1>3 DEF RoomFits
<1>5. op \in DepartureOps \/ DepartureFits(log, c)
  BY <1>1, NoDeparture DEF Leaving
<1>. QED
  BY <1>4, <1>5 DEF c

LEMMA RoomCommandFits ==
  ASSUME LedgerInv, NEW a \in Actors, RoomCommand(a)
  PROVE  /\ RoomFits(log, call'[a])
         /\ Leave(a) \/ RemoveParticipant(a) \/ DepartureFits(log, call'[a])
<1>1. CASE CreateChannel(a)
  <2>0. "create" \in Ops
    BY <1>1 DEF CreateChannel, Ready
  <2>1. PICK p \in People, slug \in Slugs, public \in BOOLEAN :
          Begin(a, "create", None,
            <<WriteRoom(NewRoom("channel", slug, {p}, public)),
              Grant(p, "room_manager", Fresh, FALSE)>>)
    BY <1>1 DEF CreateChannel
  <2> DEFINE x == WriteRoom(NewRoom("channel", slug, {p}, public))
             y == Grant(p, "room_manager", Fresh, FALSE)
             s == <<x, y>>
  <2>2. x.do = "room" /\ x.value.id = Fresh /\ ~x.value.archived /\ y.do = "grant"
    BY DEF WriteRoom, NewRoom, Grant
  <2>3. Begin(a, "create", None, s)
    BY <2>1
  <2> HIDE DEF x, y
  <2>4. s[1] = x /\ 1 \in DOMAIN s /\ \A k \in DOMAIN s : k # 1 => s[k] = y
    OBVIOUS
  <2> HIDE DEF s
  <2>. QED
    BY <2>0, <2>2, <2>3, <2>4, FirstWrite DEF RoomOps, DepartureOps
<1>2. CASE EnsureDirect(a)
  <2>9. "direct" \in Ops
    BY <1>2 DEF EnsureDirect, Ready
  <2>0. PICK ps \in SUBSET People : \E G :
          /\ Begin(a, "direct", None, <<WriteRoom(NewRoom("direct", None, ps, FALSE))>> \o G)
          /\ G = [k \in 1..(2 * Cardinality(ps)) |->
                    Grant(Listing(ps)[(k + 1) \div 2],
                          IF k % 2 = 1 THEN "participant" ELSE "room_manager", Fresh, FALSE)]
    BY <1>2 DEF EnsureDirect
  <2>1. PICK G :
          /\ Begin(a, "direct", None, <<WriteRoom(NewRoom("direct", None, ps, FALSE))>> \o G)
          /\ G = [k \in 1..(2 * Cardinality(ps)) |->
                    Grant(Listing(ps)[(k + 1) \div 2],
                          IF k % 2 = 1 THEN "participant" ELSE "room_manager", Fresh, FALSE)]
    BY <2>0
  <2> DEFINE x == WriteRoom(NewRoom("direct", None, ps, FALSE))
             s == <<x>> \o G
  <2>2. x.do = "room" /\ x.value.id = Fresh /\ ~x.value.archived
    BY DEF WriteRoom, NewRoom
  <2>3. DOMAIN G = 1..(2 * Cardinality(ps)) /\ \A k \in DOMAIN G : G[k].do = "grant"
    BY <2>1 DEF Grant
  <2>4. Cardinality(ps) \in Nat
    BY LedgerAssumption, FS_Subset, FS_CardinalityType
  <2>5. Begin(a, "direct", None, s)
    BY <2>1
  <2> HIDE DEF x
  <2>6. G \in Seq({G[k] : k \in DOMAIN G})
    <3>1. 2 * Cardinality(ps) \in Nat
      BY <2>4
    <3>2. G = [k \in 1..(2 * Cardinality(ps)) |-> G[k]]
      BY <2>1
    <3>. QED
      BY <2>3, <3>1, <3>2, SeqDef
  <2>7. 1 \in DOMAIN s /\ s[1] = x /\ \A k \in DOMAIN s : k # 1 => k - 1 \in DOMAIN G /\ s[k] = G[k - 1]
    <3> DEFINE X == {x} \cup {G[k] : k \in DOMAIN G}
    <3>1. <<x>> \in Seq(X) /\ G \in Seq(X) /\ Len(<<x>>) = 1 /\ <<x>>[1] = x
      BY <2>6
    <3> HIDE DEF X
    <3>2. /\ s \in Seq(X) /\ Len(s) = 1 + Len(G) /\ Len(G) \in Nat /\ DOMAIN G = 1..Len(G)
          /\ \A k \in 1..(1 + Len(G)) : s[k] = IF k <= 1 THEN <<x>>[k] ELSE G[k - 1]
      BY <3>1, ConcatProperties
    <3> HIDE DEF s
    <3>3. DOMAIN s = 1..(1 + Len(G))
      BY <3>2
    <3>. QED
      BY <3>1, <3>2, <3>3
  <2> HIDE DEF s
  <2>. QED
    BY <2>9, <2>2, <2>3, <2>5, <2>7, FirstWrite DEF RoomOps, DepartureOps
<1>3. ASSUME NEW op \in RoomOps \cap Ops, NEW p, NEW r \in Rooms, NEW v, NEW steps,
             Begin(a, op, p, steps), 1 \in DOMAIN steps, steps[1] = WriteRoom(v),
             \A k \in DOMAIN steps : k # 1 =>
               steps[k].do \in {"grant", "notice"} \/ (steps[k].do = "strip" /\ op \in DepartureOps),
             v.id = r, Room(r).archived => v.archived,
             v.archived => v.members \subseteq Room(r).members,
             Room(r).members \ v.members \subseteq (IF op \in DepartureOps THEN {p} ELSE {})
      PROVE  RoomFits(log, call'[a]) /\ (op \in DepartureOps \/ DepartureFits(log, call'[a]))
  <2>1. steps[1].do = "room" /\ steps[1].value = v
    BY <1>3 DEF WriteRoom
  <2>2. r # Fresh
    BY RoomHere
  <2>. QED
    BY <1>3, <2>1, <2>2, FirstWrite
<1>4. CASE Join(a)
  <2>0. "join" \in Ops
    BY <1>4 DEF Join, Ready
  <2>1. PICK p \in People, r \in Rooms :
          /\ May(p, "room.join", Room(r))
          /\ Begin(a, "join", None,
                   <<JoinWrite(p, Room(r)), Grant(p, "participant", r, FALSE), Notice(r)>>)
    BY <1>4 DEF Join
  <2> DEFINE v == [Room(r) EXCEPT !.members = @ \cup {p}]
             y == Grant(p, "participant", r, FALSE)
             z == Notice(r)
             s == <<WriteRoom(v), y, z>>
  <2>2. Room(r) \in RoomRecords(Number) /\ Room(r).id = r
    BY RoomHere
  <2>3. /\ v.id = r /\ v.archived = Room(r).archived /\ v.members = Room(r).members \cup {p}
        /\ ~Room(r).archived /\ y.do = "grant" /\ z.do = "notice"
    BY <2>1, <2>2 DEF RoomRecords, May, Grant, Notice
  <2>4. Begin(a, "join", None, s)
    BY <2>1 DEF JoinWrite
  <2> HIDE DEF v, y, z
  <2>5. 1 \in DOMAIN s /\ s[1] = WriteRoom(v) /\ \A k \in DOMAIN s : k # 1 => s[k] \in {y, z}
    OBVIOUS
  <2> HIDE DEF s
  <2>. QED
    BY <2>0, <1>3, <2>3, <2>4, <2>5 DEF RoomOps, DepartureOps
<1>5. CASE Leave(a) \/ RemoveParticipant(a)
  <2>1. PICK op \in DepartureOps, p \in People, r \in Rooms :
          Begin(a, op, p, Departure(p, Room(r))) /\ op \in Ops
    BY <1>5 DEF Leave, RemoveParticipant, DepartureOps, Ready
  <2> DEFINE v == [Room(r) EXCEPT !.members = @ \ {p}]
             y == Strip(Room(r).id, p)
             z == Notice(Room(r).id)
             s == <<WriteRoom(v), y, z>>
  <2>2. Room(r) \in RoomRecords(Number) /\ Room(r).id = r
    BY RoomHere
  <2>3. /\ v.id = r /\ v.archived = Room(r).archived /\ v.members = Room(r).members \ {p}
        /\ y.do = "strip" /\ z.do = "notice"
    BY <2>2 DEF RoomRecords, Strip, Notice
  <2>4. Begin(a, op, p, s)
    BY <2>1 DEF Departure
  <2> HIDE DEF v, y, z
  <2>5. 1 \in DOMAIN s /\ s[1] = WriteRoom(v) /\ \A k \in DOMAIN s : k # 1 => s[k] \in {y, z}
    OBVIOUS
  <2>6. op \in RoomOps \cap Ops
    BY <2>1 DEF DepartureOps, RoomOps
  <2> HIDE DEF s
  <2>. QED
    BY <1>3, <1>5, <2>3, <2>4, <2>5, <2>6
<1>6. CASE Archive(a)
  <2>0. "archive" \in Ops
    BY <1>6 DEF Archive, Ready
  <2>1. PICK r \in Rooms :
          Begin(a, "archive", None,
                <<WriteRoom([Room(r) EXCEPT !.archived = TRUE]), Notice(r)>>)
    BY <1>6 DEF Archive
  <2> DEFINE v == [Room(r) EXCEPT !.archived = TRUE]
             z == Notice(r)
             s == <<WriteRoom(v), z>>
  <2>2. Room(r) \in RoomRecords(Number) /\ Room(r).id = r
    BY RoomHere
  <2>3. v.id = r /\ v.archived /\ v.members = Room(r).members /\ z.do = "notice"
    BY <2>2 DEF RoomRecords, Notice
  <2>4. Begin(a, "archive", None, s)
    BY <2>1
  <2> HIDE DEF v, z
  <2>5. 1 \in DOMAIN s /\ s[1] = WriteRoom(v) /\ \A k \in DOMAIN s : k # 1 => s[k] = z
    OBVIOUS
  <2> HIDE DEF s
  <2>. QED
    BY <2>0, <1>3, <2>3, <2>4, <2>5 DEF RoomOps, DepartureOps
<1>7. CASE UpdateSettings(a)
  <2>0. "settings" \in Ops
    BY <1>7 DEF UpdateSettings, Ready
  <2>1. PICK r \in Rooms, public \in BOOLEAN, restricted \in BOOLEAN :
          Begin(a, "settings", None,
                <<SettingsWrite(Room(r), public, restricted)>> \o
                (IF restricted # Room(r).restricted THEN <<Notice(r)>> ELSE <<>>))
    BY <1>7 DEF UpdateSettings
  <2> DEFINE v == [Room(r) EXCEPT !.public = public, !.restricted = restricted]
             x == WriteRoom(v)
             z == Notice(r)
  <2>2. Room(r) \in RoomRecords(Number) /\ Room(r).id = r /\ r \in Number
    BY RoomRead DEF LedgerInv
  <2>3. /\ v.id = r /\ v.archived = Room(r).archived /\ v.members = Room(r).members
        /\ z.do = "notice" /\ v \in RoomRecords(Nat)
    BY <2>2 DEF RoomRecords, Notice, Number
  <2>4. x \in Write /\ z \in Write
    BY <2>2, <2>3, WritesTyped
  <2>5. <<x>> \o <<z>> = <<x, z>> /\ <<x>> \o <<>> = <<x>>
    BY <2>4, OneInFront
  <2>6. Begin(a, "settings", None, <<x, z>>) \/ Begin(a, "settings", None, <<x>>)
    BY <2>1, <2>5 DEF SettingsWrite
  <2> HIDE DEF v, z
  <2>7. PICK s : /\ Begin(a, "settings", None, s)
                 /\ 1 \in DOMAIN s /\ s[1] = WriteRoom(v)
                 /\ \A k \in DOMAIN s : k # 1 => s[k] = z
    BY <2>6
  <2>. QED
    BY <2>0, <1>3, <2>3, <2>7 DEF RoomOps, DepartureOps
<1>. QED
  BY <1>1, <1>2, <1>4, <1>5, <1>6, <1>7 DEF RoomCommand

\* What a write that is done leaves of the others.
LEMMA RoomsGoOn ==
  ASSUME LedgerInv, NEW a \in Actors, call[a].rec = None, call[a].todo # <<>>,
         RoomFits(log, call[a]),
         NEW d, d.op = call[a].op, d.who = call[a].who,
         d.rec # None => d.rec.type # "room",
         d.rec # None /\ d.rec.type = "member" =>
           LET w == Now(a) IN
           /\ w.do = "member"
           /\ d.rec.room = w.room /\ d.rec.who = w.who /\ d.rec.joined = w.joined,
         \A k \in DOMAIN d.todo : d.todo[k].do \in {"room", "member"} =>
           \E j \in DOMAIN Rest(a) : d.todo[k] = Rest(a)[j]
  PROVE  RoomFits(log, d)
<1> DEFINE c == call[a]
<1>1. /\ Now(a) = c.todo[1] /\ 1 \in DOMAIN c.todo
      /\ \A j \in DOMAIN Rest(a) :
           j + 1 \in DOMAIN c.todo /\ j + 1 # 1 /\ Rest(a)[j] = c.todo[j + 1]
  BY TheWrite DEF Number
<1>2. \A k \in DOMAIN c.todo : c.todo[k].do = "room" => k = 1
  BY DEF RoomFits, RoomWriteFits
<1>3. \A r : OpenFor(log, c, r) => OpenFor(log, d, r)
  BY DEF OpenFor
<1>4. Leaver(d) = Leaver(c)
  BY DEF Leaver
<1>5. \A w : MemberWriteFits(log, c, w) => MemberWriteFits(log, d, w)
  BY <1>3, <1>4 DEF MemberWriteFits
<1>6. \A k \in DOMAIN d.todo : d.todo[k].do \in {"room", "member"} =>
        \E j \in DOMAIN c.todo : j # 1 /\ d.todo[k] = c.todo[j]
  BY <1>1
<1>7. \A k \in DOMAIN d.todo :
        /\ d.todo[k].do # "room"
        /\ d.todo[k].do = "member" => MemberWriteFits(log, d, d.todo[k])
  <2>1. ASSUME NEW k \in DOMAIN d.todo PROVE d.todo[k].do # "room"
    BY <1>2, <1>6
  <2>2. ASSUME NEW k \in DOMAIN d.todo, d.todo[k].do = "member"
        PROVE  MemberWriteFits(log, d, d.todo[k])
    BY <1>5, <1>6, <2>2 DEF RoomFits
  <2>. QED
    BY <2>1, <2>2
<1>8. Writes(d, {"room", "member"}) => Writes(c, {"room", "member"})
  BY <1>1, <1>6 DEF Writes
<1>9. ASSUME d.rec # None, d.rec.type = "member"
      PROVE  IF d.rec.joined THEN OpenFor(log, d, d.rec.room) ELSE Leaver(d) = {d.rec.who}
  <2> DEFINE w == Now(a)
  <2>1. /\ w.do = "member" /\ d.rec.room = w.room /\ d.rec.who = w.who /\ d.rec.joined = w.joined
    BY <1>9
  <2>2. MemberWriteFits(log, d, w)
    BY <1>1, <1>5, <2>1 DEF RoomFits
  <2>3. w.room # Fresh
    <3>1. Settled(c.todo)
      BY <2>1, AllSettled
    <3>. QED
      BY <1>1, <2>1, <3>1 DEF Settled
  <2>. QED
    BY <2>1, <2>2, <2>3 DEF MemberWriteFits
<1>. QED
  BY <1>7, <1>8, <1>9 DEF RoomFits

LEMMA IdleHasNoRooms == \A l : RoomFits(l, Idle)
<1>1. Idle.todo = <<>> /\ Idle.rec = None
  BY DEF Idle
<1>2. \A k \in DOMAIN Idle.todo : FALSE
  BY <1>1
<1>. QED
  BY <1>1, <1>2, NothingOfRooms

\* What a call becomes that goes on.
LEMMA ProceedsTo ==
  ASSUME LedgerInv, NEW a \in Actors, NEW rec, NEW todo, Proceed(a, rec, todo)
  PROVE  \E d :
           /\ d.op = call[a].op /\ d.who = call[a].who /\ d.began = call[a].began
           /\ d.rec = rec /\ d.todo = todo /\ (call'[a] = Idle \/ call'[a] = d)
<1> DEFINE d == [call[a] EXCEPT !.rec = rec, !.todo = todo]
<1>1. call'[a] = Idle \/ call'[a] = d
  BY DEF Proceed, LedgerInv, TypeOK
<1>2. call[a] \in Calls
  BY DEF LedgerInv, TypeOK
<1>3. /\ d.op = call[a].op /\ d.who = call[a].who /\ d.began = call[a].began
      /\ d.rec = rec /\ d.todo = todo
  BY <1>2 DEF Calls
<1>. QED
  BY <1>1, <1>3

LEMMA OpensRoom ==
  ASSUME LedgerInv, NEW a \in Actors, OpenRoom(a), RoomFits(log, call[a])
  PROVE  RoomFits(log, call'[a])
<1> DEFINE c == call[a]
           v == Now(a).value
           found == IF v.kind = "channel" THEN ChannelsNamed(v.slug) ELSE DirectRoomsOf(v.members)
           rec == [v EXCEPT !.seq = NextSeq]
           more == Sync(Fresh, {}, v.members)
<1>1. /\ c.rec = None /\ c.todo # <<>> /\ Now(a).do = "room" /\ v.id = Fresh
      /\ \/ \E r : Proceed(a, None, About(r, Rest(a)))
         \/ Proceed(a, rec, more \o Rest(a))
  BY DEF OpenRoom, Step, Now
<1>2. v \in RoomRecords(Nat)
  BY <1>1, TheWrite, WriteKinds
<1>3. /\ Now(a) = c.todo[1] /\ 1 \in DOMAIN c.todo /\ Rest(a) \in Seq(Write)
      /\ \A j \in DOMAIN Rest(a) :
           j + 1 \in DOMAIN c.todo /\ j + 1 # 1 /\ Rest(a)[j] = c.todo[j + 1]
  BY <1>1, TheWrite DEF Number
<1>4. /\ c.op \in RoomOps \cap Ops /\ ~v.archived
      /\ \A j \in DOMAIN Rest(a) : Rest(a)[j].do \notin {"room", "member"}
  <2>1. RoomWriteFits(log, c, 1) /\ c.op \in RoomOps \cap Ops
    BY <1>1, <1>3 DEF RoomFits, Writes
  <2>2. \A k \in DOMAIN c.todo : c.todo[k].do = "room" => k = 1
    BY DEF RoomFits, RoomWriteFits
  <2>. QED
    BY <1>1, <1>3, <2>1, <2>2 DEF RoomWriteFits
<1>5. ASSUME NEW r, Proceed(a, None, About(r, Rest(a))) PROVE RoomFits(log, call'[a])
  <2> DEFINE todo == About(r, Rest(a))
  <2>1. DOMAIN todo = DOMAIN Rest(a) /\ \A k \in DOMAIN todo : todo[k].do = Rest(a)[k].do
    <3>1. DOMAIN todo = DOMAIN Rest(a)
      BY DEF About
    <3>2. ASSUME NEW k \in DOMAIN Rest(a) PROVE todo[k].do = Rest(a)[k].do
      BY DEF About
    <3>. QED
      BY <3>1, <3>2
  <2>2. PICK d : d.rec = None /\ d.todo = todo /\ (call'[a] = Idle \/ call'[a] = d)
    BY <1>5, ProceedsTo
  <2>3. RoomFits(log, d)
    BY <1>4, <2>1, <2>2, NothingOfRooms
  <2>. QED
    BY <2>2, <2>3, IdleHasNoRooms
<1>6. CASE Proceed(a, rec, more \o Rest(a))
  <2>1. rec.id = Fresh /\ ~rec.archived /\ rec.type = "room"
    BY <1>1, <1>2, <1>4 DEF RoomRecords
  <2>2. more \in Seq(Write) /\ \A k \in DOMAIN more :
          more[k].do = "member" /\ more[k].room = Fresh /\ more[k].joined
    <3>1. {} \in SUBSET People /\ v.members \in SUBSET People /\ Fresh \in Nat
      BY <1>2 DEF RoomRecords, Fresh
    <3>2. more \in Seq(Write) /\ \A k \in DOMAIN more : LET w == more[k] IN
              /\ w.do = "member" /\ w.room = Fresh
              /\ \/ w.joined /\ w.who \in v.members \ {}
                 \/ ~w.joined /\ w.who \in {} \ v.members
      BY <3>1, SyncWrites
    <3>. QED
      BY <3>2
  <2> HIDE DEF rec, more
  <2> DEFINE todo == more \o Rest(a)
  <2>3. \A k \in DOMAIN todo :
          /\ todo[k].do # "room"
          /\ todo[k].do = "member" => todo[k].room = Fresh /\ todo[k].joined
    BY <1>3, <1>4, <2>2, InFront
  <2>6. Proceed(a, rec, todo)
    BY <1>6
  <2> HIDE DEF todo
  <2>4. PICK d : d.op = c.op /\ d.rec = rec /\ d.todo = todo /\ (call'[a] = Idle \/ call'[a] = d)
    BY <2>6, ProceedsTo
  <2>5. RoomFits(log, d)
    BY <1>4, <2>1, <2>3, <2>4 DEF RoomFits, MemberWriteFits
  <2>. QED
    BY <2>4, <2>5, IdleHasNoRooms
<1>. QED
  BY <1>1, <1>5, <1>6

LEMMA UpdatesRoom ==
  ASSUME LedgerInv, NEW a \in Actors, UpdateRoom(a), RoomFits(log, call[a])
  PROVE  RoomFits(log, call'[a])
<1> DEFINE c == call[a]
           v == Now(a).value
           rec == [v EXCEPT !.seq = NextSeq]
           more == Sync(v.id, Participants(v.id), v.members)
<1>1. /\ c.rec = None /\ c.todo # <<>> /\ Now(a).do = "room" /\ v.id # Fresh
      /\ (call'[a] = Idle \/ Proceed(a, rec, more \o Rest(a)))
  BY DEF UpdateRoom, Step, Now, LedgerInv, TypeOK
<1>2. v \in RoomRecords(Nat)
  BY <1>1, TheWrite, WriteKinds
<1>3. /\ Now(a) = c.todo[1] /\ 1 \in DOMAIN c.todo /\ Rest(a) \in Seq(Write)
      /\ \A j \in DOMAIN Rest(a) :
           j + 1 \in DOMAIN c.todo /\ j + 1 # 1 /\ Rest(a)[j] = c.todo[j + 1]
  BY <1>1, TheWrite DEF Number
<1>4. /\ c.op \in RoomOps \cap Ops /\ RewriteFits(log, c, v)
      /\ \A j \in DOMAIN Rest(a) : Rest(a)[j].do \notin {"room", "member"}
  <2>1. RoomWriteFits(log, c, 1) /\ c.op \in RoomOps \cap Ops
    BY <1>1, <1>3 DEF RoomFits, Writes
  <2>2. \A k \in DOMAIN c.todo : c.todo[k].do = "room" => k = 1
    BY DEF RoomFits, RoomWriteFits
  <2>. QED
    BY <1>1, <1>3, <2>1, <2>2 DEF RoomWriteFits
<1>5. IsRoom(log, v.id) /\ v.id \in Rooms
  <2>1. RewritesRooms(log, c)
    BY <1>1, TheWrite DEF CallFits
  <2>2. IsRoom(log, v.id)
    BY <1>1, <1>3, <2>1 DEF RewritesRooms
  <2>. QED
    BY <2>2 DEF IsRoom, Rooms, Records, Positions, LedgerInv, TypeOK
<1>6. Participants(v.id) = ParticipantsIn(log, v.id) /\ Participants(v.id) \in SUBSET People
  <2>1. RoomRecord(v.id) \in RoomRecords(Number)
    BY <1>5, RoomListed DEF LedgerInv
  <2>. QED
    BY <2>1, ReadHere DEF LedgerInv, TypeOK, Participants, RoomRecords
<1>7. CASE Proceed(a, rec, more \o Rest(a))
  <2>1. rec.id = v.id /\ rec.archived = v.archived /\ rec.type = "room"
    BY <1>1, <1>2 DEF RoomRecords
  <2>2. more \in Seq(Write) /\ \A k \in DOMAIN more : LET w == more[k] IN
          /\ w.do = "member" /\ w.room = v.id
          /\ \/ w.joined /\ w.who \in v.members \ Participants(v.id)
             \/ ~w.joined /\ w.who \in Participants(v.id) \ v.members
    BY <1>2, <1>6, SyncWrites DEF RoomRecords
  <2> HIDE DEF rec, more
  <2> DEFINE todo == more \o Rest(a)
  <2>3. \A k \in DOMAIN todo : todo[k].do # "room" /\
          (todo[k].do = "member" =>
             /\ todo[k].room = v.id
             /\ \/ todo[k].joined /\ todo[k].who \in v.members \ Participants(v.id)
                \/ ~todo[k].joined /\ todo[k].who \in Participants(v.id) \ v.members)
    <3>1. Rest(a) \in Seq(Write) /\ \A j \in DOMAIN Rest(a) : Rest(a)[j].do \notin {"room", "member"}
      BY <1>3, <1>4
    <3>. QED
      BY <2>2, <3>1, InFront
  <2>8. Proceed(a, rec, todo)
    BY <1>7
  <2> HIDE DEF todo
  <2>4. PICK d : /\ d.op = c.op /\ d.who = c.who /\ d.rec = rec /\ d.todo = todo
                 /\ (call'[a] = Idle \/ call'[a] = d)
    BY <2>8, ProceedsTo
  <2> HIDE DEF v
  <2>5. Leaver(d) = Leaver(c)
    BY <2>4 DEF Leaver
  <2>6. ASSUME NEW k \in DOMAIN todo, todo[k].do = "member"
        PROVE  MemberWriteFits(log, d, todo[k])
    <3>1. CASE todo[k].joined
      <4>1. ~v.archived
        BY <1>4, <1>6, <2>3, <2>6, <3>1 DEF RewriteFits
      <4>2. OpenFor(log, d, v.id)
        BY <1>4, <1>5, <2>1, <2>4, <4>1 DEF RewriteFits, OpenFor
      <4>. QED
        BY <2>3, <2>6, <3>1, <4>2 DEF MemberWriteFits
    <3>2. CASE ~todo[k].joined
      <4>1. todo[k].who \in Leaver(d)
        BY <1>4, <1>6, <2>3, <2>5, <2>6, <3>2 DEF RewriteFits
      <4>2. Leaver(d) = {todo[k].who}
        BY <4>1 DEF Leaver
      <4>. QED
        BY <3>2, <4>2 DEF MemberWriteFits
    <3>. QED
      BY <3>1, <3>2
  <2>7. RoomFits(log, d)
    <3>1. RoomIn(log, rec.id).archived => rec.archived
      BY <1>4, <2>1 DEF RewriteFits
    <3>. QED
      BY <1>1, <1>4, <2>1, <2>3, <2>4, <2>6, <3>1 DEF RoomFits
  <2>. QED
    BY <2>4, <2>7, IdleHasNoRooms
<1>. QED
  BY <1>1, <1>7, IdleHasNoRooms

\* The revocations of a departure.
LEMMA RevocationsListed ==
  ASSUME LedgerInv, NEW p, NEW r, NEW D, D = Doomed(p, r), NEW revs,
         revs = [k \in DOMAIN Listing(D) |-> RevokeOne(Listing(D)[k])]
  PROVE  /\ revs \in Seq(Write)
         /\ \A k \in DOMAIN revs : revs[k].do = "revoke" /\ Holds(log, revs[k].binding, p, r)
<1> DEFINE n == Cardinality(D)
<1>1. /\ \A b \in D : Holds(log, b, p, r)
      /\ D \subseteq 1..Len(log) /\ Len(log) \in Nat
  <2>1. \A b \in D : Holds(log, b, p, r)
    BY DoomedIsHeld DEF LedgerInv
  <2>2. DOMAIN log = 1..Len(log) /\ Len(log) \in Nat
    BY DEF LedgerInv, TypeOK
  <2>. QED
    BY <2>1, <2>2 DEF Holds, IsBinding
<1>2. IsFiniteSet(D)
  <2>1. IsFiniteSet(1..Len(log))
    BY <1>1, FS_Interval
  <2>. QED
    BY <1>1, <2>1, FS_Subset
<1>3. n \in Nat /\ Listing(D) \in [1..n -> D]
  BY <1>2, ListingOf
<1> HIDE DEF n
<1>4. \A k \in 1..n : Listing(D)[k] \in Number /\ Holds(log, Listing(D)[k], p, r)
  BY <1>1, <1>3 DEF Number
<1>5. \A k \in 1..n : revs[k].do = "revoke" /\ revs[k].binding = Listing(D)[k] /\ revs[k] \in Write
  BY <1>3, <1>4, WritesTyped DEF RevokeOne
<1>6. DOMAIN revs = 1..n /\ revs \in [1..n -> Write]
  BY <1>3, <1>5
<1>7. revs \in Seq(Write)
  BY <1>3, <1>6, SeqDef
<1>. QED
  BY <1>4, <1>5, <1>6, <1>7

\* The writes that are about neither rooms nor members.
LEMMA PreparesOther ==
  ASSUME LedgerInv, NEW a \in Actors, Prepare(a), ~OpenRoom(a), ~UpdateRoom(a),
         RoomFits(log, call[a])
  PROVE  RoomFits(log, call'[a])
<1> DEFINE c == call[a]
           w == Now(a)
<1>1. c.rec = None /\ c.todo # <<>>
  BY DEF Prepare, UpsertMember, EnsureGrant, StripRoles, RevokeGrant, SystemMessage,
         AppendMessage, ChangeMessage, UpsertMark, Step
<1>2. Rest(a) \in Seq(Write)
  BY <1>1, TheWrite
<1>3. ASSUME NEW rec, NEW todo, Proceed(a, rec, todo), rec # None => rec.type # "room",
             rec # None /\ rec.type = "member" =>
               w.do = "member" /\ rec.room = w.room /\ rec.who = w.who /\ rec.joined = w.joined,
             \A k \in DOMAIN todo : todo[k].do \in {"room", "member"} =>
               \E j \in DOMAIN Rest(a) : todo[k] = Rest(a)[j]
      PROVE  RoomFits(log, call'[a])
  <2>1. PICK d : /\ d.op = c.op /\ d.who = c.who /\ d.rec = rec /\ d.todo = todo
                 /\ (call'[a] = Idle \/ call'[a] = d)
    BY <1>3, ProceedsTo
  <2>2. RoomFits(log, d)
    BY <1>1, <1>3, <2>1, RoomsGoOn
  <2>. QED
    BY <2>1, <2>2, IdleHasNoRooms
<1>4. \A j \in DOMAIN Rest(a) : \E i \in DOMAIN Rest(a) : Rest(a)[j] = Rest(a)[i]
  OBVIOUS
<1>5. CASE UpsertMember(a)
  <2> DEFINE rec == [type |-> "member", seq |-> NextSeq, room |-> w.room, who |-> w.who,
                     joined |-> w.joined]
  <2>1. Proceed(a, rec, Rest(a)) /\ w.do = "member"
    BY <1>5 DEF UpsertMember, Step, Now
  <2>2. /\ rec.type = "member" /\ rec.room = w.room /\ rec.who = w.who /\ rec.joined = w.joined
    OBVIOUS
  <2> HIDE DEF rec
  <2>. QED
    BY <1>3, <1>4, <2>1, <2>2
<1>6. CASE EnsureGrant(a)
  <2>1. PICK pre, rec :
          /\ rec = None \/ rec.type = "grant"
          /\ pre = <<>> \/ (w.announce /\ pre = <<Notice(w.room)>>)
          /\ Proceed(a, rec, Rest(a)) \/ Proceed(a, rec, pre \o Rest(a))
    <3>1. \/ Proceed(a, None, Rest(a))
          \/ \E rec : rec.type = "grant" /\
               Proceed(a, rec, (IF w.announce THEN <<Notice(w.room)>> ELSE <<>>) \o Rest(a))
      BY <1>6 DEF EnsureGrant
    <3>. QED
      BY <3>1
  <2>2. w.announce => w.room \in Number
    <3>1. w.do = "grant"
      BY <1>6 DEF EnsureGrant, Step, Now
    <3>. QED
      BY <1>1, <3>1, TheWrite, WriteKinds
  <2>3. pre \in Seq(Write) /\ \A k \in DOMAIN pre : pre[k].do = "notice"
    <3>1. CASE pre = <<>>
      BY <3>1
    <3>2. CASE w.announce /\ pre = <<Notice(w.room)>>
      <4> DEFINE y == Notice(w.room)
      <4>1. y \in Write /\ y.do = "notice" /\ pre = <<y>>
        BY <2>2, <3>2, WritesTyped DEF Notice
      <4> HIDE DEF y
      <4>. QED
        BY <4>1
    <3>. QED
      BY <2>1, <3>1, <3>2
  <2> DEFINE todo == pre \o Rest(a)
  <2>4. \A k \in DOMAIN todo : todo[k].do \in {"room", "member"} =>
          \E j \in DOMAIN Rest(a) : todo[k] = Rest(a)[j]
    BY <1>2, <2>3, InFront
  <2>5. Proceed(a, rec, Rest(a)) \/ Proceed(a, rec, todo)
    BY <2>1
  <2> HIDE DEF todo
  <2>. QED
    BY <1>3, <1>4, <2>1, <2>4, <2>5
<1>7. CASE StripRoles(a)
  <2> DEFINE doomed == Listing(Doomed(w.who, w.room))
             pre == [k \in DOMAIN doomed |-> RevokeOne(doomed[k])]
             todo == pre \o Rest(a)
             d == [c EXCEPT !.todo = todo, !.since = Len(log)]
  <2>1. call'[a] = d
    BY <1>7 DEF StripRoles, LedgerInv, TypeOK
  <2>2. pre \in Seq(Write) /\ \A k \in DOMAIN pre : pre[k].do = "revoke"
    BY RevocationsListed
  <2> HIDE DEF pre
  <2>4. \A k \in DOMAIN todo : todo[k].do \in {"room", "member"} =>
          \E j \in DOMAIN Rest(a) : todo[k] = Rest(a)[j]
    BY <1>2, <2>2, InFront
  <2> HIDE DEF todo
  <2>5. d.op = c.op /\ d.who = c.who /\ d.rec = None /\ d.todo = todo
    BY <1>1 DEF LedgerInv, TypeOK, Calls
  <2> HIDE DEF d
  <2>. QED
    BY <1>1, <2>1, <2>4, <2>5, RoomsGoOn
<1>8. CASE RevokeGrant(a)
  <2> DEFINE b == w.binding
             rec == [BindingRecord(b) EXCEPT !.active = FALSE, !.seq = NextSeq]
  <2>1. Proceed(a, rec, Rest(a)) /\ w.do = "revoke"
    BY <1>8 DEF RevokeGrant, Step, Now
  <2>2. b \in Bindings
    <3>1. RevokesBindings(log, c) /\ 1 \in DOMAIN c.todo /\ w = c.todo[1]
      BY <1>1, TheWrite DEF CallFits, Number
    <3>2. IsBinding(log, b)
      BY <2>1, <3>1 DEF RevokesBindings
    <3>. QED
      BY <3>2 DEF IsBinding, Bindings, Records, Positions, LedgerInv, TypeOK
  <2>3. rec.type = "grant"
    BY <2>2, BindingListed DEF GrantRecords, LedgerInv
  <2> HIDE DEF rec
  <2>. QED
    BY <1>3, <1>4, <2>1, <2>3
<1>9. CASE SystemMessage(a) \/ AppendMessage(a)
  <2>1. PICK rec : (rec = None \/ rec.type = "message") /\ Proceed(a, rec, Rest(a))
    BY <1>9 DEF SystemMessage, AppendMessage, Message
  <2>. QED
    BY <1>3, <1>4, <2>1
<1>10. CASE ChangeMessage(a) \/ UpsertMark(a)
  <2> DEFINE v == w.value
             rec == [v EXCEPT !.seq = NextSeq]
  <2>1. w.do \in {"change", "put"} /\ Proceed(a, rec, Rest(a))
    BY <1>10 DEF ChangeMessage, UpsertMark, Step, Now
  <2>2. v \in ChangeRecords({0}) \cup MarkRecords({0})
    BY <1>1, <2>1, TheWrite, WriteKinds
  <2>3. rec.type \notin {"room", "member"}
    BY <2>2 DEF ChangeRecords, MarkRecords
  <2> HIDE DEF rec
  <2>. QED
    BY <1>3, <1>4, <2>1, <2>3
<1>. QED
  BY <1>5, <1>6, <1>7, <1>8, <1>9, <1>10 DEF Prepare

LEMMA RoomsPrepared ==
  ASSUME LedgerInv, NEW a \in Actors, Prepare(a), RoomFits(log, call[a])
  PROVE  RoomFits(log, call'[a])
BY OpensRoom, UpdatesRoom, PreparesOther

\* The line a call appends, what the call is then, and what is said of rooms.
LEMMA LineOfRooms ==
  ASSUME LedgerInv, NEW a \in Actors, AppendRecord(a)
  PROVE  LET rec == call[a].rec IN
         /\ rec # None /\ rec \in Record /\ MayFollow(log, rec)
         /\ log \in Seq(Record) /\ log' \in Seq(Record) /\ Len(log) + 1 \notin DOMAIN log
         /\ \A d \in Actors : d # a => call'[d] = call[d]
         /\ call'[a].rec = None
         /\ \E x \in Record :
              /\ log' = Append(log, x) /\ x.type = rec.type
              /\ x.type = "room" =>
                   /\ x.archived = rec.archived
                   /\ x.id = IF rec.id = Fresh THEN Len(log) + 1 ELSE rec.id
              /\ x.type = "member" => x = rec
<1>1. call[a].rec # None
  BY DEF AppendRecord
<1>2. log \in Seq(Record) /\ Len(log) + 1 \notin DOMAIN log
  BY DEF LedgerInv, TypeOK
<1>3. PICK x \in Record :
        /\ log' = Append(log, x) /\ x.type = call[a].rec.type
        /\ x.type = "room" =>
             /\ x.archived = call[a].rec.archived
             /\ x.id = IF call[a].rec.id = Fresh THEN Len(log) + 1 ELSE call[a].rec.id
        /\ x.type = "member" => x = call[a].rec
  BY LineAppended
<1>4. log' \in Seq(Record)
  BY <1>2, <1>3
<1>5. call'[a].rec = None /\ \A d \in Actors : d # a => call'[d] = call[d]
  <2>1. PICK todo : Proceed(a, None, todo)
    BY DEF AppendRecord
  <2>. QED
    BY <2>1, Proceeds DEF LedgerInv
<1>6. call[a].rec \in Record /\ MayFollow(log, call[a].rec)
  BY <1>1 DEF LedgerInv, TypeOK, Calls, CallFits
<1>. QED
  BY <1>1, <1>2, <1>3, <1>4, <1>5, <1>6

\* A room that is open for newcomers stays so when the record of the call that brings
\* them is written.
LEMMA StaysOpen ==
  ASSUME LedgerInv, NEW a \in Actors, AppendRecord(a), NEW r, OpenFor(log, call[a], r)
  PROVE  IsRoom(log', r) /\ ~RoomIn(log', r).archived
<1> DEFINE rec == call[a].rec
<1>1. PICK x \in Record :
        /\ log' = Append(log, x) /\ x.type = rec.type
        /\ x.type = "room" =>
             /\ x.archived = rec.archived
             /\ x.id = IF rec.id = Fresh THEN Len(log) + 1 ELSE rec.id
  BY LineOfRooms
<1>2. rec # None /\ log \in Seq(Record) /\ Len(log) + 1 \notin DOMAIN log
  BY LineOfRooms
<1>3. IsRoom(log, r) /\ ~RoomIn(log, r).archived
      /\ (rec.type = "room" /\ rec.id = r => ~rec.archived)
  BY <1>2 DEF OpenFor
<1>4. x.type = "room" /\ x.id = r => ~x.archived
  BY <1>1, <1>2, <1>3 DEF IsRoom
<1>5. IsRoom(log', r)
  BY <1>1, <1>2, <1>3, LedgerGrows
<1>6. /\ ~(x.type = "room" /\ x.id = r) => RoomIn(log', r) = RoomIn(log, r)
      /\ RoomIn(log', r) = RoomIn(log, r) \/ RoomIn(log', r) = x
  BY <1>1, <1>2, <1>3, RoomsGrow
<1>. QED
  BY <1>3, <1>4, <1>5, <1>6

\* A new room is open.
LEMMA NewIsOpen ==
  ASSUME LedgerInv, NEW a \in Actors, AppendRecord(a), RoomFits(log, call[a]),
         call[a].rec.type = "room", call[a].rec.id = Fresh
  PROVE  IsRoom(log', Len(log) + 1) /\ ~RoomIn(log', Len(log) + 1).archived
<1> DEFINE rec == call[a].rec
           e == Len(log) + 1
<1>1. PICK x \in Record :
        /\ log' = Append(log, x) /\ x.type = "room" /\ x.id = e /\ x.archived = rec.archived
  BY LineOfRooms
<1>2. rec # None /\ log \in Seq(Record) /\ e \notin DOMAIN log
  BY LineOfRooms
<1>3. ~x.archived
  BY <1>1, <1>2 DEF RoomFits
<1>4. RoomLines(log, e) = {}
  <2> SUFFICES ASSUME NEW i \in DOMAIN log, log[i].type = "room", log[i].id = e PROVE FALSE
    BY DEF RoomLines
  <2>1. log[i].id = i \/ (log[i].id # Fresh /\ MayFollow(log, log[i]))
    BY DEF LedgerInv, WellFormed
  <2>2. log[i].id \in DOMAIN log
    BY <2>1 DEF MayFollow
  <2>. QED
    BY <1>2, <2>2
<1>5. RoomIn(log', e) = x
  BY <1>1, <1>2, <1>4, RoomsGrow
<1>6. IsRoom(log', e)
  <2>1. log' \in Seq(Record) /\ Len(log') = e /\ log'[e] = x /\ Len(log) \in Nat
    BY <1>1, <1>2, LedgerGrows
  <2>2. e \in DOMAIN log'
    BY <2>1
  <2>. QED
    BY <1>1, <2>1, <2>2 DEF IsRoom
<1>. QED
  BY <1>3, <1>5, <1>6

LEMMA OwnLine ==
  ASSUME LedgerInv, NEW a \in Actors, AppendRecord(a), RoomFits(log, call[a])
  PROVE  RoomFits(log', call'[a])
<1> DEFINE c == call[a]
           e == Len(log) + 1
           isRoom == c.rec.type = "room" /\ c.rec.id = Fresh
           left == IF isRoom THEN About(e, c.todo) ELSE c.todo
<1>1. c.rec # None /\ c.rec \in Record /\ c.todo \in Seq(Write)
  BY LineOfRooms DEF LedgerInv, TypeOK, Calls
<1>2. Proceed(a, None, left)
  <2>1. c.rec.type = "room" => "id" \in DOMAIN c.rec
    BY <1>1, RecordKinds DEF RoomRecords
  <2>. QED
    BY <2>1 DEF AppendRecord
<1>3. PICK d : /\ d.op = c.op /\ d.who = c.who /\ d.rec = None /\ d.todo = left
               /\ (call'[a] = Idle \/ call'[a] = d)
  <2> HIDE DEF left
  <2>. QED
    BY <1>2, ProceedsTo
<1>4. \A k \in DOMAIN c.todo :
        /\ c.todo[k].do # "room"
        /\ c.todo[k].do = "member" => MemberWriteFits(log, c, c.todo[k])
  BY <1>1 DEF RoomFits, RoomWriteFits
<1>5. Leaver(d) = Leaver(c)
  BY <1>3 DEF Leaver
<1>6. ASSUME NEW k \in DOMAIN left
      PROVE  /\ k \in DOMAIN c.todo /\ left[k].do = c.todo[k].do
             /\ left[k].do = "member" =>
                  /\ left[k].who = c.todo[k].who /\ left[k].joined = c.todo[k].joined
                  /\ left[k].room = IF isRoom /\ c.todo[k].room = Fresh THEN e ELSE c.todo[k].room
  <2>1. CASE ~isRoom
    BY <1>6, <2>1
  <2>2. CASE isRoom
    <3>1. k \in DOMAIN c.todo /\ c.todo[k] \in Write
      BY <1>1, <1>6, <2>2 DEF About
    <3>2. left[k] = IF "room" \in DOMAIN c.todo[k] /\ c.todo[k].room = Fresh
                    THEN [c.todo[k] EXCEPT !.room = e] ELSE c.todo[k]
      BY <1>6, <2>2, <3>1 DEF About
    <3>3. c.todo[k].do = "member" =>
            c.todo[k] \in [do : {"member"}, room : Nat, who : People, joined : BOOLEAN]
      BY <3>1, WriteKinds
    <3>4. left[k].do = c.todo[k].do
      <4>1. e \in Number
        BY DEF LedgerInv, TypeOK, Number
      <4>. QED
        BY <1>1, <2>2, <3>1, <4>1, AboutRoom
    <3>. QED
      BY <2>2, <3>1, <3>2, <3>3, <3>4
  <2>. QED
    BY <2>1, <2>2
<1>7. ASSUME NEW k \in DOMAIN left, left[k].do = "member"
      PROVE  MemberWriteFits(log', d, left[k])
  <2> DEFINE w == c.todo[k]
             v == left[k]
  <2>1. /\ MemberWriteFits(log, c, w) /\ v.who = w.who /\ v.joined = w.joined
        /\ v.room = IF isRoom /\ w.room = Fresh THEN e ELSE w.room
    BY <1>4, <1>6, <1>7
  <2> HIDE DEF w, v
  <2>2. CASE ~v.joined
    BY <1>5, <2>1, <2>2 DEF MemberWriteFits, v
  <2>3. CASE v.joined /\ v.room # Fresh
    <3>1. CASE isRoom /\ w.room = Fresh
      BY <1>3, <2>1, <2>3, <3>1, NewIsOpen DEF MemberWriteFits, OpenFor, v
    <3>2. CASE ~(isRoom /\ w.room = Fresh)
      <4>1. OpenFor(log, c, w.room) /\ v.room = w.room
        BY <2>1, <2>3, <3>2 DEF MemberWriteFits
      <4>2. IsRoom(log', v.room) /\ ~RoomIn(log', v.room).archived
        BY <4>1, StaysOpen
      <4>. QED
        BY <1>3, <2>3, <4>2 DEF MemberWriteFits, OpenFor, v
    <3>. QED
      BY <3>1, <3>2
  <2>4. CASE v.joined /\ v.room = Fresh
    BY <2>4 DEF MemberWriteFits, v
  <2>. QED
    BY <2>2, <2>3, <2>4
<1>8. Writes(d, {"room", "member"}) => Writes(c, {"room", "member"})
  BY <1>3, <1>6 DEF Writes
<1> HIDE DEF left
<1>9. RoomFits(log', d)
  BY <1>3, <1>4, <1>6, <1>7, <1>8 DEF RoomFits
<1>. QED
  BY <1>3, <1>9, IdleHasNoRooms

\* A record about something else than rooms and members leaves what calls know of them.
LEMMA RoomsFitStill ==
  ASSUME NEW l \in Seq(Record), NEW x \in Record, NEW n, n = Append(l, x),
         x.type # "room" /\ x.type # "member", NEW c \in Calls, CallFits(l, c), RoomFits(l, c)
  PROVE  RoomFits(n, c)
<1>1. ASSUME NEW r, IsRoom(l, r)
      PROVE  RoomIn(n, r) = RoomIn(l, r) /\ ParticipantsIn(n, r) = ParticipantsIn(l, r)
  BY <1>1, RoomsStay
<1>2. \A r : IsRoom(l, r) => IsRoom(n, r)
  BY LedgerGrows
<1>3. \A r : OpenFor(l, c, r) => OpenFor(n, c, r)
  BY <1>1, <1>2 DEF OpenFor
<1>4. \A w : MemberWriteFits(l, c, w) => MemberWriteFits(n, c, w)
  BY <1>3 DEF MemberWriteFits
<1>5. ASSUME NEW k \in DOMAIN c.todo, c.todo[k].do = "room" PROVE RoomWriteFits(n, c, k)
  <2> DEFINE v == c.todo[k].value
  <2>1. RoomWriteFits(l, c, k)
    BY <1>5 DEF RoomFits
  <2>2. v.id # Fresh => IsRoom(l, v.id)
    BY <1>5 DEF CallFits, RewritesRooms
  <2> HIDE DEF v
  <2>3. v.id # Fresh /\ RewriteFits(l, c, v) => RewriteFits(n, c, v)
    BY <1>1, <2>2 DEF RewriteFits
  <2>. QED
    BY <2>1, <2>3 DEF RoomWriteFits, v
<1>6. c.rec # None /\ c.rec.type = "room" /\ c.rec.id # Fresh => IsRoom(l, c.rec.id)
  BY DEF CallFits, MayFollow, IsRoom
<1>7. c.rec # None /\ c.rec.type = "room" =>
        IF c.rec.id = Fresh THEN ~c.rec.archived ELSE RoomIn(n, c.rec.id).archived => c.rec.archived
  BY <1>1, <1>6 DEF RoomFits
<1>8. c.rec # None /\ c.rec.type = "member" =>
        IF c.rec.joined THEN OpenFor(n, c, c.rec.room) ELSE Leaver(c) = {c.rec.who}
  BY <1>3 DEF RoomFits
<1>9. \A k \in DOMAIN c.todo : c.todo[k].do = "member" => MemberWriteFits(n, c, c.todo[k])
  BY <1>4 DEF RoomFits
<1>. QED
  BY <1>5, <1>7, <1>8, <1>9 DEF RoomFits

LEMMA OthersLine ==
  ASSUME RoomOps \cap Ops \subseteq Serial, LedgerInv, RoomInv,
         NEW a \in Actors, AppendRecord(a), NEW d \in Actors, d # a
  PROVE  RoomFits(log', call'[d])
<1> DEFINE rec == call[a].rec
<1>1. PICK x \in Record : log' = Append(log, x) /\ x.type = rec.type
  BY LineOfRooms
<1>2. rec # None /\ log \in Seq(Record) /\ call'[d] = call[d]
  BY LineOfRooms
<1>3. /\ RoomFits(log, call[a]) /\ RoomFits(log, call[d])
      /\ call[d] \in Calls /\ CallFits(log, call[d])
  BY DEF RoomInv, LedgerInv, TypeOK
<1>4. CASE x.type \notin {"room", "member"}
  BY <1>1, <1>2, <1>3, <1>4, RoomsFitStill
<1>5. CASE x.type \in {"room", "member"}
  <2>1. call[a].op \in RoomOps \cap Ops
    BY <1>1, <1>2, <1>3, <1>5 DEF RoomFits, Writes
  <2>2. call[d].op \notin RoomOps \cap Ops
    BY <2>1 DEF RoomInv, OneAtATime
  <2>3. ~Writes(call[d], {"room", "member"})
    BY <1>3, <2>2 DEF RoomFits
  <2>. QED
    BY <1>2, <2>3, NothingOfRooms DEF Writes
<1>. QED
  BY <1>4, <1>5

\* What a call on a room knows of the room stays true until it is done, if no two calls
\* that write rooms are in progress at once.
LEMMA RoomInvHolds ==
  ASSUME RoomOps \cap Ops \subseteq Serial
  PROVE  Spec => []RoomInv
<1>1. Init => RoomInv
  <2> SUFFICES ASSUME Init PROVE RoomInv
    OBVIOUS
  <2>1. \A a \in Actors : call[a] = Idle
    BY DEF Init
  <2>2. None \notin Serial /\ Idle.op = None
    BY CommandAssumption DEF Idle
  <2>. QED
    BY <2>1, <2>2, IdleHasNoRooms DEF RoomInv, OneAtATime
<1>2. ASSUME LedgerInv, RoomInv, [Next]_commandVars PROVE RoomInv'
  <2>1. OneAtATime'
    BY <1>2, AloneStays DEF RoomInv
  <2>2. ASSUME NEW a \in Actors, log' = log, RoomFits(log, call'[a]),
               \A d \in Actors : d # a => call'[d] = call[d]
        PROVE  RoomInv'
    <3>1. \A d \in Actors : RoomFits(log, call'[d])
      BY <1>2, <2>2 DEF RoomInv
    <3>. QED
      BY <2>1, <2>2, <3>1 DEF RoomInv
  <2>3. ASSUME NEW a \in Actors, RoomCommand(a) PROVE RoomInv'
    <3>1. RoomFits(log, call'[a])
      BY <1>2, <2>3, RoomCommandFits
    <3>2. log' = log /\ \A d \in Actors : d # a => call'[d] = call[d]
      BY <1>2, <2>3, BegunAlone
    <3>. QED
      BY <2>2, <3>1, <3>2
  <2>4. ASSUME NEW a \in Actors, GrantCommand(a) \/ MessageCommand(a) PROVE RoomInv'
    <3>1. PICK op, steps :
            /\ Begin(a, op, None, steps)
            /\ \A k \in DOMAIN steps : steps[k].do \notin {"room", "member"}
      BY <1>2, <2>4, SmallCommands
    <3>2. /\ call'[a].todo = steps /\ call'[a].rec = None /\ log' = log
          /\ \A d \in Actors : d # a => call'[d] = call[d]
      BY <1>2, <3>1, BegunCall
    <3>3. RoomFits(log, call'[a])
      BY <3>1, <3>2, NothingOfRooms
    <3>. QED
      BY <2>2, <3>2, <3>3
  <2>5. ASSUME NEW a \in Actors, Prepare(a) PROVE RoomInv'
    <3>1. RoomFits(log, call'[a])
      BY <1>2, <2>5, RoomsPrepared DEF RoomInv
    <3>2. log' = log /\ \A d \in Actors : d # a => call'[d] = call[d]
      BY <1>2, <2>5, PreparedKey DEF Prepare
    <3>. QED
      BY <2>2, <3>1, <3>2
  <2>6. ASSUME NEW a \in Actors, AppendRecord(a) PROVE RoomInv'
    <3>1. RoomFits(log', call'[a])
      BY <1>2, <2>6, OwnLine DEF RoomInv
    <3>2. \A d \in Actors : d # a => RoomFits(log', call'[d])
      BY <1>2, <2>6, OthersLine
    <3>. QED
      BY <2>1, <3>1, <3>2 DEF RoomInv
  <2>7. ASSUME NEW a \in Actors, Die(a) PROVE RoomInv'
    <3>1. /\ log' = log /\ call'[a] = Idle /\ \A d \in Actors : d # a => call'[d] = call[d]
      BY <1>2, <2>7 DEF Die, LedgerInv, TypeOK
    <3>. QED
      BY <2>2, <3>1, IdleHasNoRooms
  <2>8. CASE UNCHANGED commandVars
    BY <1>2, <2>8 DEF commandVars, RoomInv, OneAtATime
  <2>. QED
    BY <1>2, <2>3, <2>4, <2>5, <2>6, <2>7, <2>8 DEF Next
<1>. QED
  BY <1>1, <1>2, LedgerInvHolds, PTL DEF Spec

\* Only AppendRecord changes the ledger.
LEMMA OnlyAppendsChange ==
  ASSUME LedgerInv, [Next]_commandVars, log' # log
  PROVE  \E a \in Actors : AppendRecord(a)
<1>1. ASSUME NEW a \in Actors, RoomCommand(a) \/ GrantCommand(a) \/ MessageCommand(a)
      PROVE  FALSE
  BY <1>1, BegunAlone
<1>. QED
  BY <1>1 DEF Next, Prepare, Die, commandVars

\* Nobody is put out of a room but in a departure of theirs, for any number of processes
\* and crashes.  What this asks is that no two calls that write rooms are in progress at
\* once: each writes the room and its members as it read them some writes ago.
THEOREM JoinsKept ==
  ASSUME RoomOps \cap Ops \subseteq Serial
  PROVE  Spec => JoinKept
<1> DEFINE Kept == \A r \in Rooms, p \in People : Joined(r, p) /\ ~Joined(r, p)' => Departing(p)
<1>1. ASSUME LedgerInv, RoomInv, [Next]_commandVars PROVE [Kept]_log
  <2> SUFFICES ASSUME log' # log, NEW r \in Rooms, NEW p \in People, Joined(r, p), ~Joined(r, p)'
               PROVE  Departing(p)
    OBVIOUS
  <2>1. PICK a \in Actors : AppendRecord(a)
    BY <1>1, OnlyAppendsChange
  <2>2. PICK x \in Record :
          /\ log' = Append(log, x) /\ x.type = call[a].rec.type
          /\ x.type = "member" => x = call[a].rec
    BY <1>1, <2>1, LineOfRooms
  <2>3. call[a].rec # None /\ log \in Seq(Record) /\ log' \in Seq(Record)
    BY <1>1, <2>1, LineOfRooms
  <2>4. JoinedIn(log, r, p) /\ ~JoinedIn(log', r, p)
    BY <2>3, ReadHere, ReadNext
  <2>5. x.type = "member" /\ x.who = p /\ ~x.joined
    BY <2>2, <2>3, <2>4, MembersGrow
  <2>6. Leaver(call[a]) = {p}
    BY <1>1, <2>2, <2>3, <2>5 DEF RoomInv, RoomFits
  <2>. QED
    BY <2>6 DEF Leaver, DepartureOps, Departing
<1>. QED
  BY <1>1, LedgerInvHolds, RoomInvHolds, PTL DEF Spec, JoinKept

\* An archived room stays archived and takes no new participant, whatever call on it was
\* begun before, for any number of processes and crashes, if no two calls that write
\* rooms are in progress at once.
THEOREM ArchivedStays ==
  ASSUME RoomOps \cap Ops \subseteq Serial
  PROVE  Spec => ArchivedForGood
<1> DEFINE Stays == \A r \in Rooms : RoomRecord(r).archived =>
                      /\ RoomRecord(r)'.archived
                      /\ \A p \in People : Joined(r, p)' => Joined(r, p)
<1>1. ASSUME LedgerInv, RoomInv, [Next]_commandVars PROVE [Stays]_log
  <2> SUFFICES ASSUME log' # log, NEW r \in Rooms, RoomRecord(r).archived
               PROVE  /\ RoomRecord(r)'.archived
                      /\ \A p \in People : Joined(r, p)' => Joined(r, p)
    OBVIOUS
  <2>1. PICK a \in Actors : AppendRecord(a)
    BY <1>1, OnlyAppendsChange
  <2> DEFINE rec == call[a].rec
  <2>2. PICK x \in Record :
          /\ log' = Append(log, x) /\ x.type = rec.type
          /\ x.type = "room" =>
               /\ x.archived = rec.archived
               /\ x.id = IF rec.id = Fresh THEN Len(log) + 1 ELSE rec.id
          /\ x.type = "member" => x = rec
    BY <1>1, <2>1, LineOfRooms
  <2>3. /\ rec # None /\ log \in Seq(Record) /\ log' \in Seq(Record)
        /\ Len(log) + 1 \notin DOMAIN log
    BY <1>1, <2>1, LineOfRooms
  <2>4. IsRoom(log, r) /\ RoomIn(log, r).archived
    BY <1>1, <2>3, ReadHere, RoomHere
  <2>5. RoomFits(log, call[a])
    BY <1>1 DEF RoomInv
  <2>6. RoomIn(log', r).archived
    <3>1. x.type = "room" /\ x.id = r => rec.type = "room" /\ rec.id = r /\ r # Fresh
      <4>1. r \in DOMAIN log /\ r # Fresh
        BY <1>1, <2>4, RoomHere DEF IsRoom
      <4>. QED
        BY <2>2, <2>3, <4>1
    <3>2. x.type = "room" /\ x.id = r => x.archived
      BY <2>2, <2>3, <2>4, <2>5, <3>1 DEF RoomFits
    <3>3. /\ ~(x.type = "room" /\ x.id = r) => RoomIn(log', r) = RoomIn(log, r)
          /\ RoomIn(log', r) = RoomIn(log, r) \/ RoomIn(log', r) = x
      <4>1. log' = Append(log, x) /\ log \in Seq(Record) /\ IsRoom(log, r)
        BY <2>2, <2>3, <2>4
      <4>. QED
        BY <4>1, RoomsGrow
    <3>. QED
      BY <2>4, <3>2, <3>3
  <2>7. ASSUME NEW p \in People, Joined(r, p)' PROVE Joined(r, p)
    <3>1. JoinedIn(log', r, p)
      BY <2>3, <2>7, ReadNext
    <3>2. x.type = "member" /\ x.room = r => ~x.joined
      BY <2>2, <2>3, <2>4, <2>5 DEF RoomFits, OpenFor
    <3>3. JoinedIn(log, r, p)
      BY <2>2, <2>3, <3>1, <3>2, MembersGrow
    <3>. QED
      BY <2>3, <3>3, ReadHere
  <2>8. RoomRecord(r)'.archived
    BY <2>3, <2>6, ReadNext
  <2>. QED
    BY <2>7, <2>8
<1>. QED
  BY <1>1, LedgerInvHolds, RoomInvHolds, PTL DEF Spec, ArchivedForGood

-----------------------------------------------------------------------------
\* Managers as the ledger grows

\* A line more ends no binding but by revoking it, and makes none of the old ones live.
LEMMA BindingsGrow ==
  ASSUME NEW l \in Seq(Record), NEW x \in Record, NEW n, n = Append(l, x), NEW b
  PROVE  /\ Live(l, b) /\ (x.type = "grant" => x.id # b) => Live(n, b)
         /\ b \in DOMAIN l /\ Live(n, b) => Live(l, b)
         /\ b \in DOMAIN l => n[b] = l[b]
<1> DEFINE e == Len(l) + 1
<1>1. /\ n[e] = x /\ e \notin DOMAIN l
      /\ \A i \in DOMAIN l : i \in DOMAIN n /\ n[i] = l[i]
      /\ \A i \in DOMAIN n : i \in DOMAIN l \/ i = e
  <2>1. n \in Seq(Record) /\ Len(n) = e /\ Len(l) \in Nat /\ DOMAIN l = 1..Len(l)
    BY LedgerGrows
  <2>. QED
    BY <2>1, LedgerGrows
<1> HIDE DEF e
<1>. QED
  BY <1>1 DEF Live, IsBinding

LEMMA ManagersGrow ==
  ASSUME NEW l \in Seq(Record), NEW x \in Record, NEW n, n = Append(l, x), NEW p, NEW r
  PROVE  /\ \A b : ManagesBy(l, b, p, r) /\ (x.type = "grant" => x.id # b) => ManagesBy(n, b, p, r)
         /\ \A b \in DOMAIN l : ManagesBy(n, b, p, r) => ManagesBy(l, b, p, r)
<1>1. ASSUME NEW b, ManagesBy(l, b, p, r), (x.type = "grant" => x.id # b)
      PROVE  ManagesBy(n, b, p, r)
  <2>1. Live(l, b) /\ b \in DOMAIN l
    BY <1>1 DEF ManagesBy, Live, IsBinding
  <2>2. Live(n, b) /\ n[b] = l[b]
    BY <1>1, <2>1, BindingsGrow
  <2>. QED
    BY <1>1, <2>2 DEF ManagesBy
<1>2. ASSUME NEW b \in DOMAIN l, ManagesBy(n, b, p, r) PROVE ManagesBy(l, b, p, r)
  <2>1. Live(n, b)
    BY <1>2 DEF ManagesBy
  <2>2. Live(l, b) /\ n[b] = l[b]
    BY <2>1, BindingsGrow
  <2>. QED
    BY <1>2, <2>2 DEF ManagesBy
<1>. QED
  BY <1>1, <1>2

LEMMA ManagerStays ==
  ASSUME NEW l \in Seq(Record), NEW x \in Record, NEW n, n = Append(l, x), NEW p, NEW r,
         JoinedIn(n, r, p),
         \E b \in DOMAIN l : ManagesBy(l, b, p, r) /\ (x.type = "grant" => x.id # b)
  PROVE  ManagerIn(n, p, r)
<1>1. PICK b \in DOMAIN l : ManagesBy(l, b, p, r) /\ (x.type = "grant" => x.id # b)
  OBVIOUS
<1>2. ManagesBy(n, b, p, r)
  BY <1>1, ManagersGrow
<1>3. b \in DOMAIN n
  BY LedgerGrows
<1>. QED
  BY <1>2, <1>3 DEF ManagerIn

\* The one who leaves may still be missed when others come or the one who leaves has gone.
LEMMA MissedStill ==
  ASSUME NEW l \in Seq(Record), NEW x \in Record, NEW n, n = Append(l, x), NEW r,
         x.type = "grant" => x.id \notin DOMAIN l,
         NEW c, NEW d, d.who = c.who, d.began = c.began, c.began \in Nat, c.began <= Len(l),
         \A q : JoinedIn(n, r, q) => JoinedIn(l, r, q),
         \A q : q # c.who /\ JoinedIn(l, r, q) => JoinedIn(n, r, q),
         MayBeMissed(l, c, r)
  PROVE  MayBeMissed(n, d, r)
<1>1. CASE ~JoinedIn(l, r, c.who)
  BY <1>1 DEF MayBeMissed
<1>2. CASE \E q \in People : q # c.who /\ ManagerIn(l, q, r)
  <2>1. PICK q \in People : q # c.who /\ ManagerIn(l, q, r)
    BY <1>2
  <2>2. ManagerIn(n, q, r)
    <3>1. JoinedIn(n, r, q)
      BY <2>1 DEF ManagerIn
    <3>2. \E b \in DOMAIN l : ManagesBy(l, b, q, r) /\ (x.type = "grant" => x.id # b)
      BY <2>1 DEF ManagerIn
    <3>. QED
      BY <3>1, <3>2, ManagerStays
  <2>. QED
    BY <2>1, <2>2 DEF MayBeMissed
<1>3. CASE \A q \in People : JoinedIn(l, r, q) => q = c.who
  BY <1>3 DEF MayBeMissed
<1>4. CASE \A b \in 1..c.began : ~ManagesBy(l, b, c.who, r)
  <2>1. \A b \in 1..c.began : b \in DOMAIN l
    BY DEF MayBeMissed
  <2>2. \A b \in DOMAIN l : ManagesBy(n, b, c.who, r) => ManagesBy(l, b, c.who, r)
    BY ManagersGrow
  <2>. QED
    BY <1>4, <2>1, <2>2 DEF MayBeMissed
<1>. QED
  BY <1>1, <1>2, <1>3, <1>4 DEF MayBeMissed

-----------------------------------------------------------------------------
\* What ChatAuthorization says of managers

LEMMA ManagingRoles ==
  \A role \in Roles : "room.grant.manage" \in Allowed(role) <=> role \in {"room_manager", "chat_admin"}
BY DEF Roles, Allowed, ManagerActions, ParticipantActions

\* The bindings of p and r are those there are in the ledger.
LEMMA BindingsRead ==
  ASSUME LedgerInv, NEW p, NEW r, NEW b
  PROVE  /\ b \in BindingsOf(p, r) <=> Live(log, b) /\ log[b].who = p /\ log[b].room = r
         /\ b \in BindingsOf(p, r) => BindingRecord(b).role = log[b].role /\ log[b].role \in Roles
<1>1. ASSUME b \in ActiveBindings
      PROVE  /\ Live(log, b) /\ BindingRecord(b).role \in Roles
             /\ BindingRecord(b).who = log[b].who /\ BindingRecord(b).role = log[b].role
             /\ BindingRecord(b).room = log[b].room
  <2>1. b \in Bindings
    BY <1>1 DEF ActiveBindings
  <2>2. /\ BindingRecord(b).who = log[b].who /\ BindingRecord(b).role = log[b].role
        /\ BindingRecord(b).room = log[b].room /\ BindingRecord(b) \in GrantRecords
    BY <2>1, BindingListed DEF LedgerInv
  <2>3. Live(log, b)
    BY <1>1, ActiveIsUnrevoked DEF LedgerInv, Live
  <2>. QED
    BY <2>2, <2>3 DEF GrantRecords
<1>2. ASSUME Live(log, b)
      PROVE  b \in ActiveBindings
  <2>1. log \in Seq(Record) /\ Positions = DOMAIN log
    BY DEF LedgerInv, TypeOK, Positions
  <2>2. {i \in Records("grant") : log[i].id = b} = {b}
    BY <1>2, <2>1 DEF Live, IsBinding, Records
  <2>3. LastOf({b}) = b
    BY DEF LastOf
  <2>4. BindingRecord(b) = log[b]
    BY <2>2, <2>3 DEF BindingRecord
  <2>5. b \in Bindings
    BY <1>2, <2>1 DEF Live, IsBinding, Bindings, Records
  <2>. QED
    BY <1>2, <2>4, <2>5 DEF Live, ActiveBindings
<1>. QED
  BY <1>1, <1>2 DEF BindingsOf

\* The bindings by which p manages r are those there are in the ledger.
LEMMA ManagingBindings ==
  ASSUME LedgerInv, NEW p, NEW r, NEW b
  PROVE  (b \in BindingsOf(p, r) \cup BindingsOf(p, None)
          /\ "room.grant.manage" \in Allowed(BindingRecord(b).role))
         <=> ManagesBy(log, b, p, r)
BY BindingsRead, ManagingRoles DEF ManagesBy

LEMMA ManagersRead ==
  LedgerInv => \A r \in Rooms, p \in People :
                 /\ Manages(p, Room(r)) <=> \E b \in DOMAIN log : ManagesBy(log, b, p, r)
                 /\ p \in JoinedManagers(Room(r)) <=> ManagerIn(log, p, r)
<1> SUFFICES ASSUME LedgerInv, NEW r \in Rooms, NEW p \in People
             PROVE  /\ Manages(p, Room(r)) <=> \E b \in DOMAIN log : ManagesBy(log, b, p, r)
                    /\ p \in JoinedManagers(Room(r)) <=> ManagerIn(log, p, r)
  OBVIOUS
<1>1. Room(r).id = r
  BY RoomHere
<1>2. Manages(p, Room(r)) <=>
        \E b \in BindingsOf(p, r) \cup BindingsOf(p, None) :
          "room.grant.manage" \in Allowed(BindingRecord(b).role)
  BY <1>1 DEF Manages, May, Grants, RolesIn, InRoom
<1>3. \A b : ManagesBy(log, b, p, r) => b \in DOMAIN log
  BY DEF ManagesBy, Live, IsBinding
<1>4. Manages(p, Room(r)) <=> \E b \in DOMAIN log : ManagesBy(log, b, p, r)
  BY <1>2, <1>3, ManagingBindings
<1>5. Joined(r, p) <=> JoinedIn(log, r, p)
  BY ReadHere DEF LedgerInv, TypeOK
<1>. QED
  BY <1>1, <1>4, <1>5 DEF JoinedManagers, ManagerIn

LEMMA ManagersReadNext ==
  LedgerInv' => (\A r \in Rooms, p \in People :
                   /\ Manages(p, Room(r)) <=> \E b \in DOMAIN log : ManagesBy(log, b, p, r)
                   /\ p \in JoinedManagers(Room(r)) <=> ManagerIn(log, p, r))'
BY ManagersRead, PTL

LEMMA IdleLeavesNot == \A l : DepartureFits(l, Idle)
<1>1. Idle.op \notin Leaving /\ Idle.todo = <<>> /\ Idle.rec = None
  BY CommandAssumption DEF Idle, Leaving
<1>2. \A k \in DOMAIN Idle.todo : FALSE
  BY <1>1
<1>. QED
  BY <1>1, <1>2, NoDeparture

LEMMA JoinedIsPerson ==
  ASSUME NEW l \in Seq(Record), NEW r, NEW p, JoinedIn(l, r, p)
  PROVE  p \in People /\ \E i \in DOMAIN l : l[i].type = "member" /\ l[i].room = r
<1>1. PICK i \in DOMAIN l : l[i].type = "member" /\ l[i].room = r /\ l[i].who = p
  BY DEF JoinedIn, MemberLines
<1>2. p \in People
  <2>1. l[i] \in Record
    OBVIOUS
  <2>. QED
    BY <1>1, <2>1, RecordKinds DEF MemberRecords
<1>. QED
  BY <1>1, <1>2

\* Who has joined takes part.
LEMMA JoinedTakesPart ==
  ASSUME NEW l \in Seq(Record), NEW r, NEW p, JoinedIn(l, r, p)
  PROVE  p \in ParticipantsIn(l, r)
BY JoinedIsPerson DEF ParticipantsIn

\* A departure begins when its guard holds: the one who leaves may be missed.
LEMMA DepartureBegun ==
  ASSUME LedgerInv, NEW a \in Actors, Leave(a) \/ RemoveParticipant(a)
  PROVE  DepartureFits(log, call'[a])
<1>1. PICK op \in DepartureOps, p \in People, r \in Rooms :
        Begin(a, op, p, Departure(p, Room(r))) /\ op \in Ops /\ MayDepart(p, Room(r))
  BY DEF Leave, RemoveParticipant, DepartureOps, Ready
<1> DEFINE c == call'[a]
           v == [Room(r) EXCEPT !.members = @ \ {p}]
           x == WriteRoom(v)
           y == Strip(r, p)
           z == Notice(r)
           s == <<x, y, z>>
<1>2. Room(r) \in RoomRecords(Number) /\ Room(r).id = r /\ r # Fresh
      /\ Room(r).members = ParticipantsIn(log, r)
  BY RoomHere
<1>3. Begin(a, op, p, s)
  BY <1>1, <1>2 DEF Departure
<1>4. v.id = r /\ v.members = ParticipantsIn(log, r) \ {p}
  BY <1>2 DEF RoomRecords
<1>5. x.do = "room" /\ x.value = v /\ y.do = "strip" /\ y.room = r /\ z.do = "notice"
  BY DEF WriteRoom, Strip, Notice
<1> HIDE DEF v, x, y, z
<1>6. s[1] = x /\ s[2] = y /\ s[3] = z /\ DOMAIN s = 1..3
  OBVIOUS
<1> HIDE DEF s
<1>7. c.op = op /\ c.who = p /\ c.began = Len(log) /\ c.rec = None /\ c.todo = s
  BY <1>3, BegunCall
<1> HIDE DEF c
<1>8. \A q : JoinedIn(log, r, q) => q \in ParticipantsIn(log, r)
  BY JoinedTakesPart DEF LedgerInv, TypeOK
<1>9. MayBeMissed(log, c, r)
  <2>1. /\ \A q \in People : q \in JoinedManagers(Room(r)) <=> ManagerIn(log, q, r)
        /\ Manages(p, Room(r)) <=> \E b \in DOMAIN log : ManagesBy(log, b, p, r)
    BY ManagersRead
  <2>2. CASE ~Joined(Room(r).id, p)
    <3>1. ~JoinedIn(log, r, p)
      BY <1>2, <2>2, ReadHere DEF LedgerInv, TypeOK
    <3>. QED
      BY <1>7, <3>1 DEF MayBeMissed
  <2>3. CASE Room(r).members \ {p} = {}
    BY <1>2, <1>7, <1>8, <2>3 DEF MayBeMissed
  <2>4. CASE JoinedManagers(Room(r)) \ {p} # {}
    <3>1. PICK q \in JoinedManagers(Room(r)) : q # p
      BY <2>4
    <3>2. q \in People
      BY DEF JoinedManagers
    <3>. QED
      BY <1>7, <2>1, <3>1, <3>2 DEF MayBeMissed
  <2>5. CASE ~Manages(p, Room(r))
    <3>1. \A b \in 1..Len(log) : b \in DOMAIN log
      BY DEF LedgerInv, TypeOK
    <3>. QED
      BY <1>7, <2>1, <2>5, <3>1 DEF MayBeMissed
  <2>. QED
    BY <1>1, <2>2, <2>3, <2>4, <2>5 DEF MayDepart
<1>10. \A k \in DOMAIN c.todo : DepartureWriteFits(log, c, k)
  <2>1. DepartureWriteFits(log, c, 1)
    BY <1>2, <1>4, <1>5, <1>6, <1>7, <1>9 DEF DepartureWriteFits
  <2>2. DepartureWriteFits(log, c, 2)
    BY <1>4, <1>5, <1>6, <1>7 DEF DepartureWriteFits
  <2>3. DepartureWriteFits(log, c, 3)
    BY <1>5, <1>6, <1>7 DEF DepartureWriteFits
  <2>. QED
    BY <1>6, <1>7, <2>1, <2>2, <2>3
<1>11. c.op \in Leaving /\ c.op \in Revokers /\ c.began <= Len(log)
  BY <1>1, <1>7 DEF Leaving, Revokers, LedgerInv, TypeOK
<1>. QED
  BY <1>7, <1>10, <1>11 DEF DepartureFits, c

\* What a call knows that is about to write a room again.
LEMMA RoomRewriteKnown ==
  ASSUME LedgerInv, NEW a \in Actors, call[a].rec = None, call[a].todo # <<>>,
         Now(a).do = "room", Now(a).value.id # Fresh
  PROVE  LET v == Now(a).value IN
         /\ v \in RoomRecords(Nat) /\ IsRoom(log, v.id) /\ v.id \in Rooms
         /\ Participants(v.id) = ParticipantsIn(log, v.id) /\ Participants(v.id) \in SUBSET People
<1> DEFINE v == Now(a).value
<1>1. v \in RoomRecords(Nat)
  BY TheWrite, WriteKinds
<1>2. IsRoom(log, v.id) /\ v.id \in Rooms
  <2>1. RewritesRooms(log, call[a]) /\ 1 \in DOMAIN call[a].todo /\ Now(a) = call[a].todo[1]
    BY TheWrite DEF CallFits, Number
  <2>2. IsRoom(log, v.id)
    BY <2>1 DEF RewritesRooms
  <2>. QED
    BY <2>2 DEF IsRoom, Rooms, Records, Positions, LedgerInv, TypeOK
<1>3. Participants(v.id) = ParticipantsIn(log, v.id) /\ Participants(v.id) \in SUBSET People
  <2>1. RoomRecord(v.id) \in RoomRecords(Number)
    BY <1>2, RoomListed DEF LedgerInv
  <2>. QED
    BY <2>1, ReadHere DEF LedgerInv, TypeOK, Participants, RoomRecords
<1>. QED
  BY <1>1, <1>2, <1>3

LEMMA NewMembers ==
  ASSUME NEW members \in SUBSET People
  PROVE  LET more == Sync(Fresh, {}, members) IN
         more \in Seq(Write) /\ \A k \in DOMAIN more : more[k].do = "member"
<1> DEFINE more == Sync(Fresh, {}, members)
<1>1. {} \in SUBSET People /\ Fresh \in Nat
  BY DEF Fresh
<1>2. more \in Seq(Write) /\ \A k \in DOMAIN more : LET w == more[k] IN
        /\ w.do = "member" /\ w.room = Fresh
        /\ \/ w.joined /\ w.who \in members \ {}
           \/ ~w.joined /\ w.who \in {} \ members
  BY <1>1, SyncWrites
<1>. QED
  BY <1>2

\* what a call is that goes on with no revocation but those it had
NoRevocationIn(d, op, rest) ==
  /\ d.op = op
  /\ d.rec # None /\ d.rec.type = "grant" => d.rec.id = Fresh
  /\ \A k \in DOMAIN d.todo :
       \/ d.todo[k].do \in {"member", "notice"}
       \/ \E j \in DOMAIN rest : d.todo[k].do = rest[j].do

\* A write that is neither a departure's strip nor a revocation brings none.
LEMMA PreparesNoRevocation ==
  ASSUME LedgerInv, NEW a \in Actors, Prepare(a), ~StripRoles(a), ~RevokeGrant(a)
  PROVE  call'[a] = Idle \/ NoRevocationIn(call'[a], call[a].op, Rest(a))
<1> DEFINE c == call[a]
           w == Now(a)
<1>1. c.rec = None /\ c.todo # <<>>
  BY DEF Prepare, OpenRoom, UpdateRoom, UpsertMember, EnsureGrant, StripRoles, RevokeGrant,
         SystemMessage, AppendMessage, ChangeMessage, UpsertMark, Step
<1>2. Rest(a) \in Seq(Write)
  BY <1>1, TheWrite
<1>3. ASSUME NEW rec, NEW todo, Proceed(a, rec, todo),
             rec # None /\ rec.type = "grant" => rec.id = Fresh,
             \A k \in DOMAIN todo :
               \/ todo[k].do \in {"member", "notice"}
               \/ \E j \in DOMAIN Rest(a) : todo[k].do = Rest(a)[j].do
      PROVE  call'[a] = Idle \/ NoRevocationIn(call'[a], c.op, Rest(a))
  <2>1. PICK d : /\ d.op = c.op /\ d.rec = rec /\ d.todo = todo
                 /\ (call'[a] = Idle \/ call'[a] = d)
    BY <1>3, ProceedsTo
  <2>2. NoRevocationIn(d, c.op, Rest(a))
    BY <1>3, <2>1 DEF NoRevocationIn
  <2>. QED
    BY <2>1, <2>2
<1>4. \A j \in DOMAIN Rest(a) : \E i \in DOMAIN Rest(a) : Rest(a)[j].do = Rest(a)[i].do
  OBVIOUS
<1>5. ASSUME NEW pre \in Seq(Write), \A k \in DOMAIN pre : pre[k].do \in {"member", "notice"}
      PROVE  \A k \in DOMAIN (pre \o Rest(a)) :
               \/ (pre \o Rest(a))[k].do \in {"member", "notice"}
               \/ \E j \in DOMAIN Rest(a) : (pre \o Rest(a))[k].do = Rest(a)[j].do
  BY <1>2, <1>5, InFront
<1>6. CASE OpenRoom(a)
  <2> DEFINE v == w.value
             rec == [v EXCEPT !.seq = NextSeq]
             more == Sync(Fresh, {}, v.members)
  <2>1. /\ w.do = "room"
        /\ \/ \E r : Proceed(a, None, About(r, Rest(a)))
           \/ Proceed(a, rec, more \o Rest(a))
    BY <1>6 DEF OpenRoom, Step, Now
  <2>2. v \in RoomRecords(Nat)
    BY <1>1, <2>1, TheWrite, WriteKinds
  <2>3. ASSUME NEW r, Proceed(a, None, About(r, Rest(a)))
        PROVE  call'[a] = Idle \/ NoRevocationIn(call'[a], c.op, Rest(a))
    <3> DEFINE todo == About(r, Rest(a))
    <3>1. DOMAIN todo = DOMAIN Rest(a) /\ \A k \in DOMAIN todo : todo[k].do = Rest(a)[k].do
      <4>1. DOMAIN todo = DOMAIN Rest(a)
        BY DEF About
      <4>2. ASSUME NEW k \in DOMAIN Rest(a) PROVE todo[k].do = Rest(a)[k].do
        BY DEF About
      <4>. QED
        BY <4>1, <4>2
    <3>2. Proceed(a, None, todo)
      BY <2>3
    <3> HIDE DEF todo
    <3>. QED
      BY <1>3, <3>1, <3>2
  <2>4. CASE Proceed(a, rec, more \o Rest(a))
    <3>1. rec.type = "room"
      BY <2>2 DEF RoomRecords
    <3>2. more \in Seq(Write) /\ \A k \in DOMAIN more : more[k].do \in {"member", "notice"}
      <4>1. {} \in SUBSET People /\ v.members \in SUBSET People /\ Fresh \in Nat
        BY <2>2 DEF RoomRecords, Fresh
      <4>2. more \in Seq(Write) /\ \A k \in DOMAIN more : more[k].do = "member"
        BY <4>1, NewMembers
      <4>. QED
        BY <4>2
    <3> HIDE DEF rec, more
    <3> DEFINE todo == more \o Rest(a)
    <3>3. \A k \in DOMAIN todo :
            \/ todo[k].do \in {"member", "notice"}
            \/ \E j \in DOMAIN Rest(a) : todo[k].do = Rest(a)[j].do
      BY <1>5, <3>2
    <3>4. Proceed(a, rec, todo)
      BY <2>4
    <3> HIDE DEF todo
    <3>. QED
      BY <1>3, <3>1, <3>3, <3>4
  <2>. QED
    BY <2>1, <2>3, <2>4
<1>7. CASE UpdateRoom(a)
  <2> DEFINE v == w.value
             rec == [v EXCEPT !.seq = NextSeq]
             more == Sync(v.id, Participants(v.id), v.members)
  <2>1. /\ w.do = "room" /\ v.id # Fresh
        /\ (call'[a] = Idle \/ Proceed(a, rec, more \o Rest(a)))
    BY <1>7 DEF UpdateRoom, Step, Now, LedgerInv, TypeOK
  <2>2. v \in RoomRecords(Nat) /\ Participants(v.id) \in SUBSET People
    BY <1>1, <2>1, RoomRewriteKnown
  <2>3. CASE Proceed(a, rec, more \o Rest(a))
    <3>1. rec.type = "room"
      BY <2>2 DEF RoomRecords
    <3>2. more \in Seq(Write) /\ \A k \in DOMAIN more : more[k].do \in {"member", "notice"}
      BY <2>2, SyncWrites DEF RoomRecords
    <3> HIDE DEF rec, more
    <3> DEFINE todo == more \o Rest(a)
    <3>3. \A k \in DOMAIN todo :
            \/ todo[k].do \in {"member", "notice"}
            \/ \E j \in DOMAIN Rest(a) : todo[k].do = Rest(a)[j].do
      BY <1>5, <3>2
    <3>4. Proceed(a, rec, todo)
      BY <2>3
    <3> HIDE DEF todo
    <3>. QED
      BY <1>3, <3>1, <3>3, <3>4
  <2>. QED
    BY <2>1, <2>3
<1>8. CASE UpsertMember(a) \/ SystemMessage(a) \/ AppendMessage(a)
  <2>1. PICK rec : (rec = None \/ rec.type # "grant") /\ Proceed(a, rec, Rest(a))
    BY <1>8 DEF UpsertMember, SystemMessage, AppendMessage, Message
  <2>. QED
    BY <1>3, <1>4, <2>1
<1>9. CASE EnsureGrant(a)
  <2>1. PICK rec, pre :
          /\ rec = None \/ rec.id = Fresh
          /\ pre = <<>> \/ (w.announce /\ pre = <<Notice(w.room)>>)
          /\ Proceed(a, rec, Rest(a)) \/ Proceed(a, rec, pre \o Rest(a))
    <3>1. \/ Proceed(a, None, Rest(a))
          \/ \E rec : rec.id = Fresh /\
               Proceed(a, rec, (IF w.announce THEN <<Notice(w.room)>> ELSE <<>>) \o Rest(a))
      BY <1>9 DEF EnsureGrant
    <3>. QED
      BY <3>1
  <2>2. w.announce => w.room \in Number
    <3>1. w.do = "grant"
      BY <1>9 DEF EnsureGrant, Step, Now
    <3>. QED
      BY <1>1, <3>1, TheWrite, WriteKinds
  <2>3. pre \in Seq(Write) /\ \A k \in DOMAIN pre : pre[k].do \in {"member", "notice"}
    <3>1. CASE pre = <<>>
      BY <3>1
    <3>2. CASE w.announce /\ pre = <<Notice(w.room)>>
      <4> DEFINE y == Notice(w.room)
      <4>1. y \in Write /\ y.do = "notice" /\ pre = <<y>>
        BY <2>2, <3>2, WritesTyped DEF Notice
      <4> HIDE DEF y
      <4>. QED
        BY <4>1
    <3>. QED
      BY <2>1, <3>1, <3>2
  <2> DEFINE todo == pre \o Rest(a)
  <2>4. \A k \in DOMAIN todo :
          \/ todo[k].do \in {"member", "notice"}
          \/ \E j \in DOMAIN Rest(a) : todo[k].do = Rest(a)[j].do
    BY <1>5, <2>3
  <2>5. Proceed(a, rec, Rest(a)) \/ Proceed(a, rec, todo)
    BY <2>1
  <2> HIDE DEF todo
  <2>. QED
    BY <1>3, <1>4, <2>1, <2>4, <2>5
<1>10. CASE ChangeMessage(a) \/ UpsertMark(a)
  <2> DEFINE v == w.value
             rec == [v EXCEPT !.seq = NextSeq]
  <2>1. w.do \in {"change", "put"} /\ Proceed(a, rec, Rest(a))
    BY <1>10 DEF ChangeMessage, UpsertMark, Step, Now
  <2>2. v \in ChangeRecords({0}) \cup MarkRecords({0})
    BY <1>1, <2>1, TheWrite, WriteKinds
  <2>3. rec.type # "grant"
    BY <2>2 DEF ChangeRecords, MarkRecords
  <2> HIDE DEF rec
  <2>. QED
    BY <1>3, <1>4, <2>1, <2>3
<1>11. call'[a] = Idle \/ NoRevocationIn(call'[a], c.op, Rest(a))
  BY <1>6, <1>7, <1>8, <1>9, <1>10 DEF Prepare
<1>. QED
  BY <1>11

\* Who leaves a list of members is written as a member who left.
LEMMA SyncLeaver ==
  ASSUME NEW r \in Nat, NEW previous \in SUBSET People, NEW next \in SUBSET People,
         NEW p \in previous \ next
  PROVE  \E k \in DOMAIN Sync(r, previous, next) :
           Sync(r, previous, next)[k].do = "member" /\ Sync(r, previous, next)[k].room = r
<1> DEFINE left == next \ previous
           right == previous \ next
           s == [k \in DOMAIN Listing(left) |-> Member(r, Listing(left)[k], TRUE)]
           t == [k \in DOMAIN Listing(right) |-> Member(r, Listing(right)[k], FALSE)]
<1>0. left \in SUBSET People /\ right \in SUBSET People /\ right # {}
  OBVIOUS
<1>1. Sync(r, previous, next) = s \o t
  BY DEF Sync
<1> HIDE DEF left, right
<1>2. s \in Seq(Write) /\ t \in Seq(Write)
  <2>1. s \in Seq(Write) /\ \A k \in DOMAIN s :
          s[k].do = "member" /\ s[k].room = r /\ s[k].who \in left
    BY <1>0, MemberWrites
  <2>2. t \in Seq(Write) /\ \A k \in DOMAIN t :
          t[k].do = "member" /\ t[k].room = r /\ t[k].who \in right
    BY <1>0, MemberWrites
  <2>. QED
    BY <2>1, <2>2
<1>3. 1 \in DOMAIN t
  <2>1. IsFiniteSet(right)
    BY <1>0, LedgerAssumption, FS_Subset
  <2>2. Cardinality(right) \in Nat /\ Cardinality(right) # 0
    BY <1>0, <2>1, FS_EmptySet, FS_CardinalityType
  <2>3. Listing(right) \in [1..Cardinality(right) -> right]
    BY <2>1, ListingOf
  <2>. QED
    BY <2>2, <2>3
<1> HIDE DEF s, t
<1>4. Len(s) \in Nat /\ Len(s) + 1 \in DOMAIN (s \o t)
  BY <1>2, <1>3, ConcatProperties
<1>5. \A k \in DOMAIN Sync(r, previous, next) : LET w == Sync(r, previous, next)[k] IN
        /\ w.do = "member" /\ w.room = r
        /\ \/ w.joined /\ w.who \in next \ previous
           \/ ~w.joined /\ w.who \in previous \ next
  BY SyncWrites
<1>. QED
  BY <1>1, <1>4, <1>5

\* What a departure is when one write more is done.
LEMMA DepartureGoesOn ==
  ASSUME LedgerInv, NEW a \in Actors, call[a].rec = None, call[a].todo # <<>>,
         call[a].op \in Leaving, DepartureFits(log, call[a]),
         NEW d, d.op = call[a].op, d.who = call[a].who, d.began = call[a].began,
         \A k \in DOMAIN d.todo :
           DepartureWriteFits(log, d, k) \/ \E j \in DOMAIN Rest(a) : d.todo[k] = Rest(a)[j],
         \A j \in DOMAIN Rest(a) : \E k \in DOMAIN d.todo : d.todo[k] = Rest(a)[j],
         OnlyRevokes(call[a]) => OnlyRevokes(d),
         Now(a).do = "room" =>
           \/ ~JoinedIn(log, Now(a).value.id, d.who)
           \/ \E k \in DOMAIN d.todo :
                d.todo[k].do = "member" /\ d.todo[k].room = Now(a).value.id,
         Now(a).do = "member" =>
           d.rec # None /\ d.rec.type = "member" /\ d.rec.room = Now(a).room,
         d.rec # None /\ d.rec.type = "room" => d.rec.id # Fresh,
         d.rec # None /\ d.rec.type = "member" =>
           /\ ~d.rec.joined /\ MayBeMissed(log, d, d.rec.room)
           /\ \A i \in MemberLines(log, d.rec.room, d.who) : log[i].seq < d.rec.seq,
         d.rec # None /\ d.rec.type = "grant" =>
           d.rec.id # Fresh /\ HolderLeft(log, d, d.rec.id) /\ OnlyRevokes(d)
  PROVE  DepartureFits(log, d)
<1> DEFINE c == call[a]
<1>1. /\ Now(a) = c.todo[1] /\ 1 \in DOMAIN c.todo
      /\ \A j \in DOMAIN Rest(a) : j + 1 \in DOMAIN c.todo /\ Rest(a)[j] = c.todo[j + 1]
      /\ \A j \in DOMAIN c.todo : j # 1 => j - 1 \in DOMAIN Rest(a) /\ Rest(a)[j - 1] = c.todo[j]
  <2> DEFINE size == Len(c.todo)
  <2>1. /\ Now(a) = c.todo[1] /\ size \in Number /\ DOMAIN c.todo = 1..size
        /\ DOMAIN Rest(a) = 1..(size - 1)
        /\ \A j \in DOMAIN Rest(a) : j + 1 \in DOMAIN c.todo /\ Rest(a)[j] = c.todo[j + 1]
    BY TheWrite
  <2> HIDE DEF size
  <2>2. ASSUME NEW j \in DOMAIN c.todo, j # 1
        PROVE  j - 1 \in DOMAIN Rest(a) /\ Rest(a)[j - 1] = c.todo[j]
    <3>1. j - 1 \in 1..(size - 1) /\ (j - 1) + 1 = j
      BY <2>1, <2>2 DEF Number
    <3>2. Rest(a)[j - 1] = c.todo[(j - 1) + 1]
      BY <2>1, <3>1
    <3>. QED
      BY <2>1, <3>1, <3>2
  <2>3. 1 \in DOMAIN c.todo
    BY <2>1 DEF Number
  <2>. QED
    BY <2>1, <2>2, <2>3
<1>2. /\ \A r : MayBeMissed(log, c, r) => MayBeMissed(log, d, r)
      /\ \A b : HolderLeft(log, c, b) => HolderLeft(log, d, b)
  BY DEF MayBeMissed, HolderLeft
<1>3. ASSUME NEW k \in DOMAIN d.todo, NEW j \in DOMAIN Rest(a), d.todo[k] = Rest(a)[j]
      PROVE  DepartureWriteFits(log, d, k)
  <2> DEFINE w == d.todo[k]
  <2>1. j + 1 \in DOMAIN c.todo /\ w = c.todo[j + 1]
    BY <1>1, <1>3
  <2>2. DepartureWriteFits(log, c, j + 1)
    BY <2>1 DEF DepartureFits
  <2>3. ASSUME w.do = "strip"
        PROVE  \/ ~JoinedIn(log, w.room, d.who)
               \/ \E i \in DOMAIN d.todo :
                    \/ d.todo[i].do = "room" /\ d.todo[i].value.id = w.room
                    \/ d.todo[i].do = "member" /\ d.todo[i].room = w.room
               \/ d.rec # None /\ d.rec.type = "member" /\ d.rec.room = w.room
    <3>1. \/ ~JoinedIn(log, w.room, c.who)
          \/ \E i \in DOMAIN c.todo :
               \/ c.todo[i].do = "room" /\ c.todo[i].value.id = w.room
               \/ c.todo[i].do = "member" /\ c.todo[i].room = w.room
      BY <2>1, <2>2, <2>3 DEF DepartureWriteFits
    <3>2. ASSUME NEW i \in DOMAIN c.todo,
                 \/ c.todo[i].do = "room" /\ c.todo[i].value.id = w.room
                 \/ c.todo[i].do = "member" /\ c.todo[i].room = w.room
          PROVE  \/ ~JoinedIn(log, w.room, d.who)
                 \/ \E m \in DOMAIN d.todo :
                      \/ d.todo[m].do = "room" /\ d.todo[m].value.id = w.room
                      \/ d.todo[m].do = "member" /\ d.todo[m].room = w.room
                 \/ d.rec # None /\ d.rec.type = "member" /\ d.rec.room = w.room
      <4>1. CASE i = 1
        <5>1. CASE Now(a).do = "room" /\ Now(a).value.id = w.room
          BY <5>1
        <5>2. CASE Now(a).do = "member" /\ Now(a).room = w.room
          BY <5>2
        <5>. QED
          BY <1>1, <3>2, <4>1, <5>1, <5>2
      <4>2. CASE i # 1
        <5>1. PICK m \in DOMAIN d.todo : d.todo[m] = c.todo[i]
          BY <1>1, <4>2
        <5>. QED
          BY <3>2, <5>1
      <4>. QED
        BY <4>1, <4>2
    <3>. QED
      BY <3>1, <3>2
  <2>4. w.do = "revoke" => HolderLeft(log, d, w.binding) /\ OnlyRevokes(d)
    BY <1>2, <2>1, <2>2 DEF DepartureWriteFits
  <2>5. w.do = "member" => ~w.joined /\ MayBeMissed(log, d, w.room)
    BY <1>2, <2>1, <2>2 DEF DepartureWriteFits
  <2>6. w.do = "room" =>
          /\ w.value.id # Fresh /\ d.who \notin w.value.members
          /\ w.value.members \subseteq ParticipantsIn(log, w.value.id)
          /\ MayBeMissed(log, d, w.value.id)
    BY <1>2, <2>1, <2>2 DEF DepartureWriteFits
  <2>7. w.do \in {"room", "member", "strip", "revoke", "notice"}
    BY <2>1, <2>2 DEF DepartureWriteFits
  <2>. QED
    BY <2>3, <2>4, <2>5, <2>6, <2>7 DEF DepartureWriteFits
<1>4. \A k \in DOMAIN d.todo : DepartureWriteFits(log, d, k)
  BY <1>3
<1>5. d.op \in Leaving /\ d.op \in Revokers /\ d.began <= Len(log)
  BY DEF DepartureFits, Leaving, Revokers
<1>. QED
  BY <1>4, <1>5 DEF DepartureFits

LEMMA BothThere ==
  ASSUME NEW s \in Seq(Write), NEW t \in Seq(Write)
  PROVE  /\ \A k \in DOMAIN s : k \in DOMAIN (s \o t) /\ (s \o t)[k] = s[k]
         /\ \A j \in DOMAIN t : \E k \in DOMAIN (s \o t) : (s \o t)[k] = t[j]
<1>1. \A k \in 1..(Len(s) + Len(t)) : (s \o t)[k] = IF k <= Len(s) THEN s[k] ELSE t[k - Len(s)]
  BY ConcatProperties
<1>2. DOMAIN (s \o t) = 1..(Len(s) + Len(t))
  BY InFront
<1>3. Len(s) \in Nat /\ Len(t) \in Nat /\ DOMAIN s = 1..Len(s) /\ DOMAIN t = 1..Len(t)
  OBVIOUS
<1>4. \A k \in DOMAIN s : k \in DOMAIN (s \o t) /\ (s \o t)[k] = s[k]
  BY <1>1, <1>2, <1>3
<1>5. ASSUME NEW j \in DOMAIN t PROVE \E k \in DOMAIN (s \o t) : (s \o t)[k] = t[j]
  <2> DEFINE k == Len(s) + j
  <2>1. k \in 1..(Len(s) + Len(t)) /\ ~(k <= Len(s)) /\ k - Len(s) = j
    BY <1>3
  <2>2. (s \o t)[k] = t[j]
    BY <1>1, <2>1
  <2>. QED
    BY <1>2, <2>1, <2>2
<1>. QED
  BY <1>4, <1>5

\* A departure writes its room: the one who leaves is written as gone.
LEMMA DepartureUpdatesRoom ==
  ASSUME LedgerInv, NEW a \in Actors, UpdateRoom(a), call[a].op \in Leaving,
         DepartureFits(log, call[a])
  PROVE  DepartureFits(log, call'[a])
<1> DEFINE c == call[a]
           v == Now(a).value
           previous == Participants(v.id)
           rec == [v EXCEPT !.seq = NextSeq]
           more == Sync(v.id, previous, v.members)
<1>1. /\ c.rec = None /\ c.todo # <<>> /\ Now(a).do = "room" /\ v.id # Fresh
      /\ call'[a] = Idle \/ Proceed(a, rec, more \o Rest(a))
  BY DEF UpdateRoom, Step, Now, LedgerInv, TypeOK
<1>2. /\ v \in RoomRecords(Nat) /\ previous = ParticipantsIn(log, v.id)
      /\ previous \in SUBSET People
  BY <1>1, RoomRewriteKnown
<1>3. Now(a) = c.todo[1] /\ 1 \in DOMAIN c.todo /\ Rest(a) \in Seq(Write)
  BY <1>1, TheWrite DEF Number
<1>4. c.who \notin v.members /\ v.members \subseteq previous /\ MayBeMissed(log, c, v.id)
  <2>1. DepartureWriteFits(log, c, 1)
    BY <1>3 DEF DepartureFits
  <2>. QED
    BY <1>1, <1>2, <1>3, <2>1 DEF DepartureWriteFits
<1>5. v.id \in Nat /\ v.members \in SUBSET People /\ rec.type = "room" /\ rec.id = v.id
  BY <1>2 DEF RoomRecords
<1>6. /\ more \in Seq(Write)
      /\ \A k \in DOMAIN more : LET w == more[k] IN
           /\ w.do = "member" /\ w.room = v.id
           /\ \/ w.joined /\ w.who \in v.members \ previous
              \/ ~w.joined /\ w.who \in previous \ v.members
  BY <1>2, <1>5, SyncWrites
<1>7. JoinedIn(log, v.id, c.who) =>
        \E k \in DOMAIN more : more[k].do = "member" /\ more[k].room = v.id
  <2> SUFFICES ASSUME JoinedIn(log, v.id, c.who)
               PROVE  \E k \in DOMAIN more : more[k].do = "member" /\ more[k].room = v.id
    OBVIOUS
  <2>1. c.who \in ParticipantsIn(log, v.id)
    BY JoinedTakesPart DEF LedgerInv, TypeOK
  <2>. QED
    BY <1>2, <1>4, <1>5, <2>1, SyncLeaver
<1>8. ASSUME Proceed(a, rec, more \o Rest(a)) PROVE DepartureFits(log, call'[a])
  <2> HIDE DEF rec, more, v, previous
  <2> DEFINE todo == more \o Rest(a)
  <2>1. \A k \in DOMAIN todo :
          (k \in DOMAIN more /\ todo[k] = more[k]) \/ \E j \in DOMAIN Rest(a) : todo[k] = Rest(a)[j]
    BY <1>3, <1>6, InFront
  <2>2. /\ \A k \in DOMAIN more : k \in DOMAIN todo /\ todo[k] = more[k]
        /\ \A j \in DOMAIN Rest(a) : \E k \in DOMAIN todo : todo[k] = Rest(a)[j]
    BY <1>3, <1>6, BothThere
  <2>3. Proceed(a, rec, todo)
    BY <1>8
  <2> HIDE DEF todo
  <2>4. PICK d : /\ d.op = c.op /\ d.who = c.who /\ d.began = c.began /\ d.rec = rec /\ d.todo = todo
                 /\ (call'[a] = Idle \/ call'[a] = d)
    BY <2>3, ProceedsTo
  <2>5. MayBeMissed(log, d, v.id)
    BY <1>4, <2>4 DEF MayBeMissed
  <2>6. ASSUME NEW k \in DOMAIN d.todo
        PROVE  DepartureWriteFits(log, d, k) \/ \E j \in DOMAIN Rest(a) : d.todo[k] = Rest(a)[j]
    <3>1. CASE k \in DOMAIN more /\ todo[k] = more[k]
      <4>1. d.todo[k].do = "member" /\ d.todo[k].room = v.id /\ ~d.todo[k].joined
        BY <1>4, <1>6, <2>4, <3>1
      <4>. QED
        BY <2>5, <4>1 DEF DepartureWriteFits
    <3>. QED
      BY <2>1, <2>4, <2>6, <3>1
  <2>7. ~OnlyRevokes(c)
    BY <1>1, <1>3 DEF OnlyRevokes
  <2>8. \/ ~JoinedIn(log, v.id, d.who)
        \/ \E k \in DOMAIN d.todo : d.todo[k].do = "member" /\ d.todo[k].room = v.id
    BY <1>7, <2>2, <2>4
  <2>9. DepartureFits(log, d)
    BY <1>1, <1>5, <2>2, <2>4, <2>6, <2>7, <2>8, DepartureGoesOn DEF v
  <2>. QED
    BY <2>4, <2>9, IdleLeavesNot
<1>. QED
  BY <1>1, <1>8, IdleLeavesNot

\* A departure goes on with its other writes.
LEMMA DepartureRests ==
  ASSUME LedgerInv, NEW a \in Actors, call[a].rec = None, call[a].todo # <<>>,
         call[a].op \in Leaving, DepartureFits(log, call[a]),
         NEW rec, Proceed(a, rec, Rest(a)),
         Now(a).do # "room",
         Now(a).do = "member" => rec # None /\ rec.type = "member" /\ rec.room = Now(a).room,
         rec # None => rec.type # "room",
         rec # None /\ rec.type = "member" =>
           /\ ~rec.joined /\ MayBeMissed(log, call[a], rec.room)
           /\ \A i \in MemberLines(log, rec.room, call[a].who) : log[i].seq < rec.seq,
         rec # None /\ rec.type = "grant" =>
           rec.id # Fresh /\ HolderLeft(log, call[a], rec.id) /\ OnlyRevokes(call[a])
  PROVE  DepartureFits(log, call'[a])
<1> DEFINE c == call[a]
           todo == Rest(a)
<1>1. Proceed(a, rec, todo)
  OBVIOUS
<1>2. \A j \in DOMAIN Rest(a) : j + 1 \in DOMAIN c.todo /\ Rest(a)[j] = c.todo[j + 1]
  BY TheWrite
<1>3. todo = Rest(a)
  OBVIOUS
<1> HIDE DEF todo
<1>4. PICK d : /\ d.op = c.op /\ d.who = c.who /\ d.began = c.began /\ d.rec = rec /\ d.todo = todo
               /\ (call'[a] = Idle \/ call'[a] = d)
  BY <1>1, ProceedsTo
<1>5. OnlyRevokes(c) => OnlyRevokes(d)
  BY <1>2, <1>3, <1>4 DEF OnlyRevokes
<1>6. /\ \A r : MayBeMissed(log, c, r) => MayBeMissed(log, d, r)
      /\ \A b : HolderLeft(log, c, b) => HolderLeft(log, d, b)
  BY <1>4 DEF MayBeMissed, HolderLeft
<1>7. /\ \A k \in DOMAIN d.todo : \E j \in DOMAIN Rest(a) : d.todo[k] = Rest(a)[j]
      /\ \A j \in DOMAIN Rest(a) : \E k \in DOMAIN d.todo : d.todo[k] = Rest(a)[j]
  BY <1>3, <1>4
<1>8. DepartureFits(log, d)
  BY <1>4, <1>5, <1>6, <1>7, DepartureGoesOn
<1>. QED
  BY <1>4, <1>8, IdleLeavesNot

\* The revocations are listed when the one who leaves has left.
LEMMA DepartureStrips ==
  ASSUME LedgerInv, NEW a \in Actors, StripRoles(a), call[a].op \in Leaving,
         DepartureFits(log, call[a])
  PROVE  DepartureFits(log, call'[a])
<1> DEFINE c == call[a]
           w == Now(a)
           doomed == Listing(Doomed(w.who, w.room))
           revs == [k \in DOMAIN doomed |-> RevokeOne(doomed[k])]
           todo == revs \o Rest(a)
           d == [c EXCEPT !.todo = todo, !.since = Len(log)]
<1>1. c.rec = None /\ c.todo # <<>> /\ w.do = "strip" /\ call'[a] = d
  BY DEF StripRoles, Step, Now, LedgerInv, TypeOK
<1>2. /\ w = c.todo[1] /\ 1 \in DOMAIN c.todo /\ Rest(a) \in Seq(Write)
      /\ \A j \in DOMAIN Rest(a) : j + 1 \in DOMAIN c.todo /\ Rest(a)[j] = c.todo[j + 1]
  BY <1>1, TheWrite DEF Number
<1>3. /\ w.who = c.who /\ c.todo[2].do = "notice" /\ DOMAIN c.todo = 1..2
      /\ w.room # None
  <2>1. StripsLast(c) /\ c.todo \in Seq(Write)
    BY DEF LedgerInv, TypeOK, CallFits, Calls
  <2>2. w.room \in Number
    BY <1>1, TheWrite, WriteKinds
  <2>. QED
    BY <1>1, <1>2, <2>1, <2>2, LedgerAssumption DEF StripsLast, Number
<1>4. ~JoinedIn(log, w.room, c.who)
  <2>1. DepartureWriteFits(log, c, 1)
    BY <1>2 DEF DepartureFits
  <2>2. \A j \in DOMAIN c.todo : c.todo[j].do # "room" /\ c.todo[j].do # "member"
    BY <1>1, <1>2, <1>3
  <2>. QED
    BY <1>1, <1>2, <2>1, <2>2 DEF DepartureWriteFits
<1>5. /\ revs \in Seq(Write)
      /\ \A k \in DOMAIN revs :
           revs[k].do = "revoke" /\ Holds(log, revs[k].binding, w.who, w.room)
  BY RevocationsListed
<1> HIDE DEF revs
<1>6. /\ \A k \in DOMAIN todo :
           (k \in DOMAIN revs /\ todo[k] = revs[k]) \/ \E j \in DOMAIN Rest(a) : todo[k] = Rest(a)[j]
      /\ \A j \in DOMAIN Rest(a) : \E k \in DOMAIN todo : todo[k] = Rest(a)[j]
  BY <1>2, <1>5, InFront, BothThere
<1> HIDE DEF todo
<1>7. d.op = c.op /\ d.who = c.who /\ d.began = c.began /\ d.rec = None /\ d.todo = todo
  BY <1>1 DEF LedgerInv, TypeOK, Calls
<1> HIDE DEF d
<1>8. \A j \in DOMAIN Rest(a) : Rest(a)[j].do = "notice"
  <2> SUFFICES ASSUME NEW j \in DOMAIN Rest(a) PROVE Rest(a)[j].do = "notice"
    OBVIOUS
  <2>1. DOMAIN Rest(a) = 1..(Len(c.todo) - 1) /\ Len(c.todo) \in Number /\ DOMAIN c.todo = 1..Len(c.todo)
    BY <1>1, TheWrite
  <2>2. j \in Nat /\ j >= 1 /\ j + 1 \in 1..2
    BY <1>2, <1>3, <2>1 DEF Number
  <2>3. j + 1 = 2
    BY <2>2
  <2>. QED
    BY <1>2, <1>3, <2>3
<1>9. OnlyRevokes(d)
  BY <1>5, <1>6, <1>7, <1>8 DEF OnlyRevokes
<1>10. ASSUME NEW k \in DOMAIN d.todo
       PROVE  DepartureWriteFits(log, d, k) \/ \E j \in DOMAIN Rest(a) : d.todo[k] = Rest(a)[j]
  <2>1. CASE k \in DOMAIN revs /\ todo[k] = revs[k]
    <3>1. d.todo[k].do = "revoke" /\ Holds(log, d.todo[k].binding, w.who, w.room)
      BY <1>5, <1>7, <2>1
    <3>2. HolderLeft(log, d, d.todo[k].binding)
      BY <1>3, <1>4, <1>7, <3>1 DEF HolderLeft, Holds
    <3>. QED
      BY <1>9, <3>1, <3>2 DEF DepartureWriteFits
  <2>. QED
    BY <1>6, <1>7, <1>10, <2>1
<1>11. DepartureFits(log, d)
  BY <1>1, <1>6, <1>7, <1>9, <1>10, DepartureGoesOn
<1>. QED
  BY <1>1, <1>11

LEMMA DepartureRevokes ==
  ASSUME LedgerInv, NEW a \in Actors, RevokeGrant(a), call[a].op \in Leaving,
         DepartureFits(log, call[a])
  PROVE  DepartureFits(log, call'[a])
<1> DEFINE c == call[a]
           w == Now(a)
           b == w.binding
           rec == [BindingRecord(b) EXCEPT !.active = FALSE, !.seq = NextSeq]
<1>1. /\ c.rec = None /\ c.todo # <<>> /\ w.do = "revoke" /\ Proceed(a, rec, Rest(a))
  BY DEF RevokeGrant, Step, Now
<1>2. w = c.todo[1] /\ 1 \in DOMAIN c.todo
  BY <1>1, TheWrite DEF Number
<1>3. b \in Bindings
  <2>1. RevokesBindings(log, c)
    BY <1>1, TheWrite DEF CallFits
  <2>2. IsBinding(log, b)
    BY <1>1, <1>2, <2>1 DEF RevokesBindings
  <2>. QED
    BY <2>2 DEF IsBinding, Bindings, Records, Positions, LedgerInv, TypeOK
<1>4. rec.type = "grant" /\ rec.id = b /\ b # Fresh
  BY <1>3, BindingListed DEF GrantRecords, LedgerInv, Number, Fresh
<1>5. HolderLeft(log, c, b) /\ OnlyRevokes(c)
  <2>1. DepartureWriteFits(log, c, 1)
    BY <1>2 DEF DepartureFits
  <2>. QED
    BY <1>1, <1>2, <2>1 DEF DepartureWriteFits
<1> HIDE DEF rec
<1>. QED
  BY <1>1, <1>4, <1>5, DepartureRests

LEMMA DeparturePrepared ==
  ASSUME LedgerInv, NEW a \in Actors, Prepare(a), call[a].op \in Leaving,
         DepartureFits(log, call[a])
  PROVE  DepartureFits(log, call'[a])
<1> DEFINE c == call[a]
           w == Now(a)
<1>1. c.rec = None /\ c.todo # <<>>
  BY DEF Prepare, OpenRoom, UpdateRoom, UpsertMember, EnsureGrant, StripRoles, RevokeGrant,
         SystemMessage, AppendMessage, ChangeMessage, UpsertMark, Step
<1>2. w = c.todo[1] /\ DepartureWriteFits(log, c, 1)
  BY <1>1, TheWrite DEF DepartureFits, Number
<1>3. w.do \in {"room", "member", "strip", "revoke", "notice"} /\ (w.do = "room" => w.value.id # Fresh)
  BY <1>2 DEF DepartureWriteFits
<1>4. ~OpenRoom(a)
  BY <1>3 DEF OpenRoom, Step, Now
<1>5. ~EnsureGrant(a) /\ ~AppendMessage(a) /\ ~ChangeMessage(a) /\ ~UpsertMark(a)
  BY <1>3 DEF EnsureGrant, AppendMessage, ChangeMessage, UpsertMark, Step, Now
<1>6. CASE UpsertMember(a)
  <2> DEFINE rec == [type |-> "member", seq |-> NextSeq, room |-> w.room, who |-> w.who,
                     joined |-> w.joined]
  <2>1. Proceed(a, rec, Rest(a)) /\ w.do = "member"
    BY <1>6 DEF UpsertMember, Step, Now
  <2>2. /\ rec.type = "member" /\ rec.room = w.room /\ rec.joined = w.joined /\ rec.seq = NextSeq
    OBVIOUS
  <2>3. ~w.joined /\ MayBeMissed(log, c, w.room)
    BY <1>2, <2>1 DEF DepartureWriteFits
  <2>4. rec # None
    <3>1. rec \in Record
      <4>1. w \in Write
        BY <1>1, TheWrite
      <4>2. w \in [do : {"member"}, room : Nat, who : People, joined : BOOLEAN] /\ w.room # Fresh
        <5>1. Settled(c.todo)
          BY <1>1, <2>1, AllSettled
        <5>2. 1 \in DOMAIN c.todo
          BY <1>1, TheWrite DEF Number
        <5>. QED
          BY <1>2, <2>1, <4>1, <5>1, <5>2, WriteKinds DEF Settled
      <4>3. NextSeq \in Number
        BY NextSeqIsHighest DEF LedgerInv
      <4>. QED
        BY <4>2, <4>3 DEF Record, MemberRecords, Number, Fresh
    <3>. QED
      BY <3>1, ChatAssumption
  <2>5. \A i \in MemberLines(log, w.room, c.who) : log[i].seq < NextSeq
    BY NextSeqIsHighest DEF MemberLines, LedgerInv, TypeOK, Positions
  <2> HIDE DEF rec
  <2>. QED
    BY <1>1, <2>1, <2>2, <2>3, <2>4, <2>5, DepartureRests
<1>7. CASE SystemMessage(a)
  <2>1. PICK rec : rec.type = "message" /\ Proceed(a, rec, Rest(a)) /\ w.do = "notice"
    BY <1>7 DEF SystemMessage, Message, Step, Now
  <2>. QED
    BY <1>1, <2>1, DepartureRests
<1>. QED
  BY <1>4, <1>5, <1>6, <1>7, DepartureUpdatesRoom, DepartureStrips, DepartureRevokes DEF Prepare

LEMMA SmallNoDeparture ==
  ASSUME LedgerInv, NEW a \in Actors, GrantCommand(a) \/ MessageCommand(a)
  PROVE  DepartureFits(log, call'[a])
<1>1. PICK op, steps :
        /\ Begin(a, op, None, steps) /\ op \notin RoomOps
        /\ \A k \in DOMAIN steps :
             /\ steps[k].do \notin {"room", "member", "strip"}
             /\ steps[k].do = "revoke" => op = "revoke"
  BY SmallCommands
<1>2. call'[a].op = op /\ call'[a].todo = steps /\ call'[a].rec = None
  BY <1>1, BegunCall
<1>3. op \in Ops
  BY <1>2, BegunAlone
<1>4. op \notin Leaving
  BY <1>1 DEF Leaving, DepartureOps, RoomOps
<1>5. op = "revoke" => op \in Revokers
  BY <1>3 DEF Revokers
<1>. QED
  BY <1>1, <1>2, <1>4, <1>5, NoDeparture

LEMMA PreparedNoDeparture ==
  ASSUME LedgerInv, NEW a \in Actors, Prepare(a), call[a].op \notin Leaving,
         DepartureFits(log, call[a])
  PROVE  DepartureFits(log, call'[a])
<1> DEFINE c == call[a]
           d == call'[a]
<1>1. c.rec = None /\ c.todo # <<>>
  BY DEF Prepare, OpenRoom, UpdateRoom, UpsertMember, EnsureGrant, StripRoles, RevokeGrant,
         SystemMessage, AppendMessage, ChangeMessage, UpsertMark, Step
<1>2. d = Idle \/ d.op = c.op
  <2>1. CASE StripRoles(a)
    BY <2>1 DEF StripRoles, LedgerInv, TypeOK, Calls
  <2>2. CASE ~StripRoles(a)
    <3>1. d = Idle \/ \E rec, todo : Proceed(a, rec, todo)
      BY <2>2 DEF Prepare, OpenRoom, UpdateRoom, UpsertMember, EnsureGrant, RevokeGrant,
         SystemMessage, AppendMessage, ChangeMessage, UpsertMark, LedgerInv, TypeOK
    <3>2. ASSUME NEW rec, NEW todo, Proceed(a, rec, todo) PROVE d = Idle \/ d.op = c.op
      BY <3>2, ProceedsTo
    <3>. QED
      BY <3>1, <3>2
  <2>. QED
    BY <2>1, <2>2
<1>3. CASE c.op \in Revokers
  <2>1. d = Idle \/ (d.op \notin Leaving /\ d.op \in Revokers)
    BY <1>2, <1>3
  <2>2. d.op \notin Leaving /\ d.op \in Revokers => DepartureFits(log, d)
    BY DEF DepartureFits
  <2>. QED
    BY <2>1, <2>2, IdleLeavesNot
<1>4. CASE c.op \notin Revokers
  <2>1. \A k \in DOMAIN c.todo : c.todo[k].do # "strip" /\ c.todo[k].do # "revoke"
    BY <1>4 DEF DepartureFits
  <2>2. /\ Now(a) = c.todo[1] /\ 1 \in DOMAIN c.todo
        /\ \A j \in DOMAIN Rest(a) : j + 1 \in DOMAIN c.todo /\ Rest(a)[j] = c.todo[j + 1]
    BY <1>1, TheWrite DEF Number
  <2>3. ~StripRoles(a) /\ ~RevokeGrant(a)
    BY <2>1, <2>2 DEF StripRoles, RevokeGrant, Step, Now
  <2>4. d = Idle \/ NoRevocationIn(d, c.op, Rest(a))
    BY <2>3, PreparesNoRevocation
  <2>5. ASSUME NoRevocationIn(d, c.op, Rest(a)) PROVE DepartureFits(log, d)
    <3>1. /\ d.op \notin Leaving
          /\ d.rec # None /\ d.rec.type = "grant" => d.rec.id = Fresh
      BY <2>5 DEF NoRevocationIn
    <3>2. \A k \in DOMAIN d.todo : d.todo[k].do # "strip" /\ d.todo[k].do # "revoke"
      BY <2>1, <2>2, <2>5 DEF NoRevocationIn
    <3> HIDE DEF d
    <3>. QED
      BY <3>1, <3>2, NoDeparture
  <2>. QED
    BY <2>4, <2>5, IdleLeavesNot
<1>. QED
  BY <1>3, <1>4

\* What a departure knows when a line more is there: nobody has come, nobody else has
\* gone, and no binding but of one who has left is revoked.
LEMMA WritesFitStill ==
  ASSUME NEW l \in Seq(Record), NEW x \in Record, NEW n, n = Append(l, x),
         NEW c \in Calls, CallFits(l, c), c.op \in Leaving, DepartureFits(l, c),
         NEW d, d.who = c.who, d.began = c.began, d.todo = c.todo,
         \A r, q : JoinedIn(n, r, q) => JoinedIn(l, r, q),
         \A r, q : q # c.who /\ JoinedIn(l, r, q) => JoinedIn(n, r, q),
         OnlyRevokes(c) \/ (x.type = "grant" => x.id \notin DOMAIN l),
         \A k \in DOMAIN c.todo : c.todo[k].do = "room" =>
           ParticipantsIn(l, c.todo[k].value.id) \subseteq ParticipantsIn(n, c.todo[k].value.id),
         c.rec # None /\ c.rec.type = "member" => d.rec = c.rec \/ ~JoinedIn(n, c.rec.room, c.who)
  PROVE  /\ \A k \in DOMAIN d.todo : DepartureWriteFits(n, d, k)
         /\ \A b \in DOMAIN l : HolderLeft(l, c, b) => HolderLeft(n, d, b)
         /\ \A r : ~OnlyRevokes(c) /\ MayBeMissed(l, c, r) => MayBeMissed(n, d, r)
<1>1. c.began \in Nat /\ c.began <= Len(l)
  BY DEF Calls, DepartureFits
<1>2. \A b \in DOMAIN l : HolderLeft(l, c, b) => HolderLeft(n, d, b)
  <2>1. \A b \in DOMAIN l : n[b] = l[b]
    BY LedgerGrows
  <2>. QED
    BY <2>1 DEF HolderLeft
<1>3. ASSUME NEW r, ~OnlyRevokes(c), MayBeMissed(l, c, r) PROVE MayBeMissed(n, d, r)
  BY <1>1, <1>3, MissedStill
<1>4. ASSUME NEW k \in DOMAIN d.todo PROVE DepartureWriteFits(n, d, k)
  <2> DEFINE w == d.todo[k]
  <2>1. w = c.todo[k] /\ k \in DOMAIN c.todo /\ DepartureWriteFits(l, c, k)
    BY <1>4 DEF DepartureFits
  <2>2. w.do \in {"room", "member"} => ~OnlyRevokes(c)
    BY <2>1 DEF OnlyRevokes
  <2>3. w.do = "room" =>
          /\ w.value.id # Fresh /\ d.who \notin w.value.members
          /\ w.value.members \subseteq ParticipantsIn(n, w.value.id)
          /\ MayBeMissed(n, d, w.value.id)
    <3> SUFFICES ASSUME w.do = "room"
                 PROVE  /\ w.value.id # Fresh /\ d.who \notin w.value.members
                        /\ w.value.members \subseteq ParticipantsIn(n, w.value.id)
                        /\ MayBeMissed(n, d, w.value.id)
      OBVIOUS
    <3>1. /\ w.value.id # Fresh /\ c.who \notin w.value.members
          /\ w.value.members \subseteq ParticipantsIn(l, w.value.id)
          /\ MayBeMissed(l, c, w.value.id)
      BY <2>1 DEF DepartureWriteFits
    <3>2. ParticipantsIn(l, w.value.id) \subseteq ParticipantsIn(n, w.value.id)
      BY <2>1
    <3>. QED
      BY <1>3, <2>2, <3>1, <3>2
  <2>4. w.do = "member" => ~w.joined /\ MayBeMissed(n, d, w.room)
    BY <1>3, <2>1, <2>2 DEF DepartureWriteFits
  <2>5. ASSUME w.do = "strip"
        PROVE  \/ ~JoinedIn(n, w.room, d.who)
               \/ \E j \in DOMAIN d.todo :
                    \/ d.todo[j].do = "room" /\ d.todo[j].value.id = w.room
                    \/ d.todo[j].do = "member" /\ d.todo[j].room = w.room
               \/ d.rec # None /\ d.rec.type = "member" /\ d.rec.room = w.room
    <3>1. \/ ~JoinedIn(l, w.room, c.who)
          \/ \E j \in DOMAIN c.todo :
               \/ c.todo[j].do = "room" /\ c.todo[j].value.id = w.room
               \/ c.todo[j].do = "member" /\ c.todo[j].room = w.room
          \/ c.rec # None /\ c.rec.type = "member" /\ c.rec.room = w.room
      BY <2>1, <2>5 DEF DepartureWriteFits
    <3>2. CASE ~JoinedIn(l, w.room, c.who)
      BY <3>2
    <3>3. CASE c.rec # None /\ c.rec.type = "member" /\ c.rec.room = w.room
      BY <3>3
    <3>4. CASE \E j \in DOMAIN c.todo :
               \/ c.todo[j].do = "room" /\ c.todo[j].value.id = w.room
               \/ c.todo[j].do = "member" /\ c.todo[j].room = w.room
      BY <3>4
    <3>. QED
      BY <3>1, <3>2, <3>3, <3>4
  <2>6. w.do = "revoke" => HolderLeft(n, d, w.binding) /\ OnlyRevokes(d)
    <3> SUFFICES ASSUME w.do = "revoke" PROVE HolderLeft(n, d, w.binding) /\ OnlyRevokes(d)
      OBVIOUS
    <3>1. HolderLeft(l, c, w.binding) /\ OnlyRevokes(c)
      BY <2>1 DEF DepartureWriteFits
    <3>2. w.binding \in DOMAIN l
      BY <2>1 DEF CallFits, RevokesBindings, IsBinding
    <3>. QED
      BY <1>2, <3>1, <3>2 DEF OnlyRevokes
  <2>7. w.do \in {"room", "member", "strip", "revoke", "notice"}
    BY <2>1 DEF DepartureWriteFits
  <2>. QED
    BY <2>3, <2>4, <2>5, <2>6, <2>7 DEF DepartureWriteFits
<1>. QED
  BY <1>2, <1>3, <1>4

\* A record of another call: none about rooms, none that revokes.
LEMMA DepartureFitsStill ==
  ASSUME NEW l \in Seq(Record), NEW x \in Record, NEW n, n = Append(l, x),
         x.type # "room" /\ x.type # "member", x.type = "grant" => x.id \notin DOMAIN l,
         NEW c \in Calls, CallFits(l, c), c.op \in Leaving, DepartureFits(l, c)
  PROVE  DepartureFits(n, c)
<1>1. \A r, p : JoinedIn(n, r, p) <=> JoinedIn(l, r, p)
  BY RoomsStay
<1>2. \A r : IsRoom(l, r) => ParticipantsIn(n, r) = ParticipantsIn(l, r)
  BY RoomsStay
<1>3. \A k \in DOMAIN c.todo : c.todo[k].do = "room" =>
        ParticipantsIn(l, c.todo[k].value.id) \subseteq ParticipantsIn(n, c.todo[k].value.id)
  <2> SUFFICES ASSUME NEW k \in DOMAIN c.todo, c.todo[k].do = "room"
               PROVE  ParticipantsIn(l, c.todo[k].value.id) \subseteq ParticipantsIn(n, c.todo[k].value.id)
    OBVIOUS
  <2>1. c.todo[k].value.id # Fresh
    BY DEF DepartureFits, DepartureWriteFits
  <2>2. IsRoom(l, c.todo[k].value.id)
    BY <2>1 DEF CallFits, RewritesRooms
  <2>. QED
    BY <1>2, <2>2
<1>4. /\ \A k \in DOMAIN c.todo : DepartureWriteFits(n, c, k)
      /\ \A b \in DOMAIN l : HolderLeft(l, c, b) => HolderLeft(n, c, b)
      /\ \A r : ~OnlyRevokes(c) /\ MayBeMissed(l, c, r) => MayBeMissed(n, c, r)
  BY <1>1, <1>3, WritesFitStill
<1>5. c.began <= Len(n)
  <2>1. c.began \in Nat /\ c.began <= Len(l) /\ Len(l) \in Nat /\ Len(n) = Len(l) + 1
    BY LedgerGrows DEF Calls, DepartureFits
  <2>. QED
    BY <2>1
<1>6. ASSUME c.rec # None, c.rec.type = "member"
      PROVE  /\ ~c.rec.joined /\ MayBeMissed(n, c, c.rec.room)
             /\ \A i \in MemberLines(n, c.rec.room, c.who) : n[i].seq < c.rec.seq
  <2>1. /\ ~c.rec.joined /\ MayBeMissed(l, c, c.rec.room)
        /\ \A i \in MemberLines(l, c.rec.room, c.who) : l[i].seq < c.rec.seq
    BY <1>6 DEF DepartureFits
  <2>2. MayBeMissed(n, c, c.rec.room)
    BY <1>1, <1>5, <2>1, MissedStill DEF Calls, DepartureFits
  <2>3. \A i \in MemberLines(n, c.rec.room, c.who) :
          i \in MemberLines(l, c.rec.room, c.who) /\ n[i] = l[i]
    <3>1. \A i \in DOMAIN n : (i \in DOMAIN l /\ n[i] = l[i]) \/ n[i] = x
      <4>1. /\ n \in Seq(Record) /\ Len(n) = Len(l) + 1 /\ Len(l) \in Nat /\ DOMAIN l = 1..Len(l)
            /\ n[Len(l) + 1] = x /\ \A i \in DOMAIN l : n[i] = l[i]
        BY LedgerGrows
      <4>2. \A i \in DOMAIN n : i \in DOMAIN l \/ i = Len(l) + 1
        BY <4>1
      <4>. QED
        BY <4>1, <4>2
    <3>. QED
      BY <3>1 DEF MemberLines
  <2>. QED
    BY <2>1, <2>2, <2>3
<1>7. ASSUME c.rec # None, c.rec.type = "grant"
      PROVE  c.rec.id # Fresh /\ HolderLeft(n, c, c.rec.id) /\ OnlyRevokes(c)
  <2>1. c.rec.id # Fresh /\ HolderLeft(l, c, c.rec.id) /\ OnlyRevokes(c)
    BY <1>7 DEF DepartureFits
  <2>2. c.rec.id \in DOMAIN l
    BY <1>7, <2>1 DEF CallFits, MayFollow
  <2>. QED
    BY <1>4, <2>1, <2>2
<1>8. c.op \in Revokers
  BY DEF Leaving, Revokers
<1>9. c.rec # None /\ c.rec.type = "room" => c.rec.id # Fresh
  BY DEF DepartureFits
<1>. QED
  BY <1>4, <1>5, <1>6, <1>7, <1>8, <1>9 DEF DepartureFits

LEMMA OthersDeparture ==
  ASSUME (RoomOps \cup {"revoke"}) \cap Ops \subseteq Serial, LedgerInv, RoomInv, DepartureInv,
         NEW a \in Actors, AppendRecord(a), NEW d \in Actors, d # a
  PROVE  DepartureFits(log', call'[d])
<1> DEFINE rec == call[a].rec
           c == call[d]
<1>1. PICK x \in Record :
        /\ log' = Append(log, x) /\ x.type = rec.type
        /\ x.type = "grant" /\ rec.id = Fresh => x.id = Len(log) + 1
  BY LineAppended
<1>2. rec # None /\ log \in Seq(Record) /\ call'[d] = c /\ Len(log) + 1 \notin DOMAIN log
  BY LineOfRooms
<1>3. /\ RoomFits(log, call[a]) /\ DepartureFits(log, call[a]) /\ DepartureFits(log, c)
      /\ c \in Calls /\ CallFits(log, c)
  BY DEF RoomInv, DepartureInv, LedgerInv, TypeOK
<1>4. CASE c.op \notin Leaving
  BY <1>2, <1>3, <1>4 DEF DepartureFits
<1>5. CASE c.op \in Leaving
  <2>1. call[a].op \notin Serial
    BY <1>5 DEF RoomInv, OneAtATime, Leaving, DepartureOps, RoomOps
  <2>2. call[a].op \notin RoomOps \cap Ops /\ call[a].op \notin Revokers
    BY <2>1 DEF Revokers, DepartureOps, RoomOps
  <2>3. x.type # "room" /\ x.type # "member"
    BY <1>1, <1>2, <1>3, <2>2 DEF RoomFits, Writes
  <2>4. x.type = "grant" => x.id \notin DOMAIN log
    BY <1>1, <1>2, <1>3, <2>2 DEF DepartureFits
  <2>. QED
    BY <1>1, <1>2, <1>3, <1>5, <2>3, <2>4, DepartureFitsStill
<1>. QED
  BY <1>4, <1>5

\* A departure appends a record: the room, that somebody has left it, a revocation or the
\* notice.
LEMMA LineOfDeparture ==
  ASSUME LedgerInv, NEW a \in Actors, AppendRecord(a), call[a].op \in Leaving,
         RoomFits(log, call[a]), DepartureFits(log, call[a])
  PROVE  \E x \in Record : LET c == call[a] IN
           /\ log' = Append(log, x) /\ x.type = c.rec.type
           /\ x.type = "member" =>
                /\ x = c.rec /\ x.who = c.who
                /\ ~JoinedIn(log', x.room, c.who) /\ MayBeMissed(log, c, x.room)
           /\ x.type = "grant" => HolderLeft(log, c, x.id) /\ OnlyRevokes(c)
           /\ \A r, q : /\ JoinedIn(log', r, q) => JoinedIn(log, r, q)
                        /\ q # c.who /\ JoinedIn(log, r, q) => JoinedIn(log', r, q)
<1> DEFINE c == call[a]
           rec == c.rec
<1>1. PICK x \in Record :
        /\ log' = Append(log, x) /\ x.type = rec.type
        /\ x.type = "member" => x = rec
        /\ x.type = "grant" /\ rec.id # Fresh => x = rec
  BY LineAppended
<1>2. rec # None /\ rec \in Record /\ log \in Seq(Record)
  BY LineOfRooms
<1>3. ASSUME x.type = "member"
      PROVE  /\ x = rec /\ x.who = c.who
             /\ ~JoinedIn(log', x.room, c.who) /\ MayBeMissed(log, c, x.room)
  <2>1. x = rec
    BY <1>1, <1>3
  <2>2. /\ ~x.joined /\ MayBeMissed(log, c, x.room)
        /\ \A i \in MemberLines(log, x.room, c.who) : log[i].seq < x.seq
    BY <1>2, <1>3, <2>1 DEF DepartureFits
  <2>3. Leaver(c) = {x.who}
    BY <1>2, <1>3, <2>1, <2>2 DEF RoomFits
  <2>4. x.who = c.who
    BY <2>3 DEF Leaver
  <2>5. JoinedIn(log', x.room, c.who) <=> x.joined
    BY <1>1, <1>2, <1>3, <2>2, <2>4, MembersGrow
  <2>. QED
    BY <2>1, <2>2, <2>4, <2>5
<1>4. ASSUME NEW r, NEW q
      PROVE  /\ JoinedIn(log', r, q) => JoinedIn(log, r, q)
             /\ q # c.who /\ JoinedIn(log, r, q) => JoinedIn(log', r, q)
  <2>1. CASE x.type = "member" /\ x.room = r /\ x.who = q
    BY <1>3, <2>1
  <2>2. CASE ~(x.type = "member" /\ x.room = r /\ x.who = q)
    <3>1. JoinedIn(log', r, q) <=> JoinedIn(log, r, q)
      BY <1>1, <1>2, <2>2, MembersGrow
    <3>. QED
      BY <3>1
  <2>. QED
    BY <2>1, <2>2
<1>5. x.type = "grant" => HolderLeft(log, c, x.id) /\ OnlyRevokes(c)
  BY <1>1, <1>2 DEF DepartureFits
<1>. QED
  BY <1>1, <1>3, <1>4, <1>5

LEMMA DepartureLine ==
  ASSUME LedgerInv, NEW a \in Actors, AppendRecord(a), call[a].op \in Leaving,
         RoomFits(log, call[a]), DepartureFits(log, call[a])
  PROVE  DepartureFits(log', call'[a])
<1> DEFINE c == call[a]
           todo == c.todo
<1>1. PICK x \in Record :
        /\ log' = Append(log, x) /\ x.type = c.rec.type
        /\ x.type = "member" => x = c.rec /\ ~JoinedIn(log', x.room, c.who)
        /\ x.type = "grant" => HolderLeft(log, c, x.id) /\ OnlyRevokes(c)
        /\ \A r, q : /\ JoinedIn(log', r, q) => JoinedIn(log, r, q)
                     /\ q # c.who /\ JoinedIn(log, r, q) => JoinedIn(log', r, q)
  BY LineOfDeparture
<1>2. c.rec # None /\ c.rec \in Record /\ log \in Seq(Record)
  BY LineOfRooms
<1>3. Proceed(a, None, todo)
  <2>1. c.rec.type = "room" => c.rec.id # Fresh
    BY <1>2 DEF DepartureFits
  <2>. QED
    BY <2>1 DEF AppendRecord
<1>4. c \in Calls /\ CallFits(log, c)
  BY DEF LedgerInv, TypeOK
<1>5. \A k \in DOMAIN c.todo : c.todo[k].do # "room"
  BY <1>2 DEF RoomFits, RoomWriteFits
<1> HIDE DEF todo
<1>6. PICK d : /\ d.op = c.op /\ d.who = c.who /\ d.began = c.began /\ d.rec = None /\ d.todo = todo
               /\ (call'[a] = Idle \/ call'[a] = d)
  BY <1>3, ProceedsTo
<1>7. c.rec.type = "member" => ~JoinedIn(log', c.rec.room, c.who)
  BY <1>1
<1>8. \A k \in DOMAIN d.todo : DepartureWriteFits(log', d, k)
  BY <1>1, <1>2, <1>4, <1>5, <1>6, <1>7, WritesFitStill DEF todo
<1>9. d.began <= Len(log')
  <2>1. c.began \in Nat /\ c.began <= Len(log) /\ Len(log) \in Nat /\ Len(log') = Len(log) + 1
    BY <1>1, <1>2, <1>4, LedgerGrows DEF Calls, DepartureFits
  <2>. QED
    BY <1>6, <2>1
<1>10. d.op \in Leaving /\ d.op \in Revokers
  BY <1>6 DEF Leaving, Revokers
<1>11. DepartureFits(log', d)
  BY <1>6, <1>8, <1>9, <1>10 DEF DepartureFits
<1>. QED
  BY <1>6, <1>11, IdleLeavesNot

LEMMA OwnDeparture ==
  ASSUME LedgerInv, NEW a \in Actors, AppendRecord(a),
         RoomFits(log, call[a]), DepartureFits(log, call[a])
  PROVE  DepartureFits(log', call'[a])
<1> DEFINE c == call[a]
           e == Len(log) + 1
           isRoom == c.rec.type = "room" /\ c.rec.id = Fresh
           left == IF isRoom THEN About(e, c.todo) ELSE c.todo
<1>1. CASE c.op \in Leaving
  BY <1>1, DepartureLine
<1>2. CASE c.op \notin Leaving
  <2>1. c.rec # None /\ c.rec \in Record /\ c.todo \in Seq(Write)
    BY LineOfRooms DEF LedgerInv, TypeOK, Calls
  <2>2. Proceed(a, None, left)
    <3>1. c.rec.type = "room" => "id" \in DOMAIN c.rec
      BY <2>1, RecordKinds DEF RoomRecords
    <3>. QED
      BY <3>1 DEF AppendRecord
  <2>3. DOMAIN left = DOMAIN c.todo /\ \A k \in DOMAIN left : left[k].do = c.todo[k].do
    <3>1. e \in Number
      BY DEF LedgerInv, TypeOK, Number
    <3>2. CASE ~isRoom
      BY <3>2
    <3>3. CASE isRoom
      BY <2>1, <3>1, <3>3, AboutRoom
    <3>. QED
      BY <3>2, <3>3
  <2> HIDE DEF left
  <2>4. PICK d : /\ d.op = c.op /\ d.rec = None /\ d.todo = left
                 /\ (call'[a] = Idle \/ call'[a] = d)
    BY <2>2, ProceedsTo
  <2>5. d.op \notin Revokers =>
          /\ \A k \in DOMAIN d.todo : d.todo[k].do # "strip" /\ d.todo[k].do # "revoke"
          /\ d.rec # None /\ d.rec.type = "grant" => d.rec.id = Fresh
    BY <2>3, <2>4 DEF DepartureFits
  <2>6. DepartureFits(log', d)
    BY <1>2, <2>4, <2>5, NoDeparture
  <2>. QED
    BY <2>4, <2>6, IdleLeavesNot
<1>. QED
  BY <1>1, <1>2

\* What a departure knows stays true until it is done, if no two calls that write rooms
\* or revoke are in progress at once.  Grants need no such care.
LEMMA DepartureInvHolds ==
  ASSUME (RoomOps \cup {"revoke"}) \cap Ops \subseteq Serial
  PROVE  Spec => []DepartureInv
<1>1. Init => DepartureInv
  BY IdleLeavesNot DEF Init, DepartureInv
<1>2. ASSUME LedgerInv, RoomInv, DepartureInv, [Next]_commandVars PROVE DepartureInv'
  <2>1. ASSUME NEW a \in Actors, log' = log, DepartureFits(log, call'[a]),
               \A d \in Actors : d # a => call'[d] = call[d]
        PROVE  DepartureInv'
    <3>1. \A d \in Actors : DepartureFits(log, call'[d])
      BY <1>2, <2>1 DEF DepartureInv
    <3>. QED
      BY <2>1, <3>1 DEF DepartureInv
  <2>2. ASSUME NEW a \in Actors, RoomCommand(a) \/ GrantCommand(a) \/ MessageCommand(a)
        PROVE  DepartureInv'
    <3>1. DepartureFits(log, call'[a])
      BY <1>2, <2>2, RoomCommandFits, DepartureBegun, SmallNoDeparture
    <3>2. log' = log /\ \A d \in Actors : d # a => call'[d] = call[d]
      BY <1>2, <2>2, BegunAlone
    <3>. QED
      BY <2>1, <3>1, <3>2
  <2>3. ASSUME NEW a \in Actors, Prepare(a) PROVE DepartureInv'
    <3>1. DepartureFits(log, call'[a])
      BY <1>2, <2>3, DeparturePrepared, PreparedNoDeparture DEF DepartureInv
    <3>2. log' = log /\ \A d \in Actors : d # a => call'[d] = call[d]
      BY <1>2, <2>3, PreparedKey DEF Prepare
    <3>. QED
      BY <2>1, <3>1, <3>2
  <2>4. ASSUME NEW a \in Actors, AppendRecord(a) PROVE DepartureInv'
    <3>1. DepartureFits(log', call'[a])
      BY <1>2, <2>4, OwnDeparture DEF RoomInv, DepartureInv
    <3>2. \A d \in Actors : d # a => DepartureFits(log', call'[d])
      BY <1>2, <2>4, OthersDeparture
    <3>. QED
      BY <3>1, <3>2 DEF DepartureInv
  <2>5. ASSUME NEW a \in Actors, Die(a) PROVE DepartureInv'
    <3>1. /\ log' = log /\ call'[a] = Idle /\ \A d \in Actors : d # a => call'[d] = call[d]
      BY <1>2, <2>5 DEF Die, LedgerInv, TypeOK
    <3>. QED
      BY <2>1, <3>1, IdleLeavesNot
  <2>6. CASE UNCHANGED commandVars
    BY <1>2, <2>6 DEF commandVars, DepartureInv
  <2>. QED
    BY <1>2, <2>2, <2>3, <2>4, <2>5, <2>6 DEF Next
<1>3. RoomOps \cap Ops \subseteq Serial
  OBVIOUS
<1>. QED
  BY <1>1, <1>2, <1>3, LedgerInvHolds, RoomInvHolds, PTL DEF Spec

\* A departure appends a record: somebody still manages the room.
LEMMA ManagerLeft ==
  ASSUME LedgerInv, NEW a \in Actors, AppendRecord(a),
         RoomFits(log, call[a]), DepartureFits(log, call[a]), call[a].op \in DepartureOps,
         NEW r, \E q : JoinedIn(log', r, q),
         NEW p \in People, JoinedIn(log, r, p),
         \E b \in 1..call[a].began : ManagesBy(log, b, p, r)
  PROVE  \E q \in People : ManagerIn(log', q, r)
<1> DEFINE c == call[a]
<1>1. PICK b \in 1..c.began : ManagesBy(log, b, p, r)
  OBVIOUS
<1>2. log \in Seq(Record) /\ c.rec # None /\ Len(log) + 1 \notin DOMAIN log
  BY LineOfRooms
<1>3. b \in DOMAIN log
  BY <1>1 DEF ManagesBy, Live, IsBinding
<1>4. CASE c.op \notin Leaving
  <2>1. c.op \notin RoomOps \cap Ops /\ c.op \notin Revokers
    BY <1>4 DEF Leaving, Revokers, RoomOps, DepartureOps
  <2>2. PICK x \in Record :
          /\ log' = Append(log, x) /\ x.type = c.rec.type
          /\ x.type = "grant" /\ c.rec.id = Fresh => x.id = Len(log) + 1
    BY LineAppended
  <2>3. x.type # "member"
    BY <1>2, <2>1, <2>2 DEF RoomFits, Writes
  <2>4. x.type = "grant" => x.id # b
    BY <1>2, <1>3, <2>1, <2>2 DEF DepartureFits
  <2>5. JoinedIn(log', r, p)
    BY <1>2, <2>2, <2>3, MembersGrow
  <2>. QED
    BY <1>1, <1>2, <1>3, <2>2, <2>4, <2>5, ManagerStays
<1>5. CASE c.op \in Leaving
  <2>1. PICK x \in Record :
          /\ log' = Append(log, x)
          /\ x.type = "member" =>
               /\ x.who = c.who
               /\ ~JoinedIn(log', x.room, c.who) /\ MayBeMissed(log, c, x.room)
          /\ x.type = "grant" => HolderLeft(log, c, x.id)
          /\ \A s, q : /\ JoinedIn(log', s, q) => JoinedIn(log, s, q)
                       /\ q # c.who /\ JoinedIn(log, s, q) => JoinedIn(log', s, q)
    BY <1>5, LineOfDeparture
  <2>2. CASE x.type = "member" /\ x.room = r
    <3>1. x.type # "grant"
      BY <2>2
    <3>2. CASE p # c.who
      <4>1. JoinedIn(log', r, p)
        BY <2>1, <3>2
      <4>. QED
        BY <1>1, <1>2, <1>3, <2>1, <3>1, <4>1, ManagerStays
    <3>3. CASE p = c.who
      <4>1. PICK q \in People : q # c.who /\ ManagerIn(log, q, r)
        <5>1. ~\A q \in People : JoinedIn(log, r, q) => q = c.who
          <6>1. PICK q : JoinedIn(log', r, q)
            OBVIOUS
          <6>2. JoinedIn(log, r, q) /\ q # c.who
            BY <2>1, <2>2, <6>1
          <6>3. q \in People
            BY <1>2, <6>2, JoinedIsPerson
          <6>. QED
            BY <6>2, <6>3
        <5>. QED
          BY <1>1, <2>1, <2>2, <3>3, <5>1 DEF MayBeMissed
      <4>2. JoinedIn(log', r, q) /\ \E d \in DOMAIN log : ManagesBy(log, d, q, r)
        BY <2>1, <4>1 DEF ManagerIn
      <4>. QED
        BY <1>2, <2>1, <3>1, <4>2, ManagerStays
    <3>. QED
      BY <3>2, <3>3
  <2>3. CASE ~(x.type = "member" /\ x.room = r)
    <3>1. JoinedIn(log', r, p)
      BY <1>2, <2>1, <2>3, MembersGrow
    <3>2. x.type = "grant" => x.id # b
      <4> SUFFICES ASSUME x.type = "grant", x.id = b PROVE FALSE
        OBVIOUS
      <4>1. log[b].who = c.who /\ log[b].room # None /\ ~JoinedIn(log, log[b].room, c.who)
        BY <2>1 DEF HolderLeft
      <4>2. log[b].who = p /\ log[b].room \in {r, None}
        BY <1>1 DEF ManagesBy
      <4>. QED
        BY <4>1, <4>2
    <3>. QED
      BY <1>1, <1>2, <1>3, <2>1, <3>1, <3>2, ManagerStays
  <2>. QED
    BY <2>2, <2>3
<1>. QED
  BY <1>4, <1>5

\* No departure leaves a room to participants of whom none manages it, if one of its
\* managers was one when the departure began: for any number of processes, people, rooms
\* and crashes.  What this asks is that no two calls that write rooms or revoke roles are
\* in progress at once; roles may be granted meanwhile.
THEOREM ManagersKept ==
  ASSUME (RoomOps \cup {"revoke"}) \cap Ops \subseteq Serial
  PROVE  Spec => ManagerKept
<1> DEFINE Kept ==
      \A a \in Actors, r \in Rooms :
        /\ call[a].op \in {"leave", "remove"} /\ call[a].rec # None /\ call'[a] # call[a]
        /\ {p \in People : Joined(r, p)'} # {}
        /\ \E p \in People : ManagedSince(p, r, call[a].began)
        => JoinedManagers(Room(r))' # {}
<1>1. ASSUME LedgerInv, LedgerInv', RoomInv, DepartureInv, [Next]_commandVars PROVE [Kept]_log
  <2> SUFFICES ASSUME log' # log, NEW a \in Actors, NEW r \in Rooms,
                      call[a].op \in {"leave", "remove"}, call'[a] # call[a],
                      {p \in People : Joined(r, p)'} # {},
                      NEW p \in People, ManagedSince(p, r, call[a].began)
               PROVE  JoinedManagers(Room(r))' # {}
    OBVIOUS
  <2>1. AppendRecord(a)
    <3>1. PICK d \in Actors : AppendRecord(d)
      BY <1>1, OnlyAppendsChange
    <3>2. d = a
      BY <1>1, <3>1, LineOfRooms
    <3>. QED
      BY <3>1, <3>2
  <2>2. log \in Seq(Record) /\ log' \in Seq(Record)
    BY <1>1, <2>1, LineOfRooms
  <2>3. \E q : JoinedIn(log', r, q)
    BY <2>2, ReadNext
  <2>4. JoinedIn(log, r, p) /\ \E b \in 1..call[a].began : ManagesBy(log, b, p, r)
    <3>1. Joined(r, p)
      BY DEF ManagedSince
    <3>2. PICK b \in BindingsOf(p, r) \cup BindingsOf(p, None) :
            b <= call[a].began /\ "room.grant.manage" \in Allowed(BindingRecord(b).role)
      BY DEF ManagedSince
    <3>3. ManagesBy(log, b, p, r)
      BY <1>1, <3>2, ManagingBindings
    <3>4. b \in DOMAIN log
      BY <3>3 DEF ManagesBy, Live, IsBinding
    <3>5. call[a].began \in Nat
      BY <1>1 DEF LedgerInv, TypeOK, Calls
    <3>6. b \in 1..call[a].began
      BY <2>2, <3>2, <3>4, <3>5
    <3>. QED
      BY <2>2, <3>1, <3>3, <3>6, ReadHere
  <2>5. PICK q \in People : ManagerIn(log', q, r)
    BY <1>1, <2>1, <2>3, <2>4, ManagerLeft DEF RoomInv, DepartureInv, DepartureOps
  <2>6. r \in Rooms'
    <3>1. IsRoom(log, r)
      BY <1>1, RoomHere
    <3>2. \E x \in Record : log' = Append(log, x)
      BY <1>1, <2>1, LineOfRooms
    <3>3. IsRoom(log', r)
      BY <2>2, <3>1, <3>2, LedgerGrows
    <3>. QED
      BY <2>2, <3>3 DEF IsRoom, Rooms, Records, Positions
  <2>7. q \in JoinedManagers(Room(r))'
    BY <1>1, <2>5, <2>6, ManagersReadNext
  <2>. QED
    BY <2>7
<1>2. RoomOps \cap Ops \subseteq Serial
  OBVIOUS
<1>. QED
  BY <1>1, <1>2, LedgerInvHolds, RoomInvHolds, DepartureInvHolds, PTL DEF Spec, ManagerKept

-----------------------------------------------------------------------------
\* What is said

\* the commands that write messages, their own or notices
Posters == {"post", "join", "leave", "remove", "settings", "archive", "grant", "revoke"}

ScopeIn(l, r, t) ==
  {m \in DOMAIN l : l[m].type = "message" /\ l[m].room = r /\ l[m].thread = t}

\* people write in rooms; threads hang from the mainline; a scope's numbers grow
MessagesFit(l) ==
  \A m \in DOMAIN l : l[m].type = "message" =>
    /\ l[m].author # System => IsRoom(l, l[m].room)
    /\ l[m].thread # None => l[m].thread \in ScopeIn(l, l[m].room, None)
    /\ \A n \in ScopeIn(l, l[m].room, l[m].thread) : n < m => l[n].scope < l[m].scope

\* a cursor's number parts what was there when it was read from what was not
MarkFits(l, c) ==
  /\ c.saw <= Len(l)
  /\ c.scope = 0 \/ \E m \in ScopeIn(l, c.room, c.thread) : l[m].scope = c.scope
  /\ \A m \in ScopeIn(l, c.room, c.thread) : m <= c.saw <=> l[m].scope <= c.scope

MarksFit(l) == \A i \in DOMAIN l : l[i].type = "cursor" => MarkFits(l, l[i])

\* x may be the next message of its scope
IsNext(l, x) ==
  /\ x.author # System => IsRoom(l, x.room)
  /\ x.thread # None => x.thread \in ScopeIn(l, x.room, None)
  /\ \A n \in ScopeIn(l, x.room, x.thread) : l[n].scope < x.scope

SaysFit(l, c) ==
  /\ \A k \in DOMAIN c.todo :
       /\ c.todo[k].do \in {"post", "notice"} \/ (c.todo[k].do = "grant" /\ c.todo[k].announce) =>
            c.op \in Posters \cap Ops
       /\ c.todo[k].do = "post" =>
            /\ IsRoom(l, c.todo[k].room)
            /\ c.todo[k].thread # None => c.todo[k].thread \in ScopeIn(l, c.todo[k].room, None)
       /\ c.todo[k].do = "put" /\ c.todo[k].value.type = "cursor" => MarkFits(l, c.todo[k].value)
  /\ c.rec # None /\ c.rec.type = "message" => c.op \in Posters \cap Ops /\ IsNext(l, c.rec)
  /\ c.rec # None /\ c.rec.type = "cursor" => MarkFits(l, c.rec)

ViewInv ==
  /\ OneAtATime /\ MessagesFit(log) /\ MarksFit(log)
  /\ \A a \in Actors : SaysFit(log, call[a])

-----------------------------------------------------------------------------
\* Messages and marks as the ledger grows

\* What there is of a scope, of its end and of its cursors.
LEMMA ScopeRead ==
  ASSUME TypeOK, NEW r, NEW t
  PROVE  /\ Scope(r, t) = ScopeIn(log, r, t)
         /\ \A m \in Scope(r, t) : m \in 1..Len(log) /\ log[m].scope \in Number
         /\ ScopeEnd(r, t) \in Nat
         /\ \A m \in Scope(r, t) : log[m].scope <= ScopeEnd(r, t)
         /\ ScopeEnd(r, t) = 0 \/ \E m \in Scope(r, t) : log[m].scope = ScopeEnd(r, t)
<1>1. Scope(r, t) = ScopeIn(log, r, t)
  BY DEF Scope, ScopeIn, Messages, Records, Positions, TypeOK
<1>2. ASSUME NEW m \in Scope(r, t) PROVE m \in 1..Len(log) /\ log[m].scope \in Number
  <2>1. m \in 1..Len(log) /\ log[m] \in Record /\ log[m].type = "message"
    BY DEF Scope, Messages, Records, Positions, TypeOK
  <2>. QED
    BY <2>1, RecordKinds DEF MessageRecords
<1>3. CASE Scope(r, t) = {}
  BY <1>1, <1>3 DEF ScopeEnd
<1>4. CASE Scope(r, t) # {}
  <2>1. ScopeEnd(r, t) = log[LastInScope(r, t)].scope
    BY <1>4 DEF ScopeEnd
  <2>. QED
    BY <1>1, <1>2, <1>4, <2>1, LastInScopeIsThere DEF Number
<1>. QED
  BY <1>1, <1>2, <1>3, <1>4

\* A message that is the next of its scope leaves the cursors right.
LEMMA MarkGrows ==
  ASSUME NEW l \in Seq(Record), NEW x \in Record, x.type = "message" => IsNext(l, x),
         NEW n, n = Append(l, x),
         NEW c, c.saw \in Nat, c.scope \in Nat, MarkFits(l, c)
  PROVE  MarkFits(n, c)
<1> DEFINE S == ScopeIn(l, c.room, c.thread)
           T == ScopeIn(n, c.room, c.thread)
<1>0. /\ n[Len(l) + 1] = x
      /\ \A i \in DOMAIN l : i \in DOMAIN n /\ n[i] = l[i]
      /\ \A i \in DOMAIN n : i \in DOMAIN l \/ i = Len(l) + 1
  BY LedgerGrows
<1>1. /\ S \subseteq T /\ \A m \in S : n[m] = l[m]
      /\ \A m \in T : m \in S \/ (m = Len(l) + 1 /\ x.type = "message"
                                    /\ x.room = c.room /\ x.thread = c.thread)
  BY <1>0 DEF ScopeIn
<1>2. /\ Len(l) \in Nat /\ Len(n) = Len(l) + 1 /\ n[Len(l) + 1] = x
      /\ \A m \in S : m \in DOMAIN l /\ l[m] \in Record /\ l[m].type = "message"
  BY LedgerGrows DEF ScopeIn
<1>3. \A m \in S : l[m].scope \in Nat
  BY <1>2, RecordKinds DEF MessageRecords, Number
<1>4. /\ c.saw <= Len(l) /\ (c.scope = 0 \/ \E m \in S : l[m].scope = c.scope)
      /\ \A m \in S : m <= c.saw <=> l[m].scope <= c.scope
  BY DEF MarkFits
<1>5. x.type = "message" /\ x.room = c.room /\ x.thread = c.thread =>
        x.scope \in Number /\ \A m \in S : l[m].scope < x.scope
  BY RecordKinds DEF IsNext, MessageRecords
<1> HIDE DEF S, T
<1>6. \A m \in T : m <= c.saw <=> n[m].scope <= c.scope
  <2> SUFFICES ASSUME NEW m \in T, m \notin S PROVE m <= c.saw <=> n[m].scope <= c.scope
    BY <1>1, <1>4
  <2>1. m = Len(l) + 1 /\ x.scope \in Nat /\ x.scope > 0 /\ \A k \in S : l[k].scope < x.scope
    BY <1>1, <1>5 DEF Number
  <2>2. ~(m <= c.saw)
    BY <1>2, <1>4, <2>1
  <2>3. ~(x.scope <= c.scope)
    BY <1>3, <1>4, <2>1
  <2>. QED
    BY <1>2, <2>1, <2>2, <2>3
<1>7. c.scope = 0 \/ \E m \in T : n[m].scope = c.scope
  BY <1>1, <1>4
<1>8. c.saw <= Len(n)
  BY <1>2, <1>4
<1>. QED
  BY <1>6, <1>7, <1>8 DEF MarkFits, T

\* A call that says nothing.
LEMMA SaysNothing ==
  ASSUME NEW l, NEW c,
         \A k \in DOMAIN c.todo :
           /\ c.todo[k].do \notin {"post", "notice", "put"}
           /\ c.todo[k].do = "grant" => ~c.todo[k].announce,
         c.rec = None \/ c.rec.type \notin {"message", "cursor"}
  PROVE  SaysFit(l, c)
BY DEF SaysFit

LEMMA IdleSaysNothing == \A l : SaysFit(l, Idle)
<1>1. DOMAIN Idle.todo = {} /\ Idle.rec = None
  BY DEF Idle
<1>. QED
  BY <1>1, SaysNothing

\* What a call is about to say it may still say when the ledger has grown, unless
\* a message was added and the call has one in hand.
LEMMA SaysStill ==
  ASSUME NEW l \in Seq(Record), NEW x \in Record, x.type = "message" => IsNext(l, x),
         NEW n, n = Append(l, x), NEW c \in Calls, SaysFit(l, c),
         x.type = "message" => c.rec = None \/ c.rec.type # "message"
  PROVE  SaysFit(n, c)
<1>0. /\ n[Len(l) + 1] = x
      /\ \A i \in DOMAIN l : i \in DOMAIN n /\ n[i] = l[i]
      /\ \A i \in DOMAIN n : i \in DOMAIN l \/ i = Len(l) + 1
  BY LedgerGrows
<1>1. /\ \A r : IsRoom(l, r) => IsRoom(n, r)
      /\ \A r, t : ScopeIn(l, r, t) \subseteq ScopeIn(n, r, t)
      /\ \A r, t : \A m \in ScopeIn(l, r, t) : n[m] = l[m]
      /\ x.type # "message" => \A r, t : ScopeIn(n, r, t) \subseteq ScopeIn(l, r, t)
  <2>1. \A r : IsRoom(l, r) => IsRoom(n, r)
    BY LedgerGrows
  <2>. QED
    BY <1>0, <2>1 DEF ScopeIn
<1>2. ASSUME NEW v, v.saw \in Nat, v.scope \in Nat, MarkFits(l, v) PROVE MarkFits(n, v)
  BY <1>2, MarkGrows
<1>3. ASSUME NEW k \in DOMAIN c.todo, c.todo[k].do = "put", c.todo[k].value.type = "cursor"
      PROVE  MarkFits(n, c.todo[k].value)
  <2>1. c.todo[k] \in Write
    BY DEF Calls
  <2>2. c.todo[k].value \in MarkRecords({0})
    BY <1>3, <2>1, WriteKinds
  <2>3. c.todo[k].value.saw \in Nat /\ c.todo[k].value.scope \in Nat
    BY <1>3, <2>2 DEF MarkRecords
  <2>. QED
    BY <1>2, <1>3, <2>3 DEF SaysFit
<1>4. ASSUME c.rec # None, c.rec.type = "cursor" PROVE MarkFits(n, c.rec)
  <2>1. c.rec \in MarkRecords(Number)
    BY <1>4, RecordKinds DEF Calls
  <2>2. c.rec.saw \in Nat /\ c.rec.scope \in Nat
    BY <1>4, <2>1 DEF MarkRecords
  <2>. QED
    BY <1>2, <1>4, <2>2 DEF SaysFit
<1>5. ASSUME c.rec # None, c.rec.type = "message" PROVE IsNext(n, c.rec)
  <2>1. x.type # "message" /\ IsNext(l, c.rec)
    BY <1>5 DEF SaysFit
  <2> DEFINE y == c.rec
  <2>2. /\ y.author # System => IsRoom(l, y.room)
        /\ y.thread # None => y.thread \in ScopeIn(l, y.room, None)
        /\ \A k \in ScopeIn(l, y.room, y.thread) : l[k].scope < y.scope
    BY <2>1 DEF IsNext
  <2> HIDE DEF y
  <2>3. \A k \in ScopeIn(n, y.room, y.thread) : k \in ScopeIn(l, y.room, y.thread) /\ n[k] = l[k]
    <3>1. ScopeIn(n, y.room, y.thread) \subseteq ScopeIn(l, y.room, y.thread)
      BY <1>1, <2>1
    <3>2. \A k \in ScopeIn(l, y.room, y.thread) : n[k] = l[k]
      BY <1>0 DEF ScopeIn
    <3>. QED
      BY <3>1, <3>2
  <2>4. /\ y.author # System => IsRoom(n, y.room)
        /\ y.thread # None => y.thread \in ScopeIn(n, y.room, None)
    BY <1>1, <2>2
  <2>5. \A k \in ScopeIn(n, y.room, y.thread) : n[k].scope < y.scope
    BY <2>2, <2>3
  <2>6. IsNext(n, y)
    BY <2>4, <2>5 DEF IsNext
  <2>. QED
    BY <2>6 DEF y
<1>6. ASSUME NEW k \in DOMAIN c.todo, c.todo[k].do = "post"
      PROVE  /\ IsRoom(n, c.todo[k].room)
             /\ c.todo[k].thread # None => c.todo[k].thread \in ScopeIn(n, c.todo[k].room, None)
  BY <1>1, <1>6 DEF SaysFit
<1>. QED
  BY <1>3, <1>4, <1>5, <1>6 DEF SaysFit

\* The ledger stays as it should be when a line is added that may be.
LEMMA ViewsGrow ==
  ASSUME NEW l \in Seq(Record), NEW x \in Record, x.type = "message" => IsNext(l, x),
         x.type = "cursor" => MarkFits(l, x),
         NEW n, n = Append(l, x), MessagesFit(l), MarksFit(l)
  PROVE  MessagesFit(n) /\ MarksFit(n)
<1>1. /\ n[Len(l) + 1] = x /\ Len(l) \in Nat
      /\ \A i \in DOMAIN l : i \in DOMAIN n /\ n[i] = l[i]
      /\ \A i \in DOMAIN n : i \in DOMAIN l \/ i = Len(l) + 1
      /\ \A r : IsRoom(l, r) => IsRoom(n, r)
  BY LedgerGrows
<1>2. \A r, t :
        /\ ScopeIn(l, r, t) \subseteq ScopeIn(n, r, t)
        /\ \A m \in ScopeIn(l, r, t) : n[m] = l[m]
        /\ \A m \in ScopeIn(n, r, t) : m \in ScopeIn(l, r, t) \/ m = Len(l) + 1
  BY <1>1 DEF ScopeIn
<1>3. MessagesFit(n)
  <2> SUFFICES ASSUME NEW m \in DOMAIN n, n[m].type = "message"
               PROVE  /\ n[m].author # System => IsRoom(n, n[m].room)
                      /\ n[m].thread # None => n[m].thread \in ScopeIn(n, n[m].room, None)
                      /\ \A k \in ScopeIn(n, n[m].room, n[m].thread) :
                           k < m => n[k].scope < n[m].scope
    BY DEF MessagesFit
  <2>1. CASE m \in DOMAIN l
    <3>1. n[m] = l[m] /\ m \in 1..Len(l)
      BY <1>1, <2>1
    <3>2. \A k \in ScopeIn(n, n[m].room, n[m].thread) :
            k < m => k \in ScopeIn(l, l[m].room, l[m].thread)
      BY <1>1, <1>2, <3>1 
    <3>3. /\ l[m].author # System => IsRoom(l, l[m].room)
          /\ l[m].thread # None => l[m].thread \in ScopeIn(l, l[m].room, None)
          /\ \A k \in ScopeIn(l, l[m].room, l[m].thread) : k < m => l[k].scope < l[m].scope
      BY <2>1, <3>1 DEF MessagesFit
    <3>4. \A k \in ScopeIn(n, n[m].room, n[m].thread) : k < m => n[k].scope < n[m].scope
      BY <1>2, <3>1, <3>2, <3>3
    <3>. QED
      BY <1>1, <1>2, <3>1, <3>3, <3>4
  <2>2. CASE m = Len(l) + 1
    <3>1. n[m] = x /\ IsNext(l, x)
      BY <1>1, <2>2
    <3>2. \A k \in ScopeIn(n, x.room, x.thread) : k < m => k \in ScopeIn(l, x.room, x.thread)
      BY <1>1, <1>2, <2>2 
    <3>3. /\ x.author # System => IsRoom(l, x.room)
          /\ x.thread # None => x.thread \in ScopeIn(l, x.room, None)
          /\ \A k \in ScopeIn(l, x.room, x.thread) : l[k].scope < x.scope
      BY <3>1 DEF IsNext
    <3>4. \A k \in ScopeIn(n, x.room, x.thread) : k < m => n[k].scope < x.scope
      BY <1>2, <3>2, <3>3
    <3>. QED
      BY <1>1, <1>2, <3>1, <3>3, <3>4
  <2>. QED
    BY <1>1, <2>1, <2>2
<1>4. MarksFit(n)
  <2> SUFFICES ASSUME NEW i \in DOMAIN n, n[i].type = "cursor" PROVE MarkFits(n, n[i])
    BY DEF MarksFit
  <2>1. MarkFits(l, n[i]) /\ n[i] \in Record
    BY <1>1 DEF MarksFit
  <2>2. n[i].saw \in Nat /\ n[i].scope \in Nat
    BY <2>1, RecordKinds DEF MarkRecords
  <2>. QED
    BY <2>1, <2>2, MarkGrows
<1>. QED
  BY <1>3, <1>4

\* Every message that is there to be noticed is noticed, and no other.
LEMMA Notices ==
  ASSUME LedgerInv, ViewInv PROVE AttentionKept
<1>0. /\ TypeOK /\ WellFormed(log) /\ log \in Seq(Record) /\ Len(log) \in Nat
      /\ MessagesFit(log) /\ MarksFit(log)
  BY DEF LedgerInv, ViewInv, TypeOK
<1>1. ASSUME NEW r, NEW t, NEW p, NEW m \in Scope(r, t), Cursors(r, t, p) # {}
      PROVE  log[m].scope > Cursor(r, t, p).scope <=> m > Cursor(r, t, p).saw
  <2> DEFINE S == Cursors(r, t, p)
             c == log[LastOf(S)]
  <2>1. S \subseteq Positions
    BY DEF Cursors, Records
  <2>2. LastOf(S) \in S
    BY <1>0, <1>1, <2>1, LastOfIsLast
  <2>3. /\ LastOf(S) \in DOMAIN log /\ c.type = "cursor" /\ c.room = r /\ c.thread = t /\ c \in Record
    BY <1>0, <2>2 DEF Cursors, Records, Positions
  <2>4. c \in MarkRecords(Number)
    BY <2>3, RecordKinds
  <2>5. c.saw \in Nat /\ c.scope \in Nat
    BY <2>3, <2>4 DEF MarkRecords
  <2>6. MarkFits(log, c)
    BY <1>0, <2>3 DEF MarksFit
  <2>7. m \in ScopeIn(log, r, t) /\ m \in Nat /\ log[m].scope \in Nat
    BY <1>0, ScopeRead DEF Number
  <2>8. Cursor(r, t, p) = c
    BY DEF Cursor
  <2> HIDE DEF c
  <2>9. m <= c.saw <=> log[m].scope <= c.scope
    BY <2>3, <2>6, <2>7 DEF MarkFits
  <2>. QED
    BY <2>5, <2>7, <2>8, <2>9
<1>2. ASSUME NEW r, NEW t, NEW p, NEW m \in Scope(r, t), log[m].author \notin {System, p}
      PROVE  m \in Unread(p, r, t) <=> (Cursors(r, t, p) = {} \/ m > Cursor(r, t, p).saw)
  BY <1>1, <1>2 DEF Unread
<1> SUFFICES ASSUME NEW p \in People, NEW m \in Messages,
                    log[m].author \notin {System, p}, Joined(log[m].room, p)
             PROVE  IF Unseen(p, m) THEN Noticed(p, m) \/ Ignored(p, m) ELSE ~Noticed(p, m)
  BY DEF AttentionKept
<1> DEFINE r == log[m].room
           t == log[m].thread
<1>3. m \in DOMAIN log /\ log[m].type = "message" /\ m \in Scope(r, t)
  BY <1>0 DEF Messages, Records, Positions, Scope
<1>4. m \in Unread(p, r, t) <=> Unseen(p, m)
  BY <1>2, <1>3 DEF Unseen
<1>5. \A q, s, u : m \in Unread(q, s, u) => s = r /\ u = t
  BY DEF Unread, Scope
<1>6. CASE ~Unseen(p, m)
  <2>1. \A s, u : m \notin Unread(p, s, u)
    BY <1>4, <1>5, <1>6
  <2>2. m \notin UnreadMainline(p, r)
    BY <2>1 DEF UnreadMainline
  <2>3. m \notin UnreadReplies(p, t)
    BY <2>1 DEF UnreadReplies
  <2>4. m \notin MentionEntries(p)
    BY <2>1 DEF MentionEntries
  <2>5. m \notin DirectEntries(p)
    <3> SUFFICES ASSUME NEW d, UnreadMainline(p, d) # {}, m = LastOf(UnreadMainline(p, d))
                 PROVE  FALSE
      BY DEF DirectEntries
    <3>1. UnreadMainline(p, d) \subseteq Unread(p, d, None)
      BY DEF UnreadMainline
    <3>2. Unread(p, d, None) \subseteq Positions
      BY DEF Unread, Scope, Messages, Records
    <3>3. m \in UnreadMainline(p, d)
      BY <1>0, <3>1, <3>2, LastOfIsLast
    <3>. QED
      BY <2>1, <3>1, <3>3
  <2>. QED
    BY <1>6, <2>2, <2>3, <2>4, <2>5 DEF Noticed
<1>7. CASE Unseen(p, m)
  <2>1. m \in Unread(p, r, t)
    BY <1>4, <1>7
  <2>2. CASE t = None
    BY <1>7, <2>1, <2>2 DEF Noticed, UnreadMainline
  <2>3. CASE t # None
    <3>1. t \in Messages /\ log[t].room = r /\ log[t].thread = None
      <4>1. t \in ScopeIn(log, r, None)
        BY <1>0, <1>3, <2>3 DEF MessagesFit
      <4>. QED
        BY <1>0, <4>1 DEF ScopeIn, Messages, Records, Positions
    <3>2. CASE Follows(p, t)
      BY <1>7, <2>1, <2>3, <3>1, <3>2 DEF Noticed, FollowedThreads, UnreadReplies
    <3>3. CASE ~Follows(p, t)
      <4>1. Replies(t) # {} /\ m \in Replies(t)
        BY <1>3, <3>1 DEF Replies
      <4>2. p \in Mentions(m) => Attachments(r, t, p) # {}
        BY <3>1, <3>3, <4>1 DEF Follows
      <4>3. RoomRecord(r).kind \in {"channel", "direct"}
        <5>1. IsRoom(log, r)
          BY <1>0, <1>3 DEF MessagesFit
        <5>2. r \in Rooms
          BY <1>0, <5>1 DEF IsRoom, Rooms, Records, Positions
        <5>. QED
          BY <1>0, <5>2, RoomListed DEF RoomRecords
      <4>4. CASE p \in Mentions(m) /\ RoomRecord(r).kind = "channel"
        <5>1. m \in MentionEntries(p)
          BY <2>1, <4>4 DEF MentionEntries
        <5>. QED
          BY <1>7, <5>1 DEF Noticed
      <4>5. CASE ~(p \in Mentions(m) /\ RoomRecord(r).kind = "channel")
        <5>1. Ignored(p, m)
          BY <2>3, <3>3, <4>2, <4>3, <4>5 DEF Ignored
        <5>. QED
          BY <1>7, <5>1
      <4>. QED
        BY <4>4, <4>5
    <3>. QED
      BY <3>2, <3>3
  <2>. QED
    BY <2>2, <2>3
<1>. QED
  BY <1>6, <1>7

-----------------------------------------------------------------------------
\* What a call is about to say when it begins

\* A command that writes notices, and no message or mark of its caller's.
LEMMA NoticesOnly ==
  ASSUME LedgerInv, NEW a \in Actors, NEW op, NEW p, NEW steps, Begin(a, op, p, steps),
         \A k \in DOMAIN steps : steps[k].do \notin {"post", "put"},
         \/ op \in Posters \cap Ops
         \/ \A k \in DOMAIN steps :
              steps[k].do # "notice" /\ (steps[k].do = "grant" => ~steps[k].announce)
  PROVE  SaysFit(log, call'[a])
<1>1. call'[a].op = op /\ call'[a].todo = steps /\ call'[a].rec = None
  BY BegunCall
<1>. QED
  BY <1>1 DEF SaysFit

LEMMA RoomCommandSays ==
  ASSUME LedgerInv, NEW a \in Actors, RoomCommand(a) PROVE SaysFit(log, call'[a])
<1>1. CASE CreateChannel(a)
  <2>1. PICK p \in People, slug \in Slugs, public \in BOOLEAN :
          Begin(a, "create", None,
            <<WriteRoom(NewRoom("channel", slug, {p}, public)),
              Grant(p, "room_manager", Fresh, FALSE)>>)
    BY <1>1 DEF CreateChannel
  <2> DEFINE x == WriteRoom(NewRoom("channel", slug, {p}, public))
             y == Grant(p, "room_manager", Fresh, FALSE)
             s == <<x, y>>
  <2>2. x.do = "room" /\ y.do = "grant" /\ ~y.announce
    BY DEF WriteRoom, Grant
  <2>3. Begin(a, "create", None, s)
    BY <2>1
  <2> HIDE DEF x, y
  <2>4. \A k \in DOMAIN s : s[k] \in {x, y}
    OBVIOUS
  <2> HIDE DEF s
  <2>. QED
    BY <2>2, <2>3, <2>4, NoticesOnly
<1>2. CASE EnsureDirect(a)
  <2>0. PICK ps \in SUBSET People : \E G :
          /\ Begin(a, "direct", None, <<WriteRoom(NewRoom("direct", None, ps, FALSE))>> \o G)
          /\ G = [k \in 1..(2 * Cardinality(ps)) |->
                    Grant(Listing(ps)[(k + 1) \div 2],
                          IF k % 2 = 1 THEN "participant" ELSE "room_manager", Fresh, FALSE)]
    BY <1>2 DEF EnsureDirect
  <2>1. PICK G :
          /\ Begin(a, "direct", None, <<WriteRoom(NewRoom("direct", None, ps, FALSE))>> \o G)
          /\ G = [k \in 1..(2 * Cardinality(ps)) |->
                    Grant(Listing(ps)[(k + 1) \div 2],
                          IF k % 2 = 1 THEN "participant" ELSE "room_manager", Fresh, FALSE)]
    BY <2>0
  <2> DEFINE x == WriteRoom(NewRoom("direct", None, ps, FALSE))
             s == <<x>> \o G
             X == {x} \cup {G[k] : k \in DOMAIN G}
  <2>2. x.do = "room"
    BY DEF WriteRoom
  <2>3. /\ DOMAIN G = 1..(2 * Cardinality(ps))
        /\ \A k \in DOMAIN G : G[k].do = "grant" /\ ~G[k].announce
    BY <2>1 DEF Grant
  <2>4. 2 * Cardinality(ps) \in Nat
    BY LedgerAssumption, FS_Subset, FS_CardinalityType
  <2>5. Begin(a, "direct", None, s)
    BY <2>1
  <2> HIDE DEF x
  <2>6. G \in Seq(X)
    <3>1. G = [k \in 1..(2 * Cardinality(ps)) |-> G[k]]
      BY <2>1
    <3>. QED
      BY <2>3, <2>4, <3>1, SeqDef
  <2>7. <<x>> \in Seq(X)
    OBVIOUS
  <2>8. \A y \in X : y.do \in {"room", "grant"} /\ (y.do = "grant" => ~y.announce)
    BY <2>2, <2>3
  <2> HIDE DEF X
  <2>9. s \in Seq(X)
    BY <2>6, <2>7, ConcatProperties
  <2> HIDE DEF s
  <2>10. \A k \in DOMAIN s : s[k] \in X
    BY <2>9
  <2>. QED
    BY <2>5, <2>8, <2>10, NoticesOnly
<1>3. CASE Join(a) \/ Leave(a) \/ RemoveParticipant(a) \/ Archive(a)
  <2>1. PICK op \in Posters \cap Ops : \E p, s :
          /\ Begin(a, op, p, s)
          /\ \A k \in DOMAIN s : s[k].do \in {"room", "grant", "strip", "notice"}
    <3>1. CASE Join(a)
      <4>1. PICK p \in People, r \in Rooms :
              Begin(a, "join", None,
                    <<JoinWrite(p, Room(r)), Grant(p, "participant", r, FALSE), Notice(r)>>)
        BY <3>1 DEF Join
      <4> DEFINE s == <<JoinWrite(p, Room(r)), Grant(p, "participant", r, FALSE), Notice(r)>>
      <4>2. \A k \in DOMAIN s : s[k].do \in {"room", "grant", "strip", "notice"}
        BY DEF JoinWrite, WriteRoom, Grant, Notice
      <4>. QED
        BY <3>1, <4>1, <4>2 DEF Join, Ready, Posters
    <3>2. CASE Leave(a) \/ RemoveParticipant(a)
      <4>1. PICK op \in {"leave", "remove"}, p \in People, r \in Rooms :
              Begin(a, op, p, Departure(p, Room(r))) /\ op \in Ops
        BY <3>2 DEF Leave, RemoveParticipant, Ready
      <4> DEFINE s == Departure(p, Room(r))
      <4>2. \A k \in DOMAIN s : s[k].do \in {"room", "grant", "strip", "notice"}
        BY DEF Departure, WriteRoom, Strip, Notice
      <4>. QED
        BY <4>1, <4>2 DEF Posters
    <3>3. CASE Archive(a)
      <4>1. PICK r \in Rooms :
              Begin(a, "archive", None,
                    <<WriteRoom([Room(r) EXCEPT !.archived = TRUE]), Notice(r)>>)
        BY <3>3 DEF Archive
      <4> DEFINE s == <<WriteRoom([Room(r) EXCEPT !.archived = TRUE]), Notice(r)>>
      <4>2. \A k \in DOMAIN s : s[k].do \in {"room", "grant", "strip", "notice"}
        BY DEF WriteRoom, Notice
      <4>. QED
        BY <3>3, <4>1, <4>2 DEF Archive, Ready, Posters
    <3>. QED
      BY <1>3, <3>1, <3>2, <3>3
  <2>. QED
    BY <2>1, NoticesOnly
<1>4. CASE UpdateSettings(a)
  <2>1. PICK r \in Rooms, public \in BOOLEAN, restricted \in BOOLEAN :
          Begin(a, "settings", None,
                <<SettingsWrite(Room(r), public, restricted)>> \o
                (IF restricted # Room(r).restricted THEN <<Notice(r)>> ELSE <<>>))
    BY <1>4 DEF UpdateSettings
  <2> DEFINE x == SettingsWrite(Room(r), public, restricted)
             z == Notice(r)
  <2>2. Room(r) \in RoomRecords(Number) /\ r \in Number
    BY RoomRead DEF LedgerInv
  <2>3. x \in Write /\ z \in Write /\ x.do = "room" /\ z.do = "notice"
    <3>1. [Room(r) EXCEPT !.public = public, !.restricted = restricted] \in RoomRecords(Nat)
      BY <2>2 DEF RoomRecords, Number
    <3>. QED
      BY <2>2, <3>1, WritesTyped DEF SettingsWrite, WriteRoom, Notice
  <2>4. <<x>> \o <<z>> = <<x, z>> /\ <<x>> \o <<>> = <<x>>
    BY <2>3, OneInFront
  <2>5. Begin(a, "settings", None, <<x, z>>) \/ Begin(a, "settings", None, <<x>>)
    BY <2>1, <2>4
  <2> HIDE DEF x, z
  <2>6. PICK s : Begin(a, "settings", None, s) /\ \A k \in DOMAIN s : s[k] \in {x, z}
    BY <2>5
  <2>7. "settings" \in Posters \cap Ops
    BY <1>4 DEF UpdateSettings, Ready, Posters
  <2>. QED
    BY <2>3, <2>6, <2>7, NoticesOnly
<1>. QED
  BY <1>1, <1>2, <1>3, <1>4 DEF RoomCommand

LEMMA GrantCommandSays ==
  ASSUME LedgerInv, NEW a \in Actors, GrantCommand(a) PROVE SaysFit(log, call'[a])
<1>1. CASE GrantRole(a)
  <2>1. PICK p, role, r : Begin(a, "grant", None, <<Grant(p, role, r, TRUE)>>)
    BY <1>1 DEF GrantRole
  <2>2. \A k \in DOMAIN <<Grant(p, role, r, TRUE)>> : <<Grant(p, role, r, TRUE)>>[k].do = "grant"
    BY DEF Grant
  <2>3. "grant" \in Posters \cap Ops
    BY <1>1 DEF GrantRole, Ready, Posters
  <2>. QED
    BY <2>1, <2>2, <2>3, NoticesOnly
<1>2. CASE GrantAdmin(a) \/ BootstrapAdmin(a)
  <2>1. PICK op \in {"admin", "bootstrap"} : \E p :
          Begin(a, op, None, <<Grant(p, "chat_admin", None, FALSE)>>)
    BY <1>2 DEF GrantAdmin, BootstrapAdmin
  <2>2. PICK p : Begin(a, op, None, <<Grant(p, "chat_admin", None, FALSE)>>)
    BY <2>1
  <2> DEFINE s == <<Grant(p, "chat_admin", None, FALSE)>>
  <2>3. \A k \in DOMAIN s : s[k].do = "grant" /\ ~s[k].announce
    BY DEF Grant
  <2>. QED
    BY <2>2, <2>3, NoticesOnly
<1>3. CASE RevokeBinding(a)
  <2>1. PICK b \in ActiveBindings :
          Begin(a, "revoke", None, <<RevokeOne(b)>> \o
            (IF BindingRecord(b).room = None THEN <<>> ELSE <<Notice(BindingRecord(b).room)>>))
    BY <1>3 DEF RevokeBinding
  <2> DEFINE x == RevokeOne(b)
             z == Notice(BindingRecord(b).room)
  <2>2. b \in Number /\ BindingRecord(b).room \in Number \cup {None}
    <3>1. b \in Bindings
      BY DEF ActiveBindings
    <3>. QED
      BY <3>1, BindingListed DEF LedgerInv, GrantRecords
  <2>3. x \in Write /\ x.do = "revoke"
    BY <2>2, WritesTyped DEF RevokeOne
  <2>4. BindingRecord(b).room # None => z \in Write /\ z.do = "notice"
    BY <2>2, WritesTyped DEF Notice
  <2>5. PICK s : Begin(a, "revoke", None, s) /\ \A k \in DOMAIN s : s[k].do \in {"revoke", "notice"}
    <3>1. CASE BindingRecord(b).room = None
      <4>1. Begin(a, "revoke", None, <<x>> \o <<>>) /\ <<x>> \o <<>> = <<x>>
        BY <2>1, <2>3, <3>1, OneInFront
      <4> HIDE DEF x
      <4>. QED
        BY <2>3, <4>1
    <3>2. CASE BindingRecord(b).room # None
      <4>1. Begin(a, "revoke", None, <<x>> \o <<z>>)
        BY <2>1, <3>2
      <4> HIDE DEF x, z
      <4>2. <<x>> \o <<z>> = <<x, z>>
        BY <2>3, <2>4, <3>2, OneInFront
      <4> DEFINE s == <<x, z>>
      <4>3. \A k \in DOMAIN s : s[k] \in {x, z}
        OBVIOUS
      <4>4. Begin(a, "revoke", None, s)
        BY <4>1, <4>2
      <4> HIDE DEF s
      <4>. QED
        BY <2>3, <2>4, <3>2, <4>3, <4>4
    <3>. QED
      BY <3>1, <3>2
  <2>6. "revoke" \in Posters \cap Ops
    BY <1>3 DEF RevokeBinding, Ready, Posters
  <2>. QED
    BY <2>5, <2>6, NoticesOnly
<1>. QED
  BY <1>1, <1>2, <1>3 DEF GrantCommand

\* Who marks a scope read has read it to its end.
LEMMA ReadToFits ==
  ASSUME TypeOK, NEW r, NEW t, NEW p PROVE MarkFits(log, ReadTo(r, t, p))
<1> DEFINE c == ReadTo(r, t, p)
<1>1. /\ c.room = r /\ c.thread = t /\ c.scope = ScopeEnd(r, t) /\ c.saw = Len(log)
      /\ Len(log) \in Nat
  BY DEF ReadTo, TypeOK
<1> HIDE DEF c
<1>2. /\ Scope(r, t) = ScopeIn(log, r, t)
      /\ \A m \in Scope(r, t) : m \in 1..Len(log) /\ log[m].scope <= ScopeEnd(r, t)
      /\ ScopeEnd(r, t) = 0 \/ \E m \in Scope(r, t) : log[m].scope = ScopeEnd(r, t)
  BY ScopeRead
<1>3. MarkFits(log, c)
  BY <1>1, <1>2 DEF MarkFits
<1>. QED
  BY <1>3 DEF c

LEMMA MessageCommandSays ==
  ASSUME LedgerInv, NEW a \in Actors, MessageCommand(a) PROVE SaysFit(log, call'[a])
<1>1. ASSUME NEW op, NEW x, Begin(a, op, None, <<x>>)
      PROVE  /\ call'[a].op = op /\ call'[a].rec = None
             /\ \A k \in DOMAIN call'[a].todo : call'[a].todo[k] = x
  BY <1>1, BegunCall
<1>2. CASE PostMessage(a)
  <2>1. PICK p \in People, r \in Rooms, key \in Keys \cup {None}, body \in Bodies,
             t \in {None} \cup Messages :
          ValidThread(r, t) /\ Begin(a, "post", None, <<Post(r, t, p, key, body)>>)
    BY <1>2 DEF PostMessage
  <2> DEFINE x == Post(r, t, p, key, body)
  <2>2. x.do = "post" /\ x.room = r /\ x.thread = t
    BY DEF Post
  <2>3. IsRoom(log, r) /\ (t # None => t \in ScopeIn(log, r, None))
    BY <2>1, RoomHere, ScopeRead DEF ValidThread, LedgerInv
  <2>4. "post" \in Posters \cap Ops
    BY <1>2 DEF PostMessage, Ready, Posters
  <2>5. Begin(a, "post", None, <<x>>)
    BY <2>1
  <2> HIDE DEF x
  <2>. QED
    BY <1>1, <2>2, <2>3, <2>4, <2>5 DEF SaysFit
<1>3. CASE EditMessage(a) \/ RedactMessage(a) \/ SetReaction(a)
  <2>1. PICK op, v : Begin(a, op, None, <<Change(v)>>)
    BY <1>3 DEF EditMessage, RedactMessage, SetReaction
  <2>2. Change(v).do = "change"
    BY DEF Change
  <2>. QED
    BY <1>1, <2>1, <2>2, SaysNothing
<1>4. CASE MarkRead(a)
  <2>1. PICK p \in People, r \in Rooms, t \in {None} \cup Messages :
          Begin(a, "mark", None, <<Put(ReadTo(r, t, p), r, t)>>)
    BY <1>4 DEF MarkRead
  <2> DEFINE x == Put(ReadTo(r, t, p), r, t)
  <2>2. x.do = "put" /\ x.value = ReadTo(r, t, p)
    BY DEF Put
  <2>3. MarkFits(log, x.value)
    BY <2>2, ReadToFits DEF LedgerInv
  <2>4. Begin(a, "mark", None, <<x>>)
    BY <2>1
  <2> HIDE DEF x
  <2>. QED
    BY <1>1, <2>2, <2>3, <2>4 DEF SaysFit
<1>5. CASE SetAttachment(a)
  <2>1. PICK v, r, t : Begin(a, "follow", None, <<Put(v, r, t)>>) /\ v.type = "follow"
    BY <1>5 DEF SetAttachment
  <2> DEFINE x == Put(v, r, t)
  <2>2. x.do = "put" /\ x.value.type = "follow"
    BY <2>1 DEF Put
  <2>3. Begin(a, "follow", None, <<x>>)
    BY <2>1
  <2> HIDE DEF x
  <2>. QED
    BY <1>1, <2>2, <2>3 DEF SaysFit
<1>. QED
  BY <1>2, <1>3, <1>4, <1>5 DEF MessageCommand

-----------------------------------------------------------------------------
\* What a call is about to say when a write is prepared

\* A write that is done leaves the others, notices of what it did, and revocations.
LEMMA SaysGoOn ==
  ASSUME LedgerInv, NEW a \in Actors, call[a].rec = None, call[a].todo # <<>>,
         SaysFit(log, call[a]), NEW d, d.op = call[a].op,
         \/ d.rec = None \/ d.rec.type \notin {"message", "cursor"}
         \/ d.rec.type = "message" /\ d.op \in Posters \cap Ops /\ IsNext(log, d.rec)
         \/ d.rec.type = "cursor" /\ MarkFits(log, d.rec),
         \A k \in DOMAIN d.todo : LET w == d.todo[k] IN
           \/ w.do \in {"member", "revoke"}
           \/ w.do = "notice" /\ d.op \in Posters \cap Ops
           \/ \E j \in DOMAIN Rest(a) :
                \/ w = Rest(a)[j]
                \/ w.do = "grant" /\ Rest(a)[j].do = "grant" /\ w.announce = Rest(a)[j].announce
  PROVE  SaysFit(log, d)
<1> DEFINE c == call[a]
<1>1. \A j \in DOMAIN Rest(a) : j + 1 \in DOMAIN c.todo /\ Rest(a)[j] = c.todo[j + 1]
  BY TheWrite
<1>2. \A k \in DOMAIN d.todo : LET w == d.todo[k] IN
        \/ w.do \in {"member", "revoke"}
        \/ w.do = "notice" /\ d.op \in Posters \cap Ops
        \/ \E j \in DOMAIN c.todo :
             \/ w = c.todo[j]
             \/ w.do = "grant" /\ c.todo[j].do = "grant" /\ w.announce = c.todo[j].announce
  BY <1>1
<1>3. ASSUME NEW k \in DOMAIN d.todo
      PROVE  /\ \/ d.todo[k].do \in {"post", "notice"}
                \/ d.todo[k].do = "grant" /\ d.todo[k].announce
                => d.op \in Posters \cap Ops
             /\ d.todo[k].do = "post" =>
                  /\ IsRoom(log, d.todo[k].room)
                  /\ d.todo[k].thread # None =>
                       d.todo[k].thread \in ScopeIn(log, d.todo[k].room, None)
             /\ d.todo[k].do = "put" /\ d.todo[k].value.type = "cursor" =>
                  MarkFits(log, d.todo[k].value)
  <2>1. CASE d.todo[k].do \in {"member", "revoke"}
    BY <2>1
  <2>2. CASE d.todo[k].do = "notice" /\ d.op \in Posters \cap Ops
    BY <2>2
  <2>3. ASSUME NEW j \in DOMAIN c.todo, d.todo[k] = c.todo[j]
        PROVE  /\ \/ d.todo[k].do \in {"post", "notice"}
                  \/ d.todo[k].do = "grant" /\ d.todo[k].announce
                  => d.op \in Posters \cap Ops
               /\ d.todo[k].do = "post" =>
                    /\ IsRoom(log, d.todo[k].room)
                    /\ d.todo[k].thread # None =>
                         d.todo[k].thread \in ScopeIn(log, d.todo[k].room, None)
               /\ d.todo[k].do = "put" /\ d.todo[k].value.type = "cursor" =>
                    MarkFits(log, d.todo[k].value)
    BY <2>3 DEF SaysFit
  <2>4. ASSUME NEW j \in DOMAIN c.todo, d.todo[k].do = "grant", c.todo[j].do = "grant",
               d.todo[k].announce = c.todo[j].announce, d.todo[k].announce
        PROVE  d.op \in Posters \cap Ops
    BY <2>4 DEF SaysFit
  <2>. QED
    BY <1>2, <2>1, <2>2, <2>3, <2>4
<1>. QED
  BY <1>3 DEF SaysFit

LEMMA SaysProceeding ==
  ASSUME LedgerInv, NEW a \in Actors, call[a].rec = None, call[a].todo # <<>>,
         SaysFit(log, call[a]), NEW rec, NEW todo, Proceed(a, rec, todo),
         \/ rec = None \/ rec.type \notin {"message", "cursor"}
         \/ rec.type = "message" /\ call[a].op \in Posters \cap Ops /\ IsNext(log, rec)
         \/ rec.type = "cursor" /\ MarkFits(log, rec),
         \A k \in DOMAIN todo : LET w == todo[k] IN
           \/ w.do \in {"member", "revoke"}
           \/ w.do = "notice" /\ call[a].op \in Posters \cap Ops
           \/ \E j \in DOMAIN Rest(a) :
                \/ w = Rest(a)[j]
                \/ w.do = "grant" /\ Rest(a)[j].do = "grant" /\ w.announce = Rest(a)[j].announce
  PROVE  SaysFit(log, call'[a])
<1>1. PICK d : d.op = call[a].op /\ d.rec = rec /\ d.todo = todo
               /\ (call'[a] = Idle \/ call'[a] = d)
  BY ProceedsTo
<1>2. SaysFit(log, d)
  BY <1>1, SaysGoOn
<1>. QED
  BY <1>1, <1>2, IdleSaysNothing

\* The other writes still announce what they did when the room is known.
LEMMA AboutAnnounces ==
  ASSUME NEW r \in Number, NEW steps \in Seq(Write), NEW k \in DOMAIN About(r, steps)
  PROVE  \/ About(r, steps)[k].do = "member"
         \/ \E j \in DOMAIN steps :
              LET w == About(r, steps)[k] IN
              \/ w = steps[j]
              \/ w.do = "grant" /\ steps[j].do = "grant" /\ w.announce = steps[j].announce
<1>1. /\ k \in DOMAIN steps /\ About(r, steps)[k].do = steps[k].do
      /\ steps[k].do \notin {"member", "grant"} => About(r, steps)[k] = steps[k]
  BY AboutRoom
<1>2. CASE steps[k].do = "grant"
  <2> DEFINE w == steps[k]
  <2>1. w \in Write
    BY <1>1
  <2>2. w \in [do : {"grant"}, room : Nat \cup {None}, who : People, role : Roles,
               announce : BOOLEAN]
    BY <1>2, <2>1, WriteKinds
  <2>3. About(r, steps)[k] = w \/ About(r, steps)[k] = [w EXCEPT !.room = r]
    BY <1>1 DEF About
  <2> HIDE DEF w
  <2>4. About(r, steps)[k].announce = w.announce
    BY <2>2, <2>3
  <2>. QED
    BY <1>1, <1>2, <2>4 DEF w
<1>. QED
  BY <1>1, <1>2

LEMMA PreparesSays ==
  ASSUME LedgerInv, NEW a \in Actors, Prepare(a), SaysFit(log, call[a])
  PROVE  SaysFit(log, call'[a])
<1> DEFINE c == call[a]
           w == Now(a)
<1>1. c.rec = None /\ c.todo # <<>>
  BY DEF Prepare, OpenRoom, UpdateRoom, UpsertMember, EnsureGrant, StripRoles, RevokeGrant,
         SystemMessage, AppendMessage, ChangeMessage, UpsertMark, Step
<1>2. /\ Rest(a) \in Seq(Write) /\ w \in Write /\ w = c.todo[1] /\ 1 \in DOMAIN c.todo
      /\ \A j \in DOMAIN Rest(a) : \E i \in DOMAIN Rest(a) : Rest(a)[j] = Rest(a)[i]
  BY <1>1, TheWrite DEF Number
<1>3. /\ w.do \in {"post", "notice"} \/ (w.do = "grant" /\ w.announce) => c.op \in Posters \cap Ops
      /\ w.do = "post" =>
           /\ IsRoom(log, w.room)
           /\ w.thread # None => w.thread \in ScopeIn(log, w.room, None)
      /\ w.do = "put" /\ w.value.type = "cursor" => MarkFits(log, w.value)
  BY <1>2 DEF SaysFit
<1>4. CASE OpenRoom(a)
  <2> DEFINE v == w.value
             found == IF v.kind = "channel" THEN ChannelsNamed(v.slug)
                                            ELSE DirectRoomsOf(v.members)
             rec == [v EXCEPT !.seq = NextSeq]
             more == Sync(Fresh, {}, v.members)
  <2>1. /\ w.do = "room" /\ v.id = Fresh
        /\ \/ found # {} /\ Proceed(a, None, About(Min(found), Rest(a)))
           \/ Proceed(a, rec, more \o Rest(a))
    BY <1>4 DEF OpenRoom, Step, Now
  <2>2. v \in RoomRecords(Nat)
    BY <1>2, <2>1, WriteKinds
  <2>3. CASE found # {} /\ Proceed(a, None, About(Min(found), Rest(a)))
    <3>1. found \subseteq Rooms
      BY DEF ChannelsNamed, DirectRoomsOf
    <3>2. Min(found) \in Number
      <4>1. \A x \in Rooms : x \in Number
        BY RoomRead DEF LedgerInv
      <4>2. \E x \in found : \A y \in found : x <= y
        BY <2>3, <3>1, <4>1, HasMinimum DEF Number
      <4>. QED
        BY <3>1, <4>1, <4>2 DEF Min
    <3> DEFINE todo == About(Min(found), Rest(a))
    <3>3. \A k \in DOMAIN todo :
            \/ todo[k].do = "member"
            \/ \E j \in DOMAIN Rest(a) :
                 \/ todo[k] = Rest(a)[j]
                 \/ todo[k].do = "grant" /\ Rest(a)[j].do = "grant"
                    /\ todo[k].announce = Rest(a)[j].announce
      BY <1>2, <3>2, AboutAnnounces
    <3>4. Proceed(a, None, todo)
      BY <2>3
    <3> HIDE DEF todo
    <3>. QED
      BY <1>1, <3>3, <3>4, SaysProceeding
  <2>4. CASE Proceed(a, rec, more \o Rest(a))
    <3>1. rec.type = "room"
      BY <2>2 DEF RoomRecords
    <3>2. more \in Seq(Write) /\ \A k \in DOMAIN more : more[k].do = "member"
      <4>1. {} \in SUBSET People /\ v.members \in SUBSET People /\ Fresh \in Nat
        BY <2>2 DEF RoomRecords, Fresh
      <4>. QED
        BY <4>1, SyncWrites
    <3> HIDE DEF rec, more
    <3> DEFINE todo == more \o Rest(a)
    <3>3. \A k \in DOMAIN todo :
            todo[k].do = "member" \/ \E j \in DOMAIN Rest(a) : todo[k] = Rest(a)[j]
      BY <1>2, <3>2, InFront
    <3>4. Proceed(a, rec, todo)
      BY <2>4
    <3> HIDE DEF todo
    <3>. QED
      BY <1>1, <3>1, <3>3, <3>4, SaysProceeding
  <2>. QED
    BY <2>1, <2>3, <2>4
<1>5. CASE UpdateRoom(a)
  <2> DEFINE v == w.value
             rec == [v EXCEPT !.seq = NextSeq]
             more == Sync(v.id, Participants(v.id), v.members)
  <2>1. /\ w.do = "room" /\ v.id # Fresh
        /\ \/ call' = [call EXCEPT ![a] = Idle]
           \/ Proceed(a, rec, more \o Rest(a))
    BY <1>5 DEF UpdateRoom, Step, Now
  <2>2. v \in RoomRecords(Nat)
    BY <1>2, <2>1, WriteKinds
  <2>3. CASE call' = [call EXCEPT ![a] = Idle]
    BY <2>3, IdleSaysNothing DEF LedgerInv, TypeOK
  <2>4. CASE Proceed(a, rec, more \o Rest(a))
    <3>1. rec.type = "room"
      BY <2>2 DEF RoomRecords
    <3>2. more \in Seq(Write) /\ \A k \in DOMAIN more : more[k].do = "member"
      <4>1. v.id \in Rooms
        <5>1. RewritesRooms(log, c)
          BY <1>1, TheWrite DEF CallFits
        <5>2. IsRoom(log, v.id)
          BY <1>2, <2>1, <5>1 DEF RewritesRooms
        <5>. QED
          BY <5>2 DEF IsRoom, Rooms, Records, Positions, LedgerInv, TypeOK
      <4>2. Participants(v.id) \in SUBSET People
        BY <4>1, RoomListed DEF Participants, RoomRecords, LedgerInv
      <4>3. v.members \in SUBSET People /\ v.id \in Nat
        BY <2>2 DEF RoomRecords
      <4>. QED
        BY <4>2, <4>3, SyncWrites
    <3> HIDE DEF rec, more
    <3> DEFINE todo == more \o Rest(a)
    <3>3. \A k \in DOMAIN todo :
            todo[k].do = "member" \/ \E j \in DOMAIN Rest(a) : todo[k] = Rest(a)[j]
      BY <1>2, <3>2, InFront
    <3>4. Proceed(a, rec, todo)
      BY <2>4
    <3> HIDE DEF todo
    <3>. QED
      BY <1>1, <3>1, <3>3, <3>4, SaysProceeding
  <2>. QED
    BY <2>1, <2>3, <2>4
<1>6. CASE UpsertMember(a)
  <2>1. PICK rec : rec.type = "member" /\ Proceed(a, rec, Rest(a))
    BY <1>6 DEF UpsertMember
  <2>. QED
    BY <1>1, <1>2, <2>1, SaysProceeding
<1>7. CASE EnsureGrant(a)
  <2>0. w.do = "grant"
    BY <1>7 DEF EnsureGrant, Step, Now
  <2>1. PICK pre, rec :
          /\ rec = None \/ rec.type = "grant"
          /\ pre = <<>> \/ (w.announce /\ pre = <<Notice(w.room)>>)
          /\ Proceed(a, rec, Rest(a)) \/ Proceed(a, rec, pre \o Rest(a))
    <3>1. \/ Proceed(a, None, Rest(a))
          \/ \E rec : rec.type = "grant" /\
               Proceed(a, rec, (IF w.announce THEN <<Notice(w.room)>> ELSE <<>>) \o Rest(a))
      BY <1>7 DEF EnsureGrant
    <3>. QED
      BY <3>1
  <2>2. w.announce => w.room \in Number
    BY <1>2, <2>0, WriteKinds
  <2>3. /\ pre \in Seq(Write)
        /\ \A k \in DOMAIN pre : pre[k].do = "notice" /\ c.op \in Posters \cap Ops
    <3>1. CASE pre = <<>>
      BY <3>1
    <3>2. CASE w.announce /\ pre = <<Notice(w.room)>>
      <4> DEFINE y == Notice(w.room)
      <4>1. y \in Write /\ y.do = "notice" /\ pre = <<y>>
        BY <2>2, <3>2, WritesTyped DEF Notice
      <4> HIDE DEF y
      <4>. QED
        BY <1>3, <2>0, <3>2, <4>1
    <3>. QED
      BY <2>1, <3>1, <3>2
  <2> DEFINE todo == pre \o Rest(a)
  <2>4. \A k \in DOMAIN todo :
          \/ todo[k].do = "notice" /\ c.op \in Posters \cap Ops
          \/ \E j \in DOMAIN Rest(a) : todo[k] = Rest(a)[j]
    BY <1>2, <2>3, InFront
  <2>5. Proceed(a, rec, Rest(a)) \/ Proceed(a, rec, todo)
    BY <2>1
  <2> HIDE DEF todo
  <2>6. CASE Proceed(a, rec, Rest(a))
    BY <1>1, <1>2, <2>1, <2>6, SaysProceeding
  <2>7. CASE Proceed(a, rec, todo)
    BY <1>1, <2>1, <2>4, <2>7, SaysProceeding
  <2>. QED
    BY <2>5, <2>6, <2>7
<1>8. CASE StripRoles(a)
  <2> DEFINE doomed == Listing(Doomed(w.who, w.room))
             pre == [k \in DOMAIN doomed |-> RevokeOne(doomed[k])]
             todo == pre \o Rest(a)
             d == [c EXCEPT !.todo = todo, !.since = Len(log)]
  <2>1. call'[a] = d
    BY <1>8 DEF StripRoles, LedgerInv, TypeOK
  <2>2. pre \in Seq(Write) /\ \A k \in DOMAIN pre : pre[k].do = "revoke"
    BY RevocationsListed
  <2> HIDE DEF pre
  <2>3. \A k \in DOMAIN todo :
          todo[k].do = "revoke" \/ \E j \in DOMAIN Rest(a) : todo[k] = Rest(a)[j]
    BY <1>2, <2>2, InFront
  <2> HIDE DEF todo
  <2>4. d.op = c.op /\ d.rec = None /\ d.todo = todo
    BY <1>1 DEF LedgerInv, TypeOK, Calls
  <2> HIDE DEF d
  <2>. QED
    BY <1>1, <2>1, <2>3, <2>4, SaysGoOn
<1>9. CASE RevokeGrant(a)
  <2> DEFINE b == w.binding
             rec == [BindingRecord(b) EXCEPT !.active = FALSE, !.seq = NextSeq]
  <2>1. Proceed(a, rec, Rest(a)) /\ w.do = "revoke"
    BY <1>9 DEF RevokeGrant, Step, Now
  <2>2. b \in Bindings
    <3>1. RevokesBindings(log, c)
      BY <1>1, TheWrite DEF CallFits
    <3>2. IsBinding(log, b)
      BY <1>2, <2>1, <3>1 DEF RevokesBindings
    <3>. QED
      BY <3>2 DEF IsBinding, Bindings, Records, Positions, LedgerInv, TypeOK
  <2>3. rec.type = "grant"
    BY <2>2, BindingListed DEF GrantRecords, LedgerInv
  <2> HIDE DEF rec
  <2>. QED
    BY <1>1, <1>2, <2>1, <2>3, SaysProceeding
<1>10. CASE SystemMessage(a)
  <2> DEFINE rec == Message(w.room, None, System, None, None)
  <2>1. Proceed(a, rec, Rest(a)) /\ w.do = "notice"
    BY <1>10 DEF SystemMessage, Step, Now
  <2>2. rec.type = "message" /\ IsNext(log, rec)
    <3>1. /\ rec.type = "message" /\ rec.author = System /\ rec.room = w.room /\ rec.thread = None
          /\ rec.scope = ScopeEnd(w.room, None) + 1
      BY DEF Message
    <3>2. /\ ScopeEnd(w.room, None) \in Nat
          /\ \A m \in ScopeIn(log, w.room, None) :
               log[m].scope \in Nat /\ log[m].scope <= ScopeEnd(w.room, None)
      BY ScopeRead DEF LedgerInv, Number
    <3> HIDE DEF rec
    <3>. QED
      BY <3>1, <3>2 DEF IsNext
  <2> HIDE DEF rec
  <2>. QED
    BY <1>1, <1>2, <1>3, <2>1, <2>2, SaysProceeding
<1>11. CASE AppendMessage(a)
  <2> DEFINE rec == Message(w.room, w.thread, w.author, w.key, w.body)
  <2>1. /\ Proceed(a, None, Rest(a)) \/ Proceed(a, rec, Rest(a))
        /\ w.do = "post"
    BY <1>11 DEF AppendMessage, Step, Now
  <2>2. rec.type = "message" /\ IsNext(log, rec)
    <3>1. /\ rec.type = "message" /\ rec.room = w.room /\ rec.thread = w.thread
          /\ rec.scope = ScopeEnd(w.room, w.thread) + 1
      BY DEF Message
    <3>2. /\ ScopeEnd(w.room, w.thread) \in Nat
          /\ \A m \in ScopeIn(log, w.room, w.thread) :
               log[m].scope \in Nat /\ log[m].scope <= ScopeEnd(w.room, w.thread)
      BY ScopeRead DEF LedgerInv, Number
    <3> HIDE DEF rec
    <3>. QED
      BY <1>3, <2>1, <3>1, <3>2 DEF IsNext
  <2> HIDE DEF rec
  <2>3. CASE Proceed(a, None, Rest(a))
    BY <1>1, <1>2, <2>3, SaysProceeding
  <2>4. CASE Proceed(a, rec, Rest(a))
    BY <1>1, <1>2, <1>3, <2>1, <2>2, <2>4, SaysProceeding
  <2>. QED
    BY <2>1, <2>3, <2>4
<1>12. CASE ChangeMessage(a)
  <2> DEFINE v == w.value
             rec == [v EXCEPT !.seq = NextSeq]
  <2>1. w.do = "change" /\ Proceed(a, rec, Rest(a))
    BY <1>12 DEF ChangeMessage, Step, Now
  <2>2. v \in ChangeRecords({0})
    BY <1>2, <2>1, WriteKinds
  <2>3. rec.type \notin {"message", "cursor"}
    BY <2>2 DEF ChangeRecords
  <2> HIDE DEF rec
  <2>. QED
    BY <1>1, <1>2, <2>1, <2>3, SaysProceeding
<1>13. CASE UpsertMark(a)
  <2> DEFINE v == w.value
             rec == [v EXCEPT !.seq = NextSeq]
  <2>1. w.do = "put" /\ Proceed(a, rec, Rest(a))
    BY <1>13 DEF UpsertMark, Step, Now
  <2>2. v \in MarkRecords({0})
    BY <1>2, <2>1, WriteKinds
  <2>3. /\ rec.type = v.type /\ rec.type \in {"cursor", "follow"}
        /\ v.type = "cursor" =>
             /\ rec.saw = v.saw /\ rec.scope = v.scope
             /\ rec.room = v.room /\ rec.thread = v.thread
    BY <2>2 DEF MarkRecords
  <2> HIDE DEF rec
  <2>4. rec.type = "cursor" => MarkFits(log, rec)
    BY <1>3, <2>1, <2>3 DEF MarkFits
  <2>. QED
    BY <1>1, <1>2, <2>1, <2>3, <2>4, SaysProceeding
<1>. QED
  BY <1>4, <1>5, <1>6, <1>7, <1>8, <1>9, <1>10, <1>11, <1>12, <1>13 DEF Prepare

-----------------------------------------------------------------------------
\* What is said when a record is appended

\* The line appended may be the next of its scope, or is a cursor that fits.
LEMMA SaidLine ==
  ASSUME LedgerInv, NEW a \in Actors, AppendRecord(a), SaysFit(log, call[a])
  PROVE  \E x \in Record :
           /\ log' = Append(log, x) /\ x.type = call[a].rec.type /\ call[a].rec # None
           /\ x.type = "message" => IsNext(log, x) /\ call[a].op \in Posters \cap Ops
           /\ x.type = "cursor" => MarkFits(log, x)
<1>1. PICK x \in Record :
        /\ log' = Append(log, x) /\ x.type = call[a].rec.type
        /\ x.type = "message" =>
             /\ x.room = call[a].rec.room /\ x.thread = call[a].rec.thread
             /\ x.author = call[a].rec.author /\ x.scope = call[a].rec.scope
        /\ x.type = "cursor" => x = call[a].rec
  BY LineAppended
<1>2. call[a].rec # None
  BY DEF AppendRecord
<1>3. x.type = "message" => IsNext(log, call[a].rec) /\ call[a].op \in Posters \cap Ops
  BY <1>1, <1>2 DEF SaysFit
<1>4. x.type = "message" => IsNext(log, x)
  BY <1>1, <1>3 DEF IsNext
<1>5. x.type = "cursor" => MarkFits(log, x)
  BY <1>1, <1>2 DEF SaysFit
<1>. QED
  BY <1>1, <1>2, <1>3, <1>4, <1>5

LEMMA SaysOwnLine ==
  ASSUME LedgerInv, NEW a \in Actors, AppendRecord(a), SaysFit(log, call[a])
  PROVE  SaysFit(log', call'[a])
<1> DEFINE old == call[a].todo
           e == Len(log) + 1
           c == [call[a] EXCEPT !.rec = None]
<1>1. PICK x \in Record :
        /\ log' = Append(log, x)
        /\ x.type = "message" => IsNext(log, x)
  BY SaidLine
<1>2. /\ log \in Seq(Record) /\ e \in Number /\ call[a] \in Calls /\ old \in Seq(Write)
      /\ c \in Calls /\ c.op = call[a].op /\ c.todo = old /\ c.rec = None
  <2>1. log \in Seq(Record) /\ e \in Number
    BY DEF LedgerInv, TypeOK, Number
  <2>2. call[a] \in Calls /\ old \in Seq(Write)
    BY DEF LedgerInv, TypeOK, Calls
  <2>3. c \in Calls /\ c.op = call[a].op /\ c.todo = old /\ c.rec = None
    BY <2>2 DEF Calls
  <2>. QED
    BY <2>1, <2>2, <2>3
<1>3. SaysFit(log, c)
  BY <1>2 DEF SaysFit
<1> HIDE DEF c
<1>4. SaysFit(log', c)
  BY <1>1, <1>2, <1>3, SaysStill
<1>5. PICK todo \in {old, About(e, old)} : Proceed(a, None, todo)
  BY DEF AppendRecord
<1>6. PICK d : /\ d.op = call[a].op /\ d.rec = None /\ d.todo = todo
               /\ (call'[a] = Idle \/ call'[a] = d)
  BY <1>5, ProceedsTo
<1>7. ASSUME NEW k \in DOMAIN todo
      PROVE  \/ todo[k].do = "member"
             \/ \E j \in DOMAIN old :
                  \/ todo[k] = old[j]
                  \/ todo[k].do = "grant" /\ old[j].do = "grant"
                     /\ todo[k].announce = old[j].announce
  BY <1>2, <1>7, AboutAnnounces
<1> HIDE DEF old
<1>8. ASSUME NEW k \in DOMAIN todo, NEW j \in DOMAIN old, todo[k] = old[j]
      PROVE  /\ \/ todo[k].do \in {"post", "notice"}
                \/ todo[k].do = "grant" /\ todo[k].announce
                => c.op \in Posters \cap Ops
             /\ todo[k].do = "post" =>
                  /\ IsRoom(log', todo[k].room)
                  /\ todo[k].thread # None =>
                       todo[k].thread \in ScopeIn(log', todo[k].room, None)
             /\ todo[k].do = "put" /\ todo[k].value.type = "cursor" =>
                  MarkFits(log', todo[k].value)
  BY <1>2, <1>4, <1>8 DEF SaysFit
<1>9. ASSUME NEW k \in DOMAIN todo, NEW j \in DOMAIN old, old[j].do = "grant", old[j].announce
      PROVE  c.op \in Posters \cap Ops
  BY <1>2, <1>4, <1>9 DEF SaysFit
<1>10. SaysFit(log', d)
  <2> SUFFICES ASSUME NEW k \in DOMAIN todo
               PROVE  /\ \/ todo[k].do \in {"post", "notice"}
                         \/ todo[k].do = "grant" /\ todo[k].announce
                         => c.op \in Posters \cap Ops
                      /\ todo[k].do = "post" =>
                           /\ IsRoom(log', todo[k].room)
                           /\ todo[k].thread # None =>
                                todo[k].thread \in ScopeIn(log', todo[k].room, None)
                      /\ todo[k].do = "put" /\ todo[k].value.type = "cursor" =>
                           MarkFits(log', todo[k].value)
    BY <1>2, <1>6 DEF SaysFit
  <2>1. CASE todo[k].do = "member"
    BY <2>1
  <2>2. CASE \E j \in DOMAIN old : todo[k] = old[j]
    BY <1>8, <2>2
  <2>3. CASE \E j \in DOMAIN old : todo[k].do = "grant" /\ old[j].do = "grant"
                                   /\ todo[k].announce = old[j].announce
    BY <1>9, <2>3
  <2>. QED
    BY <1>7, <2>1, <2>2, <2>3
<1>. QED
  BY <1>6, <1>10, IdleSaysNothing

\* The scopes stay numbered and the cursors right, and every call may still say what
\* it is about to, if no two calls that write messages are in progress at once.
LEMMA ViewInvHolds ==
  ASSUME Posters \cap Ops \subseteq Serial, \A l \in Ledgers : MessagesFit(l) /\ MarksFit(l)
  PROVE  Spec => []ViewInv
<1>1. Init => ViewInv
  <2> SUFFICES ASSUME Init PROVE ViewInv
    OBVIOUS
  <2>1. \A a \in Actors : call[a] = Idle
    BY DEF Init
  <2>2. None \notin Serial /\ Idle.op = None
    BY CommandAssumption DEF Idle
  <2>. QED
    BY <2>1, <2>2, IdleSaysNothing DEF Init, ViewInv, OneAtATime
<1>2. ASSUME LedgerInv, ViewInv, [Next]_commandVars PROVE ViewInv'
  <2>1. OneAtATime'
    BY <1>2, AloneStays DEF ViewInv
  <2>2. ASSUME NEW a \in Actors, log' = log, SaysFit(log, call'[a]),
               \A d \in Actors : d # a => call'[d] = call[d]
        PROVE  ViewInv'
    <3>1. \A d \in Actors : SaysFit(log, call'[d])
      BY <1>2, <2>2 DEF ViewInv
    <3>. QED
      BY <1>2, <2>1, <2>2, <3>1 DEF ViewInv
  <2>3. ASSUME NEW a \in Actors, RoomCommand(a) \/ GrantCommand(a) \/ MessageCommand(a)
        PROVE  ViewInv'
    <3>1. SaysFit(log, call'[a])
      BY <1>2, <2>3, RoomCommandSays, GrantCommandSays, MessageCommandSays
    <3>2. log' = log /\ \A d \in Actors : d # a => call'[d] = call[d]
      BY <1>2, <2>3, BegunAlone
    <3>. QED
      BY <2>2, <3>1, <3>2
  <2>4. ASSUME NEW a \in Actors, Prepare(a) PROVE ViewInv'
    <3>1. SaysFit(log, call'[a])
      BY <1>2, <2>4, PreparesSays DEF ViewInv
    <3>2. log' = log /\ \A d \in Actors : d # a => call'[d] = call[d]
      BY <1>2, <2>4, PreparedKey DEF Prepare
    <3>. QED
      BY <2>2, <3>1, <3>2
  <2>5. ASSUME NEW a \in Actors, AppendRecord(a) PROVE ViewInv'
    <3>1. PICK x \in Record :
            /\ log' = Append(log, x)
            /\ x.type = "message" => IsNext(log, x) /\ call[a].op \in Posters \cap Ops
            /\ x.type = "cursor" => MarkFits(log, x)
      BY <1>2, <2>5, SaidLine DEF ViewInv
    <3>2. log \in Seq(Record) /\ \A d \in Actors : call[d] \in Calls /\ SaysFit(log, call[d])
      BY <1>2 DEF ViewInv, LedgerInv, TypeOK
    <3>3. MessagesFit(log') /\ MarksFit(log')
      BY <1>2, <3>1, <3>2, ViewsGrow DEF ViewInv
    <3>4. \A d \in Actors : d # a => call'[d] = call[d]
      <4>1. PICK todo : Proceed(a, None, todo)
        BY <2>5 DEF AppendRecord
      <4>. QED
        BY <1>2, <4>1, Proceeds DEF LedgerInv
    <3>5. ASSUME NEW d \in Actors, d # a PROVE SaysFit(log', call'[d])
      <4>1. x.type = "message" => call[d].rec = None \/ call[d].rec.type # "message"
        <5> SUFFICES ASSUME x.type = "message", call[d].rec # None, call[d].rec.type = "message"
                     PROVE  FALSE
          OBVIOUS
        <5>1. call[d].op \in Posters \cap Ops
          BY <3>2 DEF SaysFit
        <5>. QED
          BY <1>2, <3>1, <3>5, <5>1 DEF ViewInv, OneAtATime
      <4>2. SaysFit(log', call[d])
        BY <3>1, <3>2, <4>1, SaysStill
      <4>. QED
        BY <3>4, <3>5, <4>2
    <3>6. SaysFit(log', call'[a])
      BY <1>2, <2>5, <3>2, SaysOwnLine
    <3>. QED
      BY <2>1, <3>3, <3>5, <3>6 DEF ViewInv
  <2>6. ASSUME NEW a \in Actors, Die(a) PROVE ViewInv'
    <3>1. /\ log' = log /\ call'[a] = Idle /\ \A d \in Actors : d # a => call'[d] = call[d]
      BY <1>2, <2>6 DEF Die, LedgerInv, TypeOK
    <3>. QED
      BY <2>2, <3>1, IdleSaysNothing
  <2>7. CASE UNCHANGED commandVars
    BY <1>2, <2>7 DEF commandVars, ViewInv, OneAtATime
  <2>. QED
    BY <1>2, <2>3, <2>4, <2>5, <2>6, <2>7 DEF Next
<1>. QED
  BY <1>1, <1>2, LedgerInvHolds, PTL DEF Spec

\* No message is lost to a reader and none comes back, for any number of processes and
\* crashes.  What this asks is that no two calls that write messages or notices are in
\* progress at once, for their messages could share a number, and of the ledger to begin
\* with that it was written so.
THEOREM AttentionStays ==
  ASSUME Posters \cap Ops \subseteq Serial, \A l \in Ledgers : MessagesFit(l) /\ MarksFit(l)
  PROVE  Spec => []AttentionKept
<1>1. LedgerInv /\ ViewInv => AttentionKept
  BY Notices
<1>. QED
  BY <1>1, LedgerInvHolds, ViewInvHolds, PTL

-----------------------------------------------------------------------------
\* Reading the events

\* no two lines have one sequence, a record about to be written is above all lines,
\* and the script has asked up to a sequence that was used
SeqsApart(l) == \A i, j \in DOMAIN l : l[i].seq = l[j].seq => i = j

AboveAll(l, x) == \A i \in DOMAIN l : l[i].seq < x.seq

InHand(l, c) == c = Idle \/ (c.op \in Ops /\ (c.rec # None => AboveAll(l, c.rec)))

FeedInv ==
  /\ OneAtATime /\ SeqsApart(log) /\ \A a \in Actors : InHand(log, call[a])
  /\ feed.after = 0 \/ \E i \in DOMAIN log : feed.after = log[i].seq
  /\ FeedComplete

\* The readers change nothing, and what a client sees of the service is the service.
LEMMA ServiceGoesOn == ClientSpec => Spec
<1>1. ClientInit => Init
  BY DEF ClientInit
<1>2. [ClientNext]_vars => [Next]_commandVars
  BY DEF ClientNext, Commands, vars
<1>. QED
  BY <1>1, <1>2, PTL DEF ClientSpec, Spec

\* A record is prepared with the next sequence.
LEMMA PreparedNext ==
  ASSUME LedgerInv, NEW a \in Actors, Prepare(a)
  PROVE  /\ call[a] # Idle
         /\ \/ call'[a] = Idle
            \/ /\ call'[a].op = call[a].op
               /\ call'[a].rec = None \/ call'[a].rec.seq = NextSeq
<1> USE DEF LedgerInv
<1>1. ASSUME NEW rec, NEW todo, Proceed(a, rec, todo), rec = None \/ rec.seq = NextSeq
      PROVE  \/ call'[a] = Idle
             \/ /\ call'[a].op = call[a].op
                /\ call'[a].rec = None \/ call'[a].rec.seq = NextSeq
  BY <1>1, ProceedsTo
<1>2. /\ call[a].rec = None /\ call[a].todo # <<>>
      /\ call[a] \in Calls /\ call \in [Actors -> Calls]
  BY DEF Prepare, OpenRoom, UpdateRoom, UpsertMember, EnsureGrant, StripRoles, RevokeGrant,
         SystemMessage, AppendMessage, ChangeMessage, UpsertMark, Step, TypeOK
<1>3. call[a] # Idle
  BY <1>2 DEF Idle
<1>4. CASE StripRoles(a)
  <2>1. PICK todo : call' = [call EXCEPT ![a].todo = todo, ![a].since = Len(log)]
    BY <1>4 DEF StripRoles
  <2>. QED
    BY <1>2, <1>3, <2>1 DEF Calls
<1>5. CASE OpenRoom(a) \/ UpdateRoom(a)
  <2> DEFINE v == Now(a).value
             rec == [v EXCEPT !.seq = NextSeq]
  <2>1. \/ call' = [call EXCEPT ![a] = Idle]
        \/ \E todo : Proceed(a, None, todo) \/ Proceed(a, rec, todo)
    BY <1>5 DEF OpenRoom, UpdateRoom
  <2>2. v \in RoomRecords(Nat)
    <3>1. Now(a).do = "room"
      BY <1>5 DEF OpenRoom, UpdateRoom, Step, Now
    <3>. QED
      BY <1>2, <3>1, TheWrite, WriteKinds
  <2>3. rec.seq = NextSeq
    BY <2>2 DEF RoomRecords
  <2> HIDE DEF rec
  <2>. QED
    BY <1>1, <1>2, <1>3, <2>1, <2>3
<1>6. CASE UpsertMember(a) \/ EnsureGrant(a) \/ SystemMessage(a) \/ AppendMessage(a)
  <2>1. PICK rec, todo : Proceed(a, rec, todo) /\ (rec = None \/ rec.seq = NextSeq)
    BY <1>6 DEF UpsertMember, EnsureGrant, SystemMessage, AppendMessage, Message
  <2>. QED
    BY <1>1, <1>3, <2>1
<1>7. CASE RevokeGrant(a)
  <2> DEFINE b == Now(a).binding
             rec == [BindingRecord(b) EXCEPT !.active = FALSE, !.seq = NextSeq]
  <2>1. Now(a).do = "revoke" /\ Proceed(a, rec, Rest(a))
    BY <1>7 DEF RevokeGrant, Step, Now
  <2>2. b \in Bindings
    <3>1. RevokesBindings(log, call[a]) /\ 1 \in DOMAIN call[a].todo /\ Now(a) = call[a].todo[1]
      BY <1>2, TheWrite DEF CallFits, Number
    <3>2. IsBinding(log, b)
      BY <2>1, <3>1 DEF RevokesBindings
    <3>. QED
      BY <3>2 DEF IsBinding, Bindings, Records, Positions, TypeOK
  <2>3. rec.seq = NextSeq
    BY <2>2, BindingListed DEF GrantRecords
  <2> HIDE DEF rec
  <2>. QED
    BY <1>1, <1>3, <2>1, <2>3
<1>8. CASE ChangeMessage(a) \/ UpsertMark(a)
  <2> DEFINE v == Now(a).value
             rec == [v EXCEPT !.seq = NextSeq]
  <2>1. Now(a).do \in {"change", "put"} /\ Proceed(a, rec, Rest(a))
    BY <1>8 DEF ChangeMessage, UpsertMark, Step, Now
  <2>2. v \in ChangeRecords({0}) \cup MarkRecords({0})
    BY <1>2, <2>1, TheWrite, WriteKinds
  <2>3. rec.seq = NextSeq
    BY <2>2 DEF ChangeRecords, MarkRecords
  <2> HIDE DEF rec
  <2>. QED
    BY <1>1, <1>3, <2>1, <2>3
<1>. QED
  BY <1>3, <1>4, <1>5, <1>6, <1>7, <1>8 DEF Prepare

\* A page holds every event up to its last.
LEMMA PageIsWhole ==
  ASSUME TypeOK, SeqsApart(log), NEW after, Page(after) # {}
  PROVE  /\ LastOf(Page(after)) \in Page(after) /\ Page(after) \subseteq Events(after)
         /\ \A i \in Events(after) : log[i].seq <= log[LastOf(Page(after))].seq => i \in Page(after)
<1> DEFINE news == Events(after)
           page == Page(after)
           last == LastOf(page)
           Up(i) == {j \in news : Before(j, i)}
<1>1. news \in SUBSET Positions /\ page \subseteq news
      /\ \A i \in news : i \in page <=> Cardinality(Up(i)) < Limit
  BY DEF Events, Page
<1>2. last \in page
  BY <1>1, LastOfIsLast
<1>3. /\ Len(log) \in Nat /\ DOMAIN log = Positions /\ Positions = 1..Len(log)
      /\ \A i \in Positions : log[i].seq \in Nat /\ i \in Nat
  BY RecordSeq DEF TypeOK, Positions, Number
<1>4. IsFiniteSet(Positions)
  BY <1>3, FS_Interval
<1> HIDE DEF news, page, last
<1>5. ASSUME NEW i \in news, log[i].seq <= log[last].seq, i # last PROVE i \in page
  <2>1. i \in Positions /\ last \in Positions
    BY <1>1, <1>2
  <2>2. log[i].seq < log[last].seq
    BY <1>3, <1>5, <2>1 DEF SeqsApart
  <2>3. Up(i) \subseteq Up(last) /\ Up(last) \subseteq Positions
    BY <1>1, <1>3, <2>1, <2>2 DEF Before
  <2>4. IsFiniteSet(Up(last))
    BY <1>4, <2>3, FS_Subset
  <2>5. /\ Cardinality(Up(i)) <= Cardinality(Up(last)) /\ IsFiniteSet(Up(i))
    BY <2>3, <2>4, FS_Subset
  <2>6. Cardinality(Up(i)) \in Nat /\ Cardinality(Up(last)) \in Nat
    BY <2>4, <2>5, FS_CardinalityType
  <2>7. Cardinality(Up(last)) < Limit
    BY <1>1, <1>2
  <2> HIDE DEF Up
  <2>8. Cardinality(Up(i)) < Limit
    BY <2>5, <2>6, <2>7, ClientAssumption
  <2>. QED
    BY <1>1, <2>8 DEF Up
<1>. QED
  BY <1>1, <1>2, <1>5 DEF news, page, last

\* the rooms Viewer may read, of any ledger
ReadableIn(l) ==
  {r \in {l[i].id : i \in {j \in DOMAIN l : l[j].type = "room"}} :
     \/ RoomIn(l, r).public
     \/ \E b \in DOMAIN l : Live(l, b) /\ l[b].who = Viewer /\ l[b].room \in {r, None}}

\* What Viewer may read is read of the ledger and of nothing else.
LEMMA ReadableRead == LedgerInv => Readable = ReadableIn(log)
<1> SUFFICES ASSUME LedgerInv PROVE Readable = ReadableIn(log)
  OBVIOUS
<1>1. Rooms = {log[i].id : i \in {j \in DOMAIN log : log[j].type = "room"}}
  <2>1. DOMAIN log = Positions
    BY DEF LedgerInv, TypeOK, Positions
  <2>. QED
    BY <2>1 DEF Rooms, Records
<1>2. ASSUME NEW r \in Rooms
      PROVE  May(Viewer, "room.read", Room(r)) <=>
               \/ RoomIn(log, r).public
               \/ \E b \in DOMAIN log :
                    Live(log, b) /\ log[b].who = Viewer /\ log[b].room \in {r, None}
  <2>1. Room(r).id = r /\ Room(r).public = RoomIn(log, r).public
    <3>1. RoomRecord(r) \in RoomRecords(Number) /\ RoomRecord(r) = RoomIn(log, r)
      BY RoomListed, ReadHere DEF LedgerInv, TypeOK
    <3>. QED
      BY <3>1, RoomHere DEF Room, RoomRecords
  <2>2. May(Viewer, "room.read", Room(r)) <=> Room(r).public \/ RolesIn(Viewer, r) # {}
    BY <2>1 DEF May
  <2>3. RolesIn(Viewer, r) # {} <=>
          \E b : b \in BindingsOf(Viewer, r) \/ b \in BindingsOf(Viewer, None)
    BY DEF RolesIn
  <2>4. \A b : Live(log, b) => b \in DOMAIN log
    BY DEF Live, IsBinding
  <2>5. RolesIn(Viewer, r) # {} <=>
          \E b \in DOMAIN log :
            Live(log, b) /\ log[b].who = Viewer /\ log[b].room \in {r, None}
    BY <2>3, <2>4, BindingsRead
  <2>. QED
    BY <2>1, <2>2, <2>5
<1>. QED
  BY <1>1, <1>2 DEF Readable, ReadableIn

LEMMA ReadableReadNext == LedgerInv' => Readable' = ReadableIn(log')
<1>1. LedgerInv' => (Readable = ReadableIn(log))'
  BY ReadableRead, PTL
<1>. QED
  BY <1>1

LEMMA ReadableSame ==
  ASSUME LedgerInv, LedgerInv', log' = log PROVE Readable' = Readable
BY ReadableRead, ReadableReadNext

\* What the script was sent stays all there was, however the ledger grows.
LEMMA FeedGrows ==
  ASSUME LedgerInv, NEW x \in Record, log' = Append(log, x), Readable' \subseteq Readable,
         AboveAll(log, x), FeedInv, feed' = feed
  PROVE  /\ SeqsApart(log') /\ FeedComplete'
         /\ feed'.after = 0 \/ \E i \in DOMAIN log' : feed'.after = log'[i].seq
<1>1. /\ log'[Len(log) + 1] = x /\ Len(log) + 1 \in DOMAIN log'
      /\ \A i \in DOMAIN log : i \in DOMAIN log' /\ log'[i] = log[i]
      /\ \A i \in DOMAIN log' : i \in DOMAIN log \/ i = Len(log) + 1
  <2>1. /\ Append(log, x) \in Seq(Record) /\ Len(Append(log, x)) = Len(log) + 1 /\ Len(log) \in Nat
    BY LedgerGrows DEF LedgerInv, TypeOK
  <2>2. Len(log) + 1 \in DOMAIN log'
    BY <2>1
  <2>. QED
    BY <2>2, LedgerGrows DEF LedgerInv, TypeOK
<1>2. /\ DOMAIN log = Positions /\ DOMAIN log' = Positions'
      /\ x.seq \in Number /\ \A i \in DOMAIN log : log[i].seq \in Number /\ log[i].seq < x.seq
  <2>1. log \in Seq(Record) /\ log' \in Seq(Record)
    BY LedgerGrows DEF LedgerInv, TypeOK
  <2>. QED
    BY <2>1, RecordSeq DEF AboveAll, Positions
<1>3. SeqsApart(log')
  BY <1>1, <1>2 DEF SeqsApart, FeedInv, Number
<1>4. feed.after < x.seq
  BY <1>2 DEF FeedInv, Number
<1>5. ASSUME NEW i \in Events(0)', log'[i].seq <= feed.after PROVE i \in feed.got
  <2>1. /\ i \in DOMAIN log' /\ log'[i].seq > 0
        /\ log'[i].type \in {"room", "member", "grant", "message", "cursor", "follow"}
        /\ RoomOf(i)' \in Readable'
    BY <1>2 DEF Events
  <2>2. i \in DOMAIN log
    <3>1. ~(x.seq <= feed.after)
      BY <1>2, <1>4 DEF FeedInv, Number
    <3>. QED
      BY <1>1, <1>5, <2>1, <3>1
  <2>3. RoomOf(i)' = RoomOf(i)
    BY <1>1, <2>2 DEF RoomOf
  <2>4. i \in Events(0) /\ log[i].seq <= feed.after
    BY <1>1, <1>2, <1>5, <2>1, <2>2, <2>3 DEF Events
  <2>. QED
    BY <2>4 DEF FeedInv, FeedComplete
<1>6. FeedComplete'
  BY <1>5 DEF FeedComplete
<1>7. feed'.after = 0 \/ \E i \in DOMAIN log' : feed'.after = log'[i].seq
  BY <1>1 DEF FeedInv
<1>. QED
  BY <1>3, <1>6, <1>7

\* A page takes the script on without a gap.
LEMMA FeedGoesOn ==
  ASSUME LedgerInv, LedgerInv', FeedInv, FeedPoll, log' = log
  PROVE  /\ FeedComplete' /\ \E i \in DOMAIN log' : feed'.after = log'[i].seq
<1> DEFINE page == Page(feed.after)
           last == LastOf(page)
<1>1. page # {} /\ feed'.after = log[last].seq /\ feed'.got = feed.got \cup page
  BY DEF FeedPoll, FeedNext
<1>2. /\ last \in page /\ page \subseteq Events(feed.after)
      /\ \A i \in Events(feed.after) : log[i].seq <= log[last].seq => i \in page
  BY <1>1, PageIsWhole DEF FeedInv, LedgerInv
<1>3. /\ DOMAIN log = Positions /\ Positions' = Positions
      /\ \A i \in Positions : log[i].seq \in Nat
      /\ feed.after \in Nat
  <2>1. /\ DOMAIN log = Positions /\ Positions' = Positions
        /\ \A i \in Positions : log[i].seq \in Nat
    BY RecordSeq DEF LedgerInv, TypeOK, Positions, Number
  <2>. QED
    BY <2>1 DEF FeedInv
<1>4. last \in DOMAIN log
  BY <1>2, <1>3 DEF Events
<1> HIDE DEF page, last
<1>5. Readable' = Readable /\ \A i : RoomOf(i)' = RoomOf(i)
  BY ReadableSame DEF RoomOf
<1>6. ASSUME NEW i \in Events(0)', log'[i].seq <= feed'.after PROVE i \in feed'.got
  <2>1. i \in Events(0) /\ i \in Positions /\ log[i].seq <= log[last].seq
    BY <1>1, <1>3, <1>5, <1>6 DEF Events
  <2>2. CASE log[i].seq <= feed.after
    BY <1>1, <2>1, <2>2 DEF FeedInv, FeedComplete
  <2>3. CASE ~(log[i].seq <= feed.after)
    <3>1. log[i].seq > feed.after
      BY <1>3, <2>1, <2>3
    <3>2. i \in Events(feed.after)
      BY <2>1, <3>1 DEF Events
    <3>. QED
      BY <1>1, <1>2, <2>1, <3>2
  <2>. QED
    BY <2>2, <2>3
<1>. QED
  BY <1>1, <1>4, <1>6 DEF FeedComplete

\* No writer leaves another behind when only one is at work.
LEMMA HandsApart ==
  ASSUME Ops \subseteq Serial, LedgerInv, FeedInv, Next
  PROVE  /\ \A a \in Actors : InHand(log', call'[a])
         /\ log' # log => \E x \in Record : log' = Append(log, x) /\ AboveAll(log, x)
<1>1. ASSUME NEW a \in Actors, log' = log, InHand(log, call'[a]),
             \A d \in Actors : d # a => call'[d] = call[d]
      PROVE  \A d \in Actors : InHand(log', call'[d])
  BY <1>1 DEF FeedInv
<1>2. ASSUME NEW a \in Actors, RoomCommand(a) \/ GrantCommand(a) \/ MessageCommand(a)
      PROVE  log' = log /\ \A d \in Actors : InHand(log', call'[d])
  <2>1. /\ log' = log /\ call'[a].rec = None /\ call'[a].op \in Ops
        /\ \A d \in Actors : d # a => call'[d] = call[d]
    BY <1>2, BegunAlone
  <2>2. InHand(log, call'[a])
    BY <2>1 DEF InHand
  <2>. QED
    BY <1>1, <2>1, <2>2
<1>3. ASSUME NEW a \in Actors, Prepare(a)
      PROVE  log' = log /\ \A d \in Actors : InHand(log', call'[d])
  <2>1. log' = log /\ \A d \in Actors : d # a => call'[d] = call[d]
    BY <1>3, PreparedKey DEF Prepare
  <2>2. /\ call[a] # Idle
        /\ \/ call'[a] = Idle
           \/ /\ call'[a].op = call[a].op
              /\ call'[a].rec = None \/ call'[a].rec.seq = NextSeq
    BY <1>3, PreparedNext
  <2>3. \A i \in DOMAIN log : log[i].seq < NextSeq
    BY NextSeqIsHighest DEF LedgerInv, TypeOK, Positions
  <2>4. InHand(log, call'[a])
    BY <2>2, <2>3 DEF FeedInv, InHand, AboveAll
  <2>. QED
    BY <1>1, <2>1, <2>4
<1>4. ASSUME NEW a \in Actors, AppendRecord(a)
      PROVE  /\ \A d \in Actors : InHand(log', call'[d])
             /\ \E x \in Record : log' = Append(log, x) /\ AboveAll(log, x)
  <2>1. PICK x \in Record : log' = Append(log, x) /\ x.seq = call[a].rec.seq
    BY <1>4, LineAppended
  <2>2. call[a].rec # None /\ call[a] # Idle /\ InHand(log, call[a])
    BY <1>4 DEF AppendRecord, Idle, FeedInv
  <2>3. AboveAll(log, x) /\ call[a].op \in Serial
    BY <2>1, <2>2 DEF InHand, AboveAll
  <2>4. PICK todo : Proceed(a, None, todo)
    BY <1>4 DEF AppendRecord
  <2>5. call'[a] = Idle \/ (call'[a].op = call[a].op /\ call'[a].rec = None)
    BY <2>4, ProceedsTo
  <2>6. InHand(log', call'[a])
    BY <2>2, <2>5 DEF InHand
  <2>7. ASSUME NEW d \in Actors, d # a PROVE InHand(log', call'[d])
    <3>1. call'[d] = call[d]
      BY <2>4, <2>7, Proceeds DEF LedgerInv
    <3>2. call[d].op \notin Serial
      BY <2>3, <2>7 DEF FeedInv, OneAtATime
    <3>3. call[d] = Idle
      BY <3>2 DEF FeedInv, InHand
    <3>. QED
      BY <3>1, <3>3 DEF InHand
  <2>. QED
    BY <2>1, <2>3, <2>6, <2>7
<1>5. ASSUME NEW a \in Actors, Die(a)
      PROVE  log' = log /\ \A d \in Actors : InHand(log', call'[d])
  <2>1. /\ log' = log /\ call'[a] = Idle /\ \A d \in Actors : d # a => call'[d] = call[d]
    BY <1>5 DEF Die, LedgerInv, TypeOK
  <2>. QED
    BY <1>1, <2>1 DEF InHand
<1>. QED
  BY <1>2, <1>3, <1>4, <1>5 DEF Next

\* The script has all it was sent past, if no two calls are in progress at once and
\* no room becomes readable that was not.
LEMMA FeedInvHolds ==
  ASSUME Ops \subseteq Serial, \A l \in Ledgers : SeqsApart(l)
  PROVE  ClientSpec /\ [][Readable' \subseteq Readable]_log => []FeedInv
<1>1. ClientInit => FeedInv
  <2> SUFFICES ASSUME ClientInit PROVE FeedInv
    OBVIOUS
  <2>1. \A a \in Actors : call[a] = Idle
    BY DEF ClientInit, Init
  <2>2. None \notin Serial /\ Idle.op = None
    BY CommandAssumption DEF Idle
  <2>3. log \in Seq(Record) /\ SeqsApart(log) /\ feed.after = 0
    BY ChatAssumption DEF ClientInit, Init
  <2>4. FeedComplete
    <3>1. \A i \in Positions : log[i].seq \in Nat
      BY <2>3, RecordSeq DEF Positions, Number
    <3>. QED
      BY <2>3, <3>1 DEF FeedComplete, Events
  <2>. QED
    BY <2>1, <2>2, <2>3, <2>4 DEF FeedInv, OneAtATime, InHand
<1>2. ASSUME LedgerInv, LedgerInv', FeedInv, [ClientNext]_vars, [Readable' \subseteq Readable]_log
      PROVE  FeedInv'
  <2>1. ASSUME log' = log, call' = call, feed' = feed PROVE FeedInv'
    <3>1. Readable' = Readable
      BY <1>2, <2>1, ReadableSame
    <3>2. Events(0)' = Events(0)
      BY <2>1, <3>1 DEF Events, Positions, RoomOf
    <3>3. FeedComplete'
      BY <1>2, <2>1, <3>2 DEF FeedInv, FeedComplete
    <3>. QED
      BY <1>2, <2>1, <3>3 DEF FeedInv, OneAtATime
  <2>2. CASE Next /\ UNCHANGED <<client, feed>>
    <3>1. OneAtATime'
      BY <1>2, <2>2, AloneStays DEF FeedInv
    <3>2. /\ \A a \in Actors : InHand(log', call'[a])
          /\ log' # log => \E x \in Record : log' = Append(log, x) /\ AboveAll(log, x)
      BY <1>2, <2>2, HandsApart
    <3>3. CASE log' = log
      <4>1. Readable' = Readable
        BY <1>2, <3>3, ReadableSame
      <4>2. Events(0)' = Events(0)
        BY <3>3, <4>1 DEF Events, Positions, RoomOf
      <4>3. FeedComplete'
        BY <1>2, <2>2, <3>3, <4>2 DEF FeedInv, FeedComplete
      <4>. QED
        BY <1>2, <2>2, <3>1, <3>2, <3>3, <4>3 DEF FeedInv
    <3>4. CASE log' # log
      <4>1. PICK x \in Record : log' = Append(log, x) /\ AboveAll(log, x)
        BY <3>2, <3>4
      <4>2. Readable' \subseteq Readable
        BY <1>2, <3>4
      <4>3. /\ SeqsApart(log') /\ FeedComplete'
            /\ feed'.after = 0 \/ \E i \in DOMAIN log' : feed'.after = log'[i].seq
        BY <1>2, <2>2, <4>1, <4>2, FeedGrows
      <4>. QED
        BY <3>1, <3>2, <4>3 DEF FeedInv
    <3>. QED
      BY <3>3, <3>4
  <2>3. CASE FeedPoll /\ UNCHANGED commandVars
    <3>1. log' = log /\ call' = call
      BY <2>3 DEF commandVars
    <3>2. FeedComplete' /\ \E i \in DOMAIN log' : feed'.after = log'[i].seq
      BY <1>2, <2>3, <3>1, FeedGoesOn
    <3>. QED
      BY <1>2, <3>1, <3>2 DEF FeedInv, OneAtATime
  <2>4. CASE (Poll \/ Reload \/ LoadEvents \/ LoadItems \/ LoadFails) /\ UNCHANGED commandVars
    BY <2>1, <2>4 DEF Poll, Reload, LoadEvents, LoadItems, LoadFails, commandVars
  <2>5. CASE UNCHANGED vars
    BY <2>1, <2>5 DEF vars, commandVars
  <2>. QED
    BY <1>2, <2>2, <2>3, <2>4, <2>5 DEF ClientNext, Commands, Readers
<1>. QED
  BY <1>1, <1>2, ServiceGoesOn, LedgerInvHolds, PTL DEF ClientSpec

\* Whoever pages through the events with the sequence of the last one gets them all, for
\* any number of processes, crashes and events per page.  What this asks is that no two
\* calls are in progress at once, for two lines could have one sequence; that none of the
\* ledger to begin with do; and that no room becomes readable that was not, for its older
\* events are behind the reader.
THEOREM FeedStaysComplete ==
  ASSUME Ops \subseteq Serial, \A l \in Ledgers : SeqsApart(l)
  PROVE  ClientSpec /\ [][Readable' \subseteq Readable]_log => []FeedComplete
<1>1. FeedInv => FeedComplete
  BY DEF FeedInv
<1>. QED
  BY <1>1, FeedInvHolds, PTL

-----------------------------------------------------------------------------
\* Where people only talk

\* the commands that write no room, member or grant
TalkOps == {"post", "edit", "redact", "react", "mark", "follow"}

Talks(c) ==
  /\ \A k \in DOMAIN c.todo : c.todo[k].do \in {"post", "change", "put"}
  /\ c.rec # None => c.rec.type \notin {"room", "member", "grant"}

TalkInv == \A a \in Actors : Talks(call[a])

LEMMA IdleTalks == Talks(Idle)
<1>1. DOMAIN Idle.todo = {} /\ Idle.rec = None
  BY DEF Idle
<1>. QED
  BY <1>1 DEF Talks

\* A call that talks goes on to talk.
LEMMA TalkPrepared ==
  ASSUME LedgerInv, NEW a \in Actors, Talks(call[a]), Prepare(a) PROVE Talks(call'[a])
<1>1. call[a].rec = None /\ call[a].todo # <<>>
  BY DEF Prepare, OpenRoom, UpdateRoom, UpsertMember, EnsureGrant, StripRoles, RevokeGrant,
         SystemMessage, AppendMessage, ChangeMessage, UpsertMark, Step
<1>2. Now(a).do \in {"post", "change", "put"} /\ Now(a) \in Write
  <2>1. 1 \in DOMAIN call[a].todo /\ Now(a) = call[a].todo[1] /\ Now(a) \in Write
    BY <1>1, TheWrite DEF Number
  <2>. QED
    BY <2>1 DEF Talks
<1>3. AppendMessage(a) \/ ChangeMessage(a) \/ UpsertMark(a)
  BY <1>2 DEF Prepare, OpenRoom, UpdateRoom, UpsertMember, EnsureGrant, StripRoles, RevokeGrant,
              SystemMessage, Step, Now
<1>4. PICK rec : Proceed(a, rec, Rest(a)) /\ (rec # None => rec.type \notin {"room", "member", "grant"})
  <2>1. CASE AppendMessage(a)
    BY <2>1 DEF AppendMessage, Message
  <2>2. CASE ChangeMessage(a) \/ UpsertMark(a)
    <3> DEFINE v == Now(a).value
               rec == [v EXCEPT !.seq = NextSeq]
    <3>1. Now(a).do \in {"change", "put"} /\ Proceed(a, rec, Rest(a))
      BY <2>2 DEF ChangeMessage, UpsertMark, Step, Now
    <3>2. v \in ChangeRecords({0}) \cup MarkRecords({0})
      BY <1>2, <3>1, WriteKinds
    <3>3. rec.type \notin {"room", "member", "grant"}
      BY <3>2 DEF ChangeRecords, MarkRecords
    <3> HIDE DEF rec
    <3>. QED
      BY <3>1, <3>3
  <2>. QED
    BY <1>3, <2>1, <2>2
<1>5. PICK d : d.rec = rec /\ d.todo = Rest(a) /\ (call'[a] = Idle \/ call'[a] = d)
  BY <1>4, ProceedsTo
<1>6. \A k \in DOMAIN Rest(a) :
        k + 1 \in DOMAIN call[a].todo /\ Rest(a)[k] = call[a].todo[k + 1]
  BY <1>1, TheWrite
<1>7. Talks(d)
  BY <1>4, <1>5, <1>6 DEF Talks
<1>. QED
  BY <1>5, <1>7, IdleTalks

\* What it appends is about no room, member or grant.
LEMMA TalkAppended ==
  ASSUME LedgerInv, NEW a \in Actors, Talks(call[a]), AppendRecord(a)
  PROVE  /\ Talks(call'[a])
         /\ \E x \in Record : log' = Append(log, x) /\ x.type \notin {"room", "member", "grant"}
<1>1. call[a].rec # None /\ call[a].rec.type \notin {"room", "member", "grant"}
  BY DEF AppendRecord, Talks
<1>2. Proceed(a, None, call[a].todo)
  BY <1>1 DEF AppendRecord
<1>3. PICK d : d.rec = None /\ d.todo = call[a].todo /\ (call'[a] = Idle \/ call'[a] = d)
  BY <1>2, ProceedsTo
<1>4. Talks(d)
  BY <1>3 DEF Talks
<1>. QED
  BY <1>1, <1>3, <1>4, IdleTalks, LineAppended

LEMMA TalkInvHolds ==
  ASSUME Ops \subseteq TalkOps PROVE Spec => []TalkInv
<1>1. Init => TalkInv
  BY IdleTalks DEF Init, TalkInv
<1>2. ASSUME LedgerInv, TalkInv, [Next]_commandVars PROVE TalkInv'
  <2>1. ASSUME NEW a \in Actors, Talks(call'[a]), \A d \in Actors : d # a => call'[d] = call[d]
        PROVE  TalkInv'
    BY <1>2, <2>1 DEF TalkInv
  <2>2. ASSUME NEW a \in Actors, RoomCommand(a) \/ GrantCommand(a) PROVE FALSE
    BY <2>2 DEF RoomCommand, GrantCommand, CreateChannel, EnsureDirect, Join, Leave,
                RemoveParticipant, UpdateSettings, Archive, GrantRole, GrantAdmin,
                BootstrapAdmin, RevokeBinding, Ready, TalkOps
  <2>3. ASSUME NEW a \in Actors, MessageCommand(a) PROVE TalkInv'
    <3>1. PICK op, x : Begin(a, op, None, <<x>>) /\ x.do \in {"post", "change", "put"}
      <4>1. CASE PostMessage(a)
        <5>1. PICK p, r, key, body, t : Begin(a, "post", None, <<Post(r, t, p, key, body)>>)
          BY <4>1 DEF PostMessage
        <5>. QED
          BY <5>1 DEF Post
      <4>2. CASE EditMessage(a) \/ RedactMessage(a) \/ SetReaction(a)
        <5>1. PICK op, v : Begin(a, op, None, <<Change(v)>>)
          BY <4>2 DEF EditMessage, RedactMessage, SetReaction
        <5>. QED
          BY <5>1 DEF Change
      <4>3. CASE MarkRead(a) \/ SetAttachment(a)
        <5>1. PICK op, v, r, t : Begin(a, op, None, <<Put(v, r, t)>>)
          BY <4>3 DEF MarkRead, SetAttachment
        <5>. QED
          BY <5>1 DEF Put
      <4>. QED
        BY <2>3, <4>1, <4>2, <4>3 DEF MessageCommand
    <3>2. /\ call'[a].todo = <<x>> /\ call'[a].rec = None
          /\ \A d \in Actors : d # a => call'[d] = call[d]
      BY <1>2, <3>1, BegunCall
    <3>3. Talks(call'[a])
      BY <3>1, <3>2 DEF Talks
    <3>. QED
      BY <2>1, <3>2, <3>3
  <2>4. ASSUME NEW a \in Actors, Prepare(a) PROVE TalkInv'
    BY <1>2, <2>1, <2>4, TalkPrepared, PreparedKey DEF TalkInv
  <2>5. ASSUME NEW a \in Actors, AppendRecord(a) PROVE TalkInv'
    <3>1. PICK todo : Proceed(a, None, todo)
      BY <2>5 DEF AppendRecord
    <3>2. \A d \in Actors : d # a => call'[d] = call[d]
      BY <1>2, <3>1, Proceeds DEF LedgerInv
    <3>. QED
      BY <1>2, <2>1, <2>5, <3>2, TalkAppended DEF TalkInv
  <2>6. ASSUME NEW a \in Actors, Die(a) PROVE TalkInv'
    <3>1. call'[a] = Idle /\ \A d \in Actors : d # a => call'[d] = call[d]
      BY <1>2, <2>6 DEF Die, LedgerInv, TypeOK
    <3>. QED
      BY <2>1, <3>1, IdleTalks
  <2>7. CASE UNCHANGED commandVars
    BY <1>2, <2>7 DEF commandVars, TalkInv
  <2>. QED
    BY <1>2, <2>2, <2>3, <2>4, <2>5, <2>6, <2>7 DEF Next
<1>. QED
  BY <1>1, <1>2, LedgerInvHolds, PTL DEF Spec

\* A line about something else leaves what Viewer may read.
LEMMA ReadableStays ==
  ASSUME LedgerInv, NEW x \in Record, x.type \notin {"room", "member", "grant"}
  PROVE  ReadableIn(Append(log, x)) = ReadableIn(log)
<1> DEFINE n == Append(log, x)
<1>1. /\ log \in Seq(Record) /\ n[Len(log) + 1] = x /\ Len(log) + 1 \in DOMAIN n
      /\ \A i \in DOMAIN log : i \in DOMAIN n /\ n[i] = log[i]
      /\ \A i \in DOMAIN n : i \in DOMAIN log \/ i = Len(log) + 1
  <2>1. log \in Seq(Record) /\ Len(log) \in Nat
    BY DEF LedgerInv, TypeOK
  <2>. QED
    BY <2>1, LedgerGrows
<1>2. ASSUME NEW r \in Rooms PROVE RoomIn(n, r) = RoomIn(log, r)
  <2>0. log \in Seq(Record)
    BY <1>1
  <2>1. IsRoom(log, r) /\ x.type # "room" /\ x.type # "member"
    BY RoomHere
  <2> HIDE DEF n
  <2>2. n = Append(log, x)
    BY DEF n
  <2>3. \A q : IsRoom(log, q) => RoomIn(n, q) = RoomIn(log, q)
    BY <2>0, <2>1, <2>2, RoomsStay
  <2>. QED
    BY <2>1, <2>3
<1> HIDE DEF n
<1>3. {i \in DOMAIN n : n[i].type = "room"} = {i \in DOMAIN log : log[i].type = "room"}
  BY <1>1
<1>4. {n[i].id : i \in {j \in DOMAIN n : n[j].type = "room"}} = Rooms
  <2>1. DOMAIN log = Positions
    BY <1>1 DEF Positions
  <2>. QED
    BY <1>1, <1>3, <2>1 DEF Rooms, Records
<1>5. {log[i].id : i \in {j \in DOMAIN log : log[j].type = "room"}} = Rooms
  <2>1. DOMAIN log = Positions
    BY <1>1 DEF Positions
  <2>. QED
    BY <2>1 DEF Rooms, Records
<1>6. ASSUME NEW r
      PROVE  (\E b \in DOMAIN n : Live(n, b) /\ n[b].who = Viewer /\ n[b].room \in {r, None}) <=>
             (\E b \in DOMAIN log :
                Live(log, b) /\ log[b].who = Viewer /\ log[b].room \in {r, None})
  <2>1. \A b : Live(n, b) <=> Live(log, b)
    BY <1>1 DEF Live, IsBinding
  <2>2. \A b : Live(log, b) => b \in DOMAIN log /\ b \in DOMAIN n /\ n[b] = log[b]
    BY <1>1 DEF Live, IsBinding
  <2>. QED
    BY <2>1, <2>2
<1>7. ReadableIn(n) = ReadableIn(log)
  <2> DEFINE Granted(l, r) ==
               \E b \in DOMAIN l : Live(l, b) /\ l[b].who = Viewer /\ l[b].room \in {r, None}
  <2>1. ReadableIn(n) = {r \in Rooms : RoomIn(n, r).public \/ Granted(n, r)}
    BY <1>4 DEF ReadableIn
  <2>2. ReadableIn(log) = {r \in Rooms : RoomIn(log, r).public \/ Granted(log, r)}
    BY <1>5 DEF ReadableIn
  <2>3. \A r : Granted(n, r) <=> Granted(log, r)
    BY <1>6
  <2> HIDE DEF Granted
  <2>. QED
    BY <1>2, <2>1, <2>2, <2>3
<1>. QED
  BY <1>7 DEF n

\* Where nobody founds, joins, leaves or rules a room while the script reads, and no two
\* calls are in progress at once, it gets all events there are.
THEOREM TalkIsDelivered ==
  ASSUME Ops \subseteq TalkOps \cap Serial, \A l \in Ledgers : SeqsApart(l)
  PROVE  ClientSpec => []FeedComplete
<1>1. LedgerInv /\ LedgerInv' /\ TalkInv /\ [Next]_commandVars => [Readable' \subseteq Readable]_log
  <2> SUFFICES ASSUME LedgerInv, LedgerInv', TalkInv, [Next]_commandVars, log' # log
               PROVE  Readable' = Readable
    OBVIOUS
  <2>1. PICK a \in Actors : AppendRecord(a)
    BY OnlyAppendsChange
  <2>2. PICK x \in Record : log' = Append(log, x) /\ x.type \notin {"room", "member", "grant"}
    BY <2>1, TalkAppended DEF TalkInv
  <2>. QED
    BY <2>2, ReadableStays, ReadableRead, ReadableReadNext
<1>2. Spec => []TalkInv
  BY TalkInvHolds
<1>3. ClientSpec /\ [][Readable' \subseteq Readable]_log => []FeedComplete
  BY FeedStaysComplete
<1>4. Spec => [][Readable' \subseteq Readable]_log
  BY <1>1, <1>2, LedgerInvHolds, PTL DEF Spec
<1>. QED
  BY <1>3, <1>4, ServiceGoesOn, PTL

=============================================================================
