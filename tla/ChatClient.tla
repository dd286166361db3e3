----------------------------- MODULE ChatClient -----------------------------
(***************************************************************************)
(* Readers that keep up with the ledger by its events: the desktop client, *)
(* which polls for news and then loads everything again, and a script that *)
(* pages through the events of `openboa chat events poll`.  The commands   *)
(* of Chat go on meanwhile.                                                *)
(***************************************************************************)
EXTENDS Chat

CONSTANTS
  Viewer,   \* the participant the readers read for
  Limit,    \* events per page
  MaxLines  \* bound on the ledger lines CaughtUp speaks of

ASSUME ClientAssumption == Viewer \in People /\ Limit \in Nat \ {0} /\ MaxLines \in Nat

VARIABLES
  client,  \* the desktop client: what it does, its watermark, the lines its transcript shows
  feed     \* the script: the sequence it asks for news after, and the events it got

vars == <<commandVars, client, feed>>

ClientInit ==
  /\ Init
  /\ client = [phase |-> "ready", watermark |-> 0, loaded |-> 0, shown |-> 0]
  /\ feed = [after |-> 0, got |-> {}]

Readable == {r \in Rooms : May(Viewer, "room.read", Room(r))}

RoomOf(i) == IF log[i].type = "room" THEN log[i].id ELSE log[i].room

\* readChatEvents: what carries a conversation id; edits, redactions and reactions
\* do not
Events(after) ==
  LET readable == Readable
  IN  {i \in Positions :
         /\ log[i].seq > after
         /\ log[i].type \in {"room", "member", "grant", "message", "cursor", "follow"}
         /\ RoomOf(i) \in readable}

Page(after) ==
  LET news == Events(after)
  IN  {i \in news : Cardinality({j \in news : Before(j, i)}) < Limit}

LatestSequence == NextSeq - 1

-----------------------------------------------------------------------------
\* The desktop client

\* every two seconds while nothing is in flight
Poll ==
  /\ client.phase = "ready" /\ Page(client.watermark) # {}
  /\ client' = [client EXCEPT !.phase = "loading"]
  /\ UNCHANGED feed

\* after a command of its own; also what brings a failed client back
Reload ==
  /\ client.phase \in {"ready", "failed"}
  /\ client' = [client EXCEPT !.phase = "loading"]
  /\ UNCHANGED feed

\* the seed is loaded in two rounds: the events, whose last becomes the watermark ...
LoadEvents ==
  /\ client.phase = "loading"
  /\ client' = [client EXCEPT !.phase = "items", !.loaded = LatestSequence]
  /\ UNCHANGED feed

\* MUTANT of LoadItems: the conversations were loaded in the first round, the events
\* in the second (here a line's sequence is its number)
LoadItemsFirst ==
  /\ client.phase = "items"
  /\ client' = [client EXCEPT !.phase = "ready", !.watermark = LatestSequence,
                              !.shown = client.loaded]
  /\ UNCHANGED feed

\* ... then the conversations with their messages
LoadItems ==
  /\ client.phase = "items"
  /\ client' = [client EXCEPT !.phase = "ready", !.watermark = client.loaded,
                              !.shown = Len(log)]
  /\ UNCHANGED feed

\* a failed load stops the polling
LoadFails ==
  /\ client.phase \in {"loading", "items"}
  /\ client' = [client EXCEPT !.phase = "failed"]
  /\ UNCHANGED feed

-----------------------------------------------------------------------------
\* The script

\* MUTANT of FeedNext: the next page starts after the latest event, not the last sent
FeedNextLatest(page) == LatestSequence

FeedNext(page) == IF page = {} THEN feed.after ELSE log[LastOf(page)].seq

FeedPoll ==
  LET page == Page(feed.after) IN
  /\ page # {}
  /\ feed' = [after |-> FeedNext(page), got |-> feed.got \cup page]
  /\ UNCHANGED client

Commands == Next /\ UNCHANGED <<client, feed>>

Readers == Poll \/ Reload \/ LoadEvents \/ LoadItems \/ LoadFails \/ FeedPoll

ClientNext == Commands \/ (Readers /\ UNCHANGED commandVars)

\* the interval timer and the loads it starts
Polling ==
  /\ WF_vars(Poll /\ UNCHANGED commandVars)
  /\ WF_vars(LoadEvents /\ UNCHANGED commandVars)
  /\ WF_vars(LoadItems /\ UNCHANGED commandVars)

ClientSpec == ClientInit /\ [][ClientNext]_vars /\ Polling

-----------------------------------------------------------------------------

ClientTypeOK ==
  /\ TypeOK
  /\ client \in [phase : {"ready", "loading", "items", "failed"},
                 watermark : Nat, loaded : Nat, shown : 0..Len(log)]
  /\ feed.after \in Nat /\ feed.got \subseteq Positions

\* Whoever pages through the events with the sequence of the last one gets them all.
\* Writers that overlap may use one sequence twice, so this needs them not to.
FeedComplete ==
  \A i \in Events(0) : log[i].seq <= feed.after => i \in feed.got

\* A message anyone posts is shown by an open client in the end, unless a load
\* fails, however the post falls between the rounds of a load.
CaughtUp ==
  \A n \in 1..MaxLines :
    (n \in Messages) ~> (client.shown >= n \/ client.phase = "failed")
=============================================================================
