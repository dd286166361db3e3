----------------------------- MODULE MCScheduler ----------------------------
\* Instances of Scheduler for TLC.
EXTENDS Scheduler, TLC

CONSTANTS s1, s2, l1, l2

McRank == (s1 :> 1) @@ (s2 :> 2)
\* s1 is never quiet, and the wakes of s2 come last
McUrgency == (s1 :> 2) @@ (s2 :> 1)
McArrivals == (s1 :> {"event"}) @@ (s2 :> {"due", "later"})
\* one loop watches for ever, another is of any kind
McModes == (l1 :> {"watch"}) @@ (l2 :> {"limited", "drain"})
=============================================================================
