-------------------------------- MODULE Lease --------------------------------
(***************************************************************************)
(* What a lease of the session store promises its callers                  *)
(* (acquireWakeLease and SessionWakeLease,                                 *)
(* src/src/agents/sessions/session-store.ts), without saying how: one      *)
(* caller has it, and it is not given on before that caller has stopped    *)
(* working under it, by giving it back or by dying.                        *)
(*                                                                         *)
(* LeaseFile implements it with files; ActivationRuntime and Scheduler take  *)
(* it as given.                                                            *)
(***************************************************************************)
CONSTANTS Callers, None

VARIABLES
  owner,    \* the caller that has the lease, or None
  working   \* the callers that work under it

leaseVars == <<owner, working>>

Init == owner = None /\ working = {}

Acquire(c) == owner = None /\ owner' = c /\ working' = working \cup {c}

\* the caller's work is over, or the caller is
Stop(c) == c \in working /\ working' = working \ {c} /\ owner' = owner

\* released, or taken away from one that died
End == owner \notin working /\ owner' = None /\ working' = working

Next == (\E c \in Callers : Acquire(c) \/ Stop(c)) \/ End
Spec == Init /\ [][Next]_leaseVars

\* Only the owner works: what every user of a wake lease counts on.
OwnerWorks == working \subseteq {owner} \ {None}
=============================================================================
