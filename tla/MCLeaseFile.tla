---------------------------- MODULE MCLeaseFile ----------------------------
(* Two processes on the same scheduler cycle pass the same owner name; the  *)
(* third attempt is a session loop with a name of its own.                  *)
EXTENDS LeaseFile
CONSTANTS a1, a2, a3, s1
MCAttempts == {a1, a2, a3}
MCSweepers == {s1}
MCOwners == {"cycle", "loop"}
MCOwnerOf == [p \in Attempts |-> IF p = a3 THEN "loop" ELSE "cycle"]
=============================================================================
