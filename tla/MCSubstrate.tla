---------------------------- MODULE MCSubstrate -----------------------------
\* Instances of Substrate for TLC.
EXTENDS Substrate, TLC

CONSTANTS s1, s2, f1, c1, c2

\* s1 edits its draft and its calls may be denied; s2 has no draft until it stages
\* one, its requests may be withdrawn and its process may die
McUses == (s1 :> {"edit", "deny"}) @@ (s2 :> {"stage", "interrupt", "die"})
McDrafts == (s1 :> (f1 :> c1)) @@ (s2 :> (f1 :> NoFile))
=============================================================================
