--------------------------- MODULE MCSessionIngress ---------------------------
(* Two answers to one confirmation request, one answer to a custom-tool       *)
(* request, and a plain message.                                              *)
EXTENDS SessionIngress, TLC
CONSTANTS c1, c2, c3, msg, yes, no, result, confirm1, custom1
MCEvents == {msg, yes, no, result}
MCAnswers == {yes, no, result}
MCRequestOf == (yes :> confirm1) @@ (no :> confirm1) @@ (result :> custom1)
MCRequests == {confirm1, custom1}
MCCustom == {custom1}
MCTrio == {c1, c2, c3}
Callers == Permutations(MCTrio)
=============================================================================
