------------------------- MODULE MCActivationRuntime -------------------------
(* One session, one process that emits events, one or two orchestrators.     *)
EXTENDS ActivationRuntime, TLC
CONSTANTS u, a, b, msg, more, stop, yes, result, confirm1, custom1,
          w1, w2, w3, revisit, check, revisitKey, retryKey
One == {a}
Two == {a, b}
OneClients == {a, u}
TwoClients == {a, b, u}
Plain == {msg, more}
Single == {msg}
Asking == {msg, yes, result, stop}
Answers2 == {yes, result}
AnswerOf2 == (yes :> confirm1) @@ (result :> custom1)
Requests2 == {confirm1, custom1}
Calling == {msg, more, result}
Stop == {stop}
Result == {result}
ResultOf == result :> custom1
NoneOf == [e \in {} |-> None]
Customs == {custom1}
TwoWakes == {w1, w2}
ThreeWakes == {w1, w2, w3}
Revisit == {revisit}
Both == {revisit, check}
MCKeys == {revisitKey, retryKey}
MCKeyOf == (revisit :> revisitKey) @@ (check :> NoKey)
MCRetryKeyOf == (revisit :> retryKey) @@ (check :> retryKey)
RevisitKeyOf == revisit :> revisitKey
RevisitRetryKeyOf == revisit :> retryKey
NotFinishing == Places \ {"look", "finish"}
IdsAndWorkers3 == Permutations(ThreeWakes) \cup Permutations(Two)
IdsAndWorkers == Permutations(TwoWakes) \cup Permutations(Two)
=============================================================================
