------------------------------ MODULE MCShell -------------------------------
\* Four overlapping calls: two commands, one that opens or closes, one beside.
EXTENDS Shell, TLC
CONSTANTS c1, c2, c3, c4
McOp(name) == [name |-> name, restart |-> FALSE]
McRestart(name) == [name |-> name, restart |-> TRUE]
McOps ==
  (c1 :> {McOp("exec")}) @@ (c2 :> {McOp("exec"), McRestart("exec")})
    @@ (c3 :> {McRestart("open"), McOp("close")})
    @@ (c4 :> {McOp("wait"), McOp("write")})
=============================================================================
