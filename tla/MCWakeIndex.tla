----------------------------- MODULE MCWakeIndex -----------------------------
\* Two workers, each with a session of its own
EXTENDS WakeIndex
CONSTANTS s1, s2
MCPair == {s1, s2}
MCDues == {1, 2}
=============================================================================
