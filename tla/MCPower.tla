------------------------------ MODULE MCPower ------------------------------
(* Small instances of Power. *)
EXTENDS Power

\* Three groups: the two clusters and one more.  SCREEN_OFF has no settings for
\* the second cluster, so the groups of two profiles differ.
MCSections == [p \in Profiles |-> IF p = "SCREEN_OFF" THEN {1, 3} ELSE {1, 2, 3}]
=============================================================================
