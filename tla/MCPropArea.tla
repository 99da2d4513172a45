----------------------------- MODULE MCPropArea -----------------------------
(* Small instances of PropArea, with the sizes of the 32 bit structures. *)
EXTENDS PropArea

\* Tokens "a", "b", "ab" and the empty one of a name like "b.".
A == [len |-> 1, rank |-> 1]
B == [len |-> 1, rank |-> 2]
AB == [len |-> 2, rank |-> 1]
Empty == [len |-> 0, rank |-> 0]

MCNames == {<<A>>, <<AB>>, <<A, B>>, <<B, Empty>>}
MCValues == {[len |-> 5, id |-> "short"], [len |-> 95, id |-> "long"]}
=============================================================================
