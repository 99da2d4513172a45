----------------------------- MODULE MCPropInfo -----------------------------
(* Small instances of PropInfo: a one and a two character value. *)
EXTENDS PropInfo

MCValues == {<<"a">>, <<"b", "c">>}
MCChars == {"a", "b", "c"}
=============================================================================
