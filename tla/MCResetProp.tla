---------------------------- MODULE MCResetProp ----------------------------
(* Two processes, a read-only property next to the protocol version, two     *)
(* persistent ones; one value is too long for a property that may change.    *)
EXTENDS ResetProp

MCTruncated == [v \in {"on", "off", "long"} |-> IF v = "long" THEN "on" ELSE v]
MCArea(ver, ro, a) == [n \in {"ver", "ro", "a", "b"} |->
    CASE n = "ver" -> ver [] n = "ro" -> ro [] n = "a" -> a [] OTHER -> Absent]
MCAreas == {MCArea(ver, "off", "off") : ver \in {"on", Absent}}
MCStores == {MCArea(Absent, Absent, "long") , [MCArea(Absent, Absent, "off") EXCEPT !["b"] = "on"]}
MCCommandLines == {<<"ro", "on">>, <<"-n", "ro", "on">>, <<"ro", "long">>, <<"--n", "a", "long">>, <<"-v", "b", "on">>,
    <<"-np", "b", "off">>, <<"ro">>, <<"-p", "b">>, <<"b">>, <<"-p">>, <<"-p", "--delete", "a">>,
    <<"-p", "--delete", "b">>, <<"--delete", "ro">>, <<"-p", "--delete", "ver">>, <<"--delete", "b">>,
    <<"--file", "f">>, <<"-x">>, <<".", "on">>}
MCFileLines == <<[kind |-> "comment"], [kind |-> "set", name |-> "ver", value |-> "on"],
                 [kind |-> "set", name |-> ".", value |-> "on"], [kind |-> "set", name |-> "ro", value |-> "on"]>>
=============================================================================
