----------------------------- MODULE PropertyMap -----------------------------
(***************************************************************************)
(* What a property area promises: a map from names to values.  add() binds  *)
(* a name that is unbound, del() unbinds one, and a find() returns what     *)
(* its name is bound to at one moment between its call and its return.      *)
(*                                                                         *)
(* The one exception is part of the promise as the code keeps it: a find()  *)
(* that overlaps a del() of the same name may return Garbage.               *)
(***************************************************************************)
CONSTANTS Readers, Names, Values, Unbound, Garbage, NoName

VARIABLES
    map,      \* Names -> Values \cup {Unbound}
    finder    \* per reader: the name looked up, the result, whether a del() met it

vars == <<map, finder>>

Init ==
    /\ map = [n \in Names |-> Unbound]
    /\ finder = [r \in Readers |-> [name |-> NoName, res |-> Unbound, met |-> FALSE]]

Add(n, v) ==
    /\ map[n] = Unbound
    /\ map' = [map EXCEPT ![n] = v]
    /\ UNCHANGED finder

Del(n) ==
    /\ map' = [map EXCEPT ![n] = Unbound]
    /\ finder' = [r \in Readers |->
                    IF finder[r].name = n THEN [finder[r] EXCEPT !.met = TRUE] ELSE finder[r]]

FindBegin(r) ==
    /\ finder[r].name = NoName
    /\ \E n \in Names :
         finder' = [finder EXCEPT ![r] = [name |-> n, res |-> Unbound, met |-> FALSE]]
    /\ UNCHANGED map

FindEnd(r) ==
    /\ finder[r].name # NoName
    /\ \E v \in {map[finder[r].name]} \cup IF finder[r].met THEN {Garbage} ELSE {} :
         finder' = [finder EXCEPT ![r] = [name |-> NoName, res |-> v, met |-> FALSE]]
    /\ UNCHANGED map

Next ==
    \/ \E n \in Names : Del(n) \/ \E v \in Values : Add(n, v)
    \/ \E r \in Readers : FindBegin(r) \/ FindEnd(r)

Spec == Init /\ [][Next]_vars
=============================================================================
