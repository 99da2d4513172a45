--------------------------- MODULE MCContextNode ----------------------------
(* Small instances of ContextNode. *)
EXTENDS ContextNode

\* The usual directory, then one thing different at a time, and what init finds at boot.
Usual == [isDir |-> TRUE, info |-> "good", specs |-> TRUE, serial |-> "good",
          area |-> [n \in Nodes |-> "good"]]
Empty == [Usual EXCEPT !.serial = "absent", !.area = [n \in Nodes |-> "absent"]]
MCFileSystems ==
    {Usual, Empty}
      \cup {[Usual EXCEPT !.area = [n \in Nodes |-> "bad"]], [Usual EXCEPT !.info = "bad"],
            [Usual EXCEPT !.info = "absent", !.specs = FALSE],
            [Usual EXCEPT !.info = "absent"],
            [Usual EXCEPT !.isDir = FALSE, !.area = [n \in Nodes |-> "absent"]],
            [Empty EXCEPT !.serial = "bad"], [Empty EXCEPT !.serial = "denied"],
            [Empty EXCEPT !.info = "absent"]}
=============================================================================
