--------------------------- MODULE MCUpdateSmall ----------------------------
(* Two packages of level 2, two blocks each: for runs with faults. *)
EXTENDS Update
CONSTANTS f, a, b
p1 == [img |-> a, ver |-> 1, min |-> 1, len |-> 2, app |-> TRUE]
p2 == [img |-> b, ver |-> 2, min |-> 2, len |-> 2, app |-> TRUE]
MCPackages == {p1, p2}
MCImages == {f, a, b}
=============================================================================
