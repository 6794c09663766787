--------------------------- MODULE MCUpdateLevel0 ---------------------------
(* Development boards: a V5F package, and an app package the backup file has
   no room for once installed. *)
EXTENDS Update
CONSTANTS f, a, b
p1 == [img |-> a, ver |-> 1, min |-> 0, len |-> 1, app |-> FALSE]
p2 == [img |-> b, ver |-> 2, min |-> 1, len |-> 2, app |-> TRUE]
MCPackages == {p1, p2}
MCImages == {f, a, b}
=============================================================================
