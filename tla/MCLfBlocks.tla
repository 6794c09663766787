----------------------------- MODULE MCLfBlocks -----------------------------
(* Two buffers, as both targets have, and two areas of a program's own. *)
EXTENDS LfBlocks

=============================================================================
