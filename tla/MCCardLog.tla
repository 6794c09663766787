----------------------------- MODULE MCCardLog -----------------------------
(* Logs of four blocks in two clusters, over a bitmap sector's edge; each
   directory sector has room for one file and a mark. *)
EXTENDS CardLog

=============================================================================
