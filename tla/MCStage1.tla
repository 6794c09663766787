------------------------------ MODULE MCStage1 ------------------------------
(* A board with image 1, update.lfu version 2 and packages of version 3. *)
EXTENDS Stage1

=============================================================================
