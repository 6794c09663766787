------------------------------- MODULE MCCdcRx -------------------------------
(* Rings and slots small enough to fill and to wrap. *)
EXTENDS CdcRx
=============================================================================
