------------------------------- MODULE MCCdcTx -------------------------------
(* A ring of two packets whose indices wrap after two turns. *)
EXTENDS CdcTx
=============================================================================
