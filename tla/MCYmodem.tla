------------------------------ MODULE MCYmodem ------------------------------
(* A package of three blocks of two packets; packet numbers wrap at four. *)
EXTENDS Ymodem

=============================================================================
