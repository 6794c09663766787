--------------------------- MODULE MCUpdateRecord ---------------------------
(* UpdateRecord for TLC: three values of the record, six stores. *)
EXTENDS UpdateRecord
=============================================================================
