---------------------------- MODULE AtomicRecord ----------------------------
(***************************************************************************)
(* What the callers of src/src/update.c expect of the security record: one *)
(* value that a store replaces in a single step, or, when the power goes   *)
(* first, not at all.  UpdateRecord shows that the two copies in flash     *)
(* implement it; Update stores the record this way.                        *)
(***************************************************************************)
CONSTANTS Value,    \* the contents a record can have
          NoValue   \* the blank record: no valid copy (not in Value)

VARIABLES stored,   \* what a load returns
          wanted    \* the contents of the store under way, or NoValue

vars == <<stored, wanted>>

Init == stored = NoValue /\ wanted = NoValue

(* A caller asks for a store. *)
Request(v) == wanted = NoValue /\ wanted' = v /\ UNCHANGED stored

(* The store takes effect, at one instant. *)
Commit == wanted # NoValue /\ stored' = wanted /\ UNCHANGED wanted

(* The store is over: done, failed, or cut short by a reset. *)
Finish == wanted' = NoValue /\ UNCHANGED stored

Next == (\E v \in Value : Request(v)) \/ Commit \/ Finish

Spec == Init /\ [][Next]_vars
=============================================================================
