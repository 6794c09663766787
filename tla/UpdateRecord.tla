---------------------------- MODULE UpdateRecord ----------------------------
(***************************************************************************)
(* The security record of src/src/update.c, kept twice in flash: A holds   *)
(* the even sequence numbers, B the odd ones.  upd_record_load takes the   *)
(* valid copy with the higher number, record_store erases and writes the   *)
(* other one and reads it back.  The power can go at any step; an erase or *)
(* a write it cuts leaves a copy whose hash fails.                         *)
(***************************************************************************)
EXTENDS Naturals

CONSTANTS Value,    \* a record's contents (everything but seq and hash)
          NoValue,  \* no record loaded, or nothing being stored
          Bad,      \* a copy that record_valid refuses: erased or torn
          MaxSeq    \* bound: stores in a behaviour (the flash wears out long
                    \* before uint32_t seq wraps)

ASSUME NoValueAssumption == NoValue \notin Value
ASSUME MaxSeqAssumption == MaxSeq \in Nat

VARIABLES copy,     \* the two copies, 0 at UPD_RECORD_A, 1 at UPD_RECORD_B
          seq, val, \* the record in RAM
          pc        \* where the program is

vars == <<copy, seq, val, pc>>

Sides == {0, 1}
Copy == [seq : 0..MaxSeq, val : Value] \cup {Bad}
ASSUME BadAssumption == Bad \notin [seq : Nat, val : Value]

Valid(s) == copy[s] # Bad
Side(n) == n % 2
Other(s) == 1 - s

(* Which copy upd_record_load returns, if either is valid.  (Mutant: the
   older of two valid copies.) *)
WinnerOlder == IF Valid(0) /\ (~Valid(1) \/ copy[0].seq <= copy[1].seq) THEN 0 ELSE 1
Winner == IF Valid(0) /\ (~Valid(1) \/ copy[0].seq >= copy[1].seq) THEN 0 ELSE 1
Blank == \A s \in Sides : ~Valid(s)

Init == /\ copy = [s \in Sides |-> Bad]
        /\ seq = 0
        /\ val = NoValue
        /\ pc = "off"

-----------------------------------------------------------------------------
(* Mutant: a blank record isn't made anew before it is used. *)
LoadBlank == /\ pc = "off"
             /\ seq' = IF Blank THEN 0 ELSE copy[Winner].seq
             /\ val' = IF Blank THEN NoValue ELSE copy[Winner].val
             /\ pc' = "loaded"
             /\ UNCHANGED copy

(* Reading both copies at boot.  Both bad: upd_boot makes a new record. *)
Load == /\ pc = "off"
        /\ \/ /\ ~Blank
              /\ seq' = copy[Winner].seq
              /\ val' = copy[Winner].val
           \/ /\ Blank
              /\ seq' = 0
              /\ val' \in Value
        /\ pc' = "loaded"
        /\ UNCHANGED copy

(* record_store, up to the erase: the next sequence number, the new contents *)
StoreBegin(v) == /\ pc = "loaded"
                 /\ seq < MaxSeq
                 /\ seq' = seq + 1
                 /\ val' = v
                 /\ pc' = "erase"
                 /\ UNCHANGED copy

Erase == /\ pc = "erase"
         /\ copy' = [copy EXCEPT ![Side(seq)] = Bad]
         /\ pc' = "write"
         /\ UNCHANGED <<seq, val>>

(* The flash may also take the write and hold something else. *)
Write == /\ pc = "write"
         /\ \E c \in {[seq |-> seq, val |-> val], Bad} :
                copy' = [copy EXCEPT ![Side(seq)] = c]
         /\ pc' = "readback"
         /\ UNCHANGED <<seq, val>>

(* The read back compares: the caller goes on only with a stored record. *)
ReadBack == /\ pc = "readback"
            /\ pc' = IF copy[Side(seq)] = [seq |-> seq, val |-> val]
                       THEN "loaded" ELSE "failed"
            /\ UNCHANGED <<copy, seq, val>>

(* Mutant: a caller that goes on after a failed store. *)
StoreFailsIgnored == /\ pc \in {"erase", "write"}
                     /\ pc' = "loaded"
                     /\ \/ copy' = [copy EXCEPT ![Side(seq)] = Bad]
                        \/ UNCHANGED copy
                     /\ UNCHANGED <<seq, val>>

(* The flash refuses the erase or the write: the store returns an error, and
   so does every caller. *)
StoreFails == /\ pc \in {"erase", "write"}
              /\ pc' = "failed"
              /\ \/ copy' = [copy EXCEPT ![Side(seq)] = Bad]
                 \/ UNCHANGED copy
              /\ UNCHANGED <<seq, val>>

(* A reset or a power cut: RAM is lost, an erase or write under way is torn. *)
PowerCut == /\ pc # "off"
            /\ pc' = "off"
            /\ seq' = 0
            /\ val' = NoValue
            /\ \/ UNCHANGED copy
               \/ /\ pc \in {"erase", "write"}
                  /\ copy' = [copy EXCEPT ![Side(seq)] = Bad]

Next == \/ Load
        \/ \E v \in Value : StoreBegin(v)
        \/ Erase \/ Write \/ ReadBack \/ StoreFails
        \/ PowerCut

Spec == Init /\ [][Next]_vars

-----------------------------------------------------------------------------
Storing == pc \in {"erase", "write", "readback"}

TypeOK == /\ copy \in [Sides -> Copy]
          /\ seq \in 0..MaxSeq
          /\ val \in Value \cup {NoValue}
          /\ pc \in {"off", "loaded", "erase", "write", "readback", "failed"}
          /\ pc # "off" => val \in Value

(* A copy's sequence number is of its side's parity, and two valid copies
   are consecutive, so "the higher seq" is never a tie and never a guess
   (update.c:135).  Failed and torn stores must not leave a gap. *)
CopiesConsecutive ==
    /\ \A s \in Sides : Valid(s) => copy[s].seq % 2 = s
    /\ Valid(0) /\ Valid(1) => copy[0].seq = copy[1].seq + 1 \/ copy[1].seq = copy[0].seq + 1

(* While a store erases and writes its side, the other side is the record it
   replaces, intact, unless this is the board's first store. *)
PreviousSurvives ==
    pc \in {"erase", "write"} =>
        \/ /\ Valid(Other(Side(seq)))
           /\ copy[Other(Side(seq))].seq + 1 = seq
        \/ seq = 1 /\ Blank

(* A caller goes on only when flash holds the record it has in RAM
   (update.c:152-159): every later decision may rest on it. *)
StoredBeforeGoingOn ==
    pc = "loaded" => IF Blank THEN seq = 0 ELSE copy[Winner] = [seq |-> seq, val |-> val]

(* Once stored, a record is never lost: the device token is in it, and a
   blank pair would make a new one (update.c:691-698). *)
NeverBlankAgain == [][~Blank => ~Blank']_vars

(* The two copies implement the atomic record: what a load returns changes
   in one step, from the old record to the one being stored. *)
Abstract == INSTANCE AtomicRecord
    WITH stored <- IF Blank THEN NoValue ELSE copy[Winner].val,
         wanted <- IF Storing THEN val ELSE NoValue
Atomic == Abstract!Spec
=============================================================================
