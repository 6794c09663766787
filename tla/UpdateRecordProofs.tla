------------------------- MODULE UpdateRecordProofs -------------------------
(***************************************************************************)
(* The security record's properties for any set of values and any number   *)
(* of stores: the inductive invariant IInv, what follows from it, and that *)
(* the two copies implement AtomicRecord.                                  *)
(***************************************************************************)
EXTENDS UpdateRecord, TLAPS

(* While a store is at work, its own side holds nothing newer than the
   record before the one it replaces, then nothing, then the new record or
   a bad write of it. *)
OwnSide ==
    /\ pc = "erase" => \/ ~Valid(Side(seq))
                       \/ copy[Side(seq)].seq + 2 = seq
    /\ pc = "write" => ~Valid(Side(seq))
    /\ pc = "readback" => copy[Side(seq)] \in {Bad, [seq |-> seq, val |-> val]}

(* The previous record is intact through the read back too. *)
OtherSide ==
    pc \in {"erase", "write", "readback"} =>
        \/ /\ Valid(Other(Side(seq)))
           /\ copy[Other(Side(seq))].seq + 1 = seq
        \/ /\ seq = 1
           /\ ~Valid(Other(Side(seq)))

IInv == /\ TypeOK
        /\ CopiesConsecutive
        /\ StoredBeforeGoingOn
        /\ OwnSide
        /\ OtherSide

(* Parity: a sequence number's side, and the next one's. *)
LEMMA SideNat == \A n \in Nat : /\ Side(n) \in Sides
                                /\ Side(n + 1) = Other(Side(n))
  BY DEF Side, Sides, Other

(* The two sides of a pair of copies. *)
LEMMA OtherSides == \A s \in Sides : /\ Other(s) \in Sides
                                     /\ Other(s) # s
                                     /\ Other(Other(s)) = s
                                     /\ Sides = {s, Other(s)}
  BY DEF Sides, Other

(* A valid copy has a sequence number and a value. *)
LEMMA ValidCopy ==
  ASSUME TypeOK, NEW s \in Sides, Valid(s)
  PROVE  /\ copy[s] \in [seq : 0..MaxSeq, val : Value]
         /\ copy[s].seq \in Nat
         /\ copy[s].val \in Value
  BY MaxSeqAssumption DEF TypeOK, Valid, Copy

(* A record that was built is never the bad copy. *)
LEMMA NotBad == \A n \in Nat, v \in Value : [seq |-> n, val |-> v] # Bad
  BY BadAssumption

LEMMA InitIInv == Init => IInv
  BY MaxSeqAssumption DEF Init, IInv, TypeOK, CopiesConsecutive, StoredBeforeGoingOn,
     OwnSide, OtherSide, Valid, Sides, Copy, Blank

(* The winner is a valid copy when there is one. *)
LEMMA WinnerValid ==
  ASSUME TypeOK, ~Blank
  PROVE  Winner \in Sides /\ Valid(Winner)
  BY DEF Winner, Blank, Sides, Valid

LEMMA StepTypeOK ==
  ASSUME TypeOK, [Next]_vars
  PROVE  TypeOK'
<1> USE MaxSeqAssumption
<1>1. CASE Load
  <2>1. CASE ~Blank
    BY <1>1, <2>1, WinnerValid, ValidCopy DEF Load, TypeOK
  <2>2. CASE Blank
    BY <1>1, <2>2 DEF Load, TypeOK
  <2>3. QED BY <2>1, <2>2
<1>2. ASSUME NEW v \in Value, StoreBegin(v)
      PROVE  TypeOK'
  BY <1>2 DEF StoreBegin, TypeOK
<1>3. CASE Erase
  BY <1>3 DEF Erase, TypeOK, Copy
<1>4. CASE Write
  <2>1. PICK c \in {[seq |-> seq, val |-> val], Bad} :
             copy' = [copy EXCEPT ![Side(seq)] = c]
    BY <1>4 DEF Write
  <2>2. [seq |-> seq, val |-> val] \in [seq : 0..MaxSeq, val : Value]
    BY <1>4 DEF Write, TypeOK
  <2>3. c \in Copy
    BY <2>1, <2>2 DEF Copy
  <2>4. QED BY <1>4, <2>1, <2>3 DEF Write, TypeOK
<1>5. CASE ReadBack
  BY <1>5 DEF ReadBack, TypeOK
<1>6. CASE StoreFails
  BY <1>6 DEF StoreFails, TypeOK, Copy
<1>7. CASE PowerCut
  BY <1>7 DEF PowerCut, TypeOK, Copy
<1>8. CASE UNCHANGED vars
  BY <1>8 DEF vars, TypeOK
<1>9. QED BY <1>1, <1>2, <1>3, <1>4, <1>5, <1>6, <1>7, <1>8 DEF Next

-----------------------------------------------------------------------------
(* What each action does to the two copies, said without EXCEPT. *)
LEMMA Untouched ==
  ASSUME TypeOK, NEW c, NEW s \in Sides, copy' = [copy EXCEPT ![s] = c]
  PROVE  /\ copy'[s] = c
         /\ copy'[Other(s)] = copy[Other(s)]
  BY OtherSides DEF TypeOK

(* The side of the record in RAM. *)
LEMMA SeqSide ==
  ASSUME TypeOK
  PROVE  /\ seq \in Nat
         /\ Side(seq) \in Sides
         /\ Other(Side(seq)) \in Sides
         /\ Side(seq) = seq % 2
  BY SideNat, OtherSides, MaxSeqAssumption DEF TypeOK, Side

(* Storing's own and other side, when an erase, a write or its failure puts
   `c` on the own side: consecutive numbers are kept. *)
LEMMA ConsecutiveKept ==
  ASSUME IInv, TypeOK', NEW c \in {Bad, [seq |-> seq, val |-> val]},
         pc \in {"erase", "write"},
         copy' = [copy EXCEPT ![Side(seq)] = c]
  PROVE  CopiesConsecutive'
<1> DEFINE s == Side(seq)
           o == Other(Side(seq))
<1>1. /\ s \in Sides /\ o \in Sides /\ Sides = {s, o} /\ s # o /\ s = seq % 2 /\ seq \in Nat
  BY SeqSide, OtherSides DEF IInv
<1>2. copy'[s] = c /\ copy'[o] = copy[o]
  BY <1>1, Untouched DEF IInv
<1>3. copy[o] # Bad => copy[o].seq + 1 = seq /\ copy[o].seq \in Nat /\ copy[o].seq % 2 = o
  BY <1>1, ValidCopy DEF IInv, OtherSide, CopiesConsecutive, Valid
<1>4. c # Bad => c.seq = seq
  OBVIOUS
<1>5. QED BY <1>1, <1>2, <1>3, <1>4 DEF CopiesConsecutive, Valid, Sides

LEMMA StepCopiesConsecutive ==
  ASSUME IInv, TypeOK', [Next]_vars
  PROVE  CopiesConsecutive'
<1>1. CASE UNCHANGED copy
  BY <1>1 DEF IInv, CopiesConsecutive, Valid
<1>2. CASE Erase
  BY <1>2, ConsecutiveKept DEF Erase
<1>3. CASE Write
  BY <1>3, ConsecutiveKept DEF Write
<1>4. CASE StoreFails
  BY <1>1, <1>4, ConsecutiveKept DEF StoreFails
<1>5. CASE PowerCut
  BY <1>1, <1>5, ConsecutiveKept DEF PowerCut
<1>6. QED BY <1>1, <1>2, <1>3, <1>4, <1>5 DEF Next, vars, Load, StoreBegin, ReadBack

(* The winner, seen from either side: the side whose number is the higher
   of two consecutive ones, or the only valid one. *)
LEMMA WinnerIs ==
  ASSUME TypeOK, CopiesConsecutive, NEW s \in Sides, Valid(s),
         Valid(Other(s)) => copy[Other(s)].seq + 1 = copy[s].seq
  PROVE  Winner = s
<1>1. /\ copy[s].seq \in Nat
      /\ Valid(Other(s)) => copy[Other(s)].seq \in Nat
  BY ValidCopy, OtherSides
<1>2. QED BY <1>1, OtherSides DEF Winner, Sides, Other, Valid

LEMMA StepOwnSide ==
  ASSUME IInv, TypeOK', [Next]_vars
  PROVE  OwnSide'
<1> USE DEF IInv
<1>1. CASE Load
  BY <1>1 DEF Load, OwnSide
<1>2. ASSUME NEW v \in Value, StoreBegin(v)
      PROVE  OwnSide'
  <2>1. seq \in Nat /\ seq' = seq + 1 /\ copy' = copy /\ pc' = "erase" /\ pc = "loaded"
    BY <1>2, SeqSide DEF StoreBegin
  <2>2. Side(seq') = Other(Side(seq)) /\ Side(seq) \in Sides
    BY <2>1, SideNat
  <2>3. CASE Blank
    BY <2>1, <2>2, <2>3, OtherSides DEF OwnSide, Valid, Blank
  <2>4. CASE ~Blank
    <3>1. copy[Winner].seq = seq /\ Winner \in Sides /\ Valid(Winner)
      BY <2>1, <2>4, WinnerValid DEF StoredBeforeGoingOn
    <3>2. Winner = Side(seq)
      BY <3>1 DEF CopiesConsecutive, Side
    <3>3. CASE Valid(Other(Winner))
      <4>1. copy[Other(Winner)].seq \in Nat /\ copy[Winner].seq \in Nat
        BY <3>1, <3>3, ValidCopy, OtherSides
      <4>2. copy[Other(Winner)].seq + 1 = copy[Winner].seq
        BY <3>1, <3>3, <4>1 DEF CopiesConsecutive, Winner, Sides, Other, Valid
      <4>3. QED BY <2>1, <2>2, <3>1, <3>2, <4>1, <4>2 DEF OwnSide
    <3>4. QED BY <2>1, <2>2, <3>2, <3>3 DEF OwnSide, Valid
  <2>5. QED BY <2>3, <2>4
<1>3. CASE Erase
  BY <1>3, SeqSide, Untouched DEF Erase, OwnSide, Valid
<1>4. CASE Write
  BY <1>4, SeqSide, Untouched DEF Write, OwnSide, Valid
<1>5. CASE ReadBack
  BY <1>5 DEF ReadBack, OwnSide
<1>6. CASE StoreFails
  BY <1>6 DEF StoreFails, OwnSide
<1>7. CASE PowerCut
  BY <1>7 DEF PowerCut, OwnSide
<1>8. CASE UNCHANGED vars
  BY <1>8 DEF vars, OwnSide, Valid
<1>9. QED BY <1>1, <1>2, <1>3, <1>4, <1>5, <1>6, <1>7, <1>8 DEF Next

LEMMA StepOtherSide ==
  ASSUME IInv, TypeOK', [Next]_vars
  PROVE  OtherSide'
<1> USE DEF IInv
<1>1. CASE Load
  BY <1>1 DEF Load, OtherSide
<1>2. ASSUME NEW v \in Value, StoreBegin(v)
      PROVE  OtherSide'
  <2>1. seq \in Nat /\ seq' = seq + 1 /\ copy' = copy /\ pc = "loaded"
    BY <1>2, SeqSide DEF StoreBegin
  <2>2. Other(Side(seq')) = Side(seq) /\ Side(seq) \in Sides
    BY <2>1, SideNat, OtherSides
  <2>3. CASE Blank
    BY <2>1, <2>2, <2>3 DEF OtherSide, StoredBeforeGoingOn, Valid, Blank
  <2>4. CASE ~Blank
    <3>1. copy[Winner].seq = seq /\ Winner \in Sides /\ Valid(Winner)
      BY <2>1, <2>4, WinnerValid DEF StoredBeforeGoingOn
    <3>2. Winner = Side(seq)
      BY <3>1 DEF CopiesConsecutive, Side
    <3>3. QED BY <2>1, <2>2, <3>1, <3>2 DEF OtherSide, Valid
  <2>5. QED BY <2>3, <2>4
<1>3. CASE Erase
  BY <1>3, SeqSide, Untouched DEF Erase, OtherSide, Valid
<1>4. CASE Write
  BY <1>4, SeqSide, Untouched DEF Write, OtherSide, Valid
<1>5. CASE ReadBack
  BY <1>5 DEF ReadBack, OtherSide, Valid
<1>6. CASE StoreFails
  BY <1>6 DEF StoreFails, OtherSide
<1>7. CASE PowerCut
  BY <1>7 DEF PowerCut, OtherSide
<1>8. CASE UNCHANGED vars
  BY <1>8 DEF vars, OtherSide, Valid
<1>9. QED BY <1>1, <1>2, <1>3, <1>4, <1>5, <1>6, <1>7, <1>8 DEF Next

LEMMA StepStored ==
  ASSUME IInv, TypeOK', CopiesConsecutive', [Next]_vars
  PROVE  StoredBeforeGoingOn'
<1> USE DEF IInv
<1>1. CASE Load
  <2>1. CASE ~Blank
    <3>1. copy[Winner] = [seq |-> copy[Winner].seq, val |-> copy[Winner].val]
      BY <2>1, WinnerValid, ValidCopy
    <3>2. QED BY <1>1, <2>1, <3>1 DEF Load, StoredBeforeGoingOn, Blank, Winner, Valid
  <2>2. CASE Blank
    BY <1>1, <2>2 DEF Load, StoredBeforeGoingOn, Blank, Valid
  <2>3. QED BY <2>1, <2>2
<1>2. CASE ReadBack
  <2> DEFINE s == Side(seq)
  <2>1. CASE copy[s] = [seq |-> seq, val |-> val]
    <3>1. s \in Sides /\ Valid(s) /\ copy[s].seq = seq
      BY <1>2, <2>1, SeqSide, NotBad DEF ReadBack, TypeOK, Valid
    <3>2. Valid(Other(s)) => copy[Other(s)].seq + 1 = copy[s].seq
      BY <1>2, <3>1 DEF ReadBack, OtherSide
    <3>3. Winner = s /\ ~Blank
      BY <3>1, <3>2, WinnerIs DEF Blank
    <3>4. QED BY <1>2, <2>1, <3>3 DEF ReadBack, StoredBeforeGoingOn, Blank, Winner, Valid
  <2>2. QED BY <1>2, <2>1 DEF ReadBack, StoredBeforeGoingOn
<1>3. CASE UNCHANGED vars
  BY <1>3 DEF vars, StoredBeforeGoingOn, Blank, Winner, Valid
<1>4. QED BY <1>1, <1>2, <1>3 DEF Next, StoreBegin, Erase, Write, StoreFails, PowerCut,
     StoredBeforeGoingOn

LEMMA StepIInv == IInv /\ [Next]_vars => IInv'
  BY StepTypeOK, StepCopiesConsecutive, StepOwnSide, StepOtherSide, StepStored DEF IInv

(* The invariant holds at every step of every behaviour. *)
THEOREM RecordInvariant == Spec => []IInv
  BY InitIInv, StepIInv, PTL DEF Spec

(* The type invariant (update.c:122-160). *)
THEOREM RecordTypeOK == Spec => []TypeOK
<1>1. IInv => TypeOK
  BY DEF IInv
<1>2. QED BY RecordInvariant, <1>1, PTL

(* Two valid copies are always consecutive: the higher seq is the newer. *)
THEOREM RecordConsecutive == Spec => []CopiesConsecutive
<1>1. IInv => CopiesConsecutive
  BY DEF IInv
<1>2. QED BY RecordInvariant, <1>1, PTL

(* A caller goes on only with a record that flash holds. *)
THEOREM RecordStored == Spec => []StoredBeforeGoingOn
<1>1. IInv => StoredBeforeGoingOn
  BY DEF IInv
<1>2. QED BY RecordInvariant, <1>1, PTL

-----------------------------------------------------------------------------
LEMMA SurvivesIInv == IInv => PreviousSurvives
<1> SUFFICES ASSUME IInv, pc \in {"erase", "write"},
                    ~Valid(Other(Side(seq)))
             PROVE  seq = 1 /\ Blank
  BY DEF PreviousSurvives, IInv, OtherSide
<1>1. seq = 1 /\ Side(seq) \in Sides
  BY SeqSide DEF IInv, OtherSide
<1>2. ~Valid(Side(seq))
  BY <1>1, ValidCopy DEF IInv, OwnSide
<1>3. QED BY <1>1, <1>2, OtherSides DEF Blank

(* A store at work never has the only good copy under its hands. *)
THEOREM RecordSurvives == Spec => []PreviousSurvives
  BY RecordInvariant, SurvivesIInv, PTL

LEMMA StepNotBlank ==
  ASSUME IInv, IInv', [Next]_vars, ~Blank
  PROVE  ~Blank'
<1>1. CASE UNCHANGED copy
  BY <1>1 DEF Blank, Valid
<1>2. ASSUME NEW c, pc \in {"erase", "write"}, copy' = [copy EXCEPT ![Side(seq)] = c]
      PROVE  ~Blank'
  <2>1. Valid(Other(Side(seq)))
    BY <1>2, SurvivesIInv DEF PreviousSurvives
  <2>2. QED BY <1>2, <2>1, SeqSide, Untouched DEF Blank, Valid, IInv
<1>3. QED BY <1>1, <1>2 DEF Next, vars, Load, StoreBegin, Erase, Write, ReadBack, StoreFails, PowerCut

(* The board's record, and the device token in it, is never lost once made. *)
THEOREM RecordNeverBlankAgain == Spec => NeverBlankAgain
<1>1. IInv /\ IInv' /\ [Next]_vars => [~Blank => ~Blank']_vars
  BY StepNotBlank
<1>2. QED BY RecordInvariant, <1>1, PTL DEF Spec, NeverBlankAgain

-----------------------------------------------------------------------------
(* The refinement mapping. *)
Stored == IF Blank THEN NoValue ELSE copy[Winner].val
Wanted == IF Storing THEN val ELSE NoValue

(* Making the own side bad changes nothing that a load would see, unless it
   held the record just stored. *)
LEMMA StoredKept ==
  ASSUME IInv, IInv', pc \in {"erase", "write"},
         copy' = [copy EXCEPT ![Side(seq)] = Bad]
  PROVE  Stored' = Stored
<1> DEFINE s == Side(seq)
           o == Other(Side(seq))
<1>1. /\ s \in Sides /\ o \in Sides /\ o # s /\ Other(o) = s /\ Sides = {s, o} /\ seq \in Nat
  BY SeqSide, OtherSides DEF IInv
<1>2. copy'[s] = Bad /\ copy'[o] = copy[o]
  BY <1>1, Untouched DEF IInv
<1>3. CASE Valid(o)
  <2>1. Valid(s) => copy[s].seq + 1 = copy[o].seq
    <3>1. copy[o].seq + 1 = seq /\ copy[o].seq \in Nat /\ (Valid(s) => copy[s].seq \in Nat)
      BY <1>1, <1>3, ValidCopy DEF IInv, OtherSide
    <3>2. QED BY <3>1 DEF IInv, OwnSide
  <2>2. Winner = o /\ ~Blank
    BY <1>1, <1>3, <2>1, WinnerIs DEF IInv, Blank
  <2>3. Winner' = o /\ ~Blank'
    BY <1>1, <1>2, <1>3 DEF Winner, Blank, Valid, Sides
  <2>4. QED BY <1>2, <2>2, <2>3 DEF Stored
<1>4. CASE ~Valid(o)
  <2>1. Blank
    BY <1>4, SurvivesIInv DEF PreviousSurvives
  <2>2. Blank'
    BY <1>1, <1>2, <1>4 DEF Blank, Valid
  <2>3. QED BY <2>1, <2>2 DEF Stored
<1>5. QED BY <1>3, <1>4

(* The write puts the wanted record in place of the stored one. *)
LEMMA StoredNew ==
  ASSUME IInv, IInv', pc = "write",
         copy' = [copy EXCEPT ![Side(seq)] = [seq |-> seq, val |-> val]]
  PROVE  Stored' = val
<1> DEFINE s == Side(seq)
           o == Other(Side(seq))
<1>1. /\ s \in Sides /\ o \in Sides /\ o # s /\ Sides = {s, o} /\ seq \in Nat /\ val \in Value
  BY SeqSide, OtherSides DEF IInv, TypeOK
<1>2. copy'[s] = [seq |-> seq, val |-> val] /\ copy'[o] = copy[o]
  BY <1>1, Untouched DEF IInv
<1>3. copy'[s] # Bad /\ copy'[s].seq = seq /\ copy'[s].val = val
  BY <1>1, <1>2, NotBad
<1>4. copy[o] # Bad => copy[o].seq + 1 = seq /\ copy[o].seq \in Nat
  BY <1>1, ValidCopy DEF IInv, OtherSide, Valid
<1>5. Winner' = s /\ ~Blank'
  BY <1>1, <1>2, <1>3, <1>4 DEF Winner, Blank, Valid, Sides
<1>6. QED BY <1>3, <1>5 DEF Stored

LEMMA StepAtomic ==
  ASSUME IInv, IInv', [Next]_vars
  PROVE  \/ \E v \in Value : Wanted = NoValue /\ Wanted' = v /\ Stored' = Stored
         \/ Wanted # NoValue /\ Stored' = Wanted /\ Wanted' = Wanted
         \/ Wanted' = NoValue /\ Stored' = Stored
         \/ Wanted' = Wanted /\ Stored' = Stored
<1> USE DEF Storing
<1>0. ASSUME UNCHANGED copy PROVE Stored' = Stored
  BY <1>0 DEF Stored, Blank, Winner, Valid
<1>1. CASE Load
  BY <1>0, <1>1 DEF Load, Wanted
<1>2. ASSUME NEW v \in Value, StoreBegin(v)
      PROVE  Wanted = NoValue /\ Wanted' = v /\ Stored' = Stored
  BY <1>0, <1>2 DEF StoreBegin, Wanted
<1>3. CASE Erase
  BY <1>3, StoredKept DEF Erase, Wanted
<1>4. CASE Write
  <2>1. PICK c \in {[seq |-> seq, val |-> val], Bad} :
             copy' = [copy EXCEPT ![Side(seq)] = c]
    BY <1>4 DEF Write
  <2>2. Wanted = val /\ Wanted' = val /\ val \in Value
    BY <1>4 DEF Write, Wanted, IInv, TypeOK
  <2>3. CASE c = Bad
    BY <1>4, <2>1, <2>2, <2>3, StoredKept DEF Write
  <2>4. CASE c = [seq |-> seq, val |-> val]
    BY <1>4, <2>1, <2>2, <2>4, StoredNew, NoValueAssumption DEF Write
  <2>5. QED BY <2>1, <2>3, <2>4
<1>5. CASE ReadBack
  BY <1>0, <1>5 DEF ReadBack, Wanted
<1>6. CASE StoreFails
  BY <1>0, <1>6, StoredKept DEF StoreFails, Wanted
<1>7. CASE PowerCut
  BY <1>0, <1>7, StoredKept DEF PowerCut, Wanted
<1>8. CASE UNCHANGED vars
  BY <1>0, <1>8 DEF vars, Wanted
<1>9. QED BY <1>1, <1>2, <1>3, <1>4, <1>5, <1>6, <1>7, <1>8 DEF Next

(* Two copies, each of which a power cut can tear, are one atomic record. *)
THEOREM RecordIsAtomic == Spec => Atomic
<1>1. Init => Abstract!Init
  BY DEF Init, Abstract!Init, Blank, Valid, Storing
<1>2. IInv /\ IInv' /\ [Next]_vars => [Abstract!Next]_(Abstract!vars)
  BY StepAtomic DEF Stored, Wanted, Abstract!Next, Abstract!Request, Abstract!Commit,
     Abstract!Finish, Abstract!vars
<1>3. QED BY RecordInvariant, <1>1, <1>2, PTL DEF Spec, Atomic, Abstract!Spec
=============================================================================
