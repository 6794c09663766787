---------------------------- MODULE UpdateProofs ----------------------------
(***************************************************************************)
(* For every board, package set, fault and cut.  First the types of        *)
(* Update, that the minimum version only rises and the record is never     *)
(* lost, and that on a board without adopt_blank the record never vouches  *)
(* for an image below the minimum.  Then what the trial count bounds, what *)
(* a board of level 2 starts and keeps as a backup, that a rollback is     *)
(* exact, and that without faults no boot's check fails and a rollback     *)
(* stays possible.  Each invariant rests on the ones before it.            *)
(***************************************************************************)
EXTENDS Update, TLAPS

(* While stage 1 works, the record in RAM has the minimum of the one in flash,
   and there is one in flash unless the store of the first one failed. *)
Agree == pc \in Awake => IF rec = NoRecord THEN pc = "error" ELSE r.min = rec.min

(* The states of record q that step p works in; a restore is under way only
   to an image that is not below the minimum. *)
Fits(q, p) ==
    /\ p \in {"backup", "kept"} => q.state = "BACKING_UP"
    /\ p \in {"install", "program", "header", "installed"} => q.state = "INSTALLING"
    /\ p = "trial" => q.state = "TRIAL"
    /\ p \in {"rollback", "restore", "restored"} => q.state = "ROLLING_BACK"
    /\ p = "progress" => q.state \in {"INSTALLING", "ROLLING_BACK"}
    /\ \/ p \in {"restore", "restored"}
       \/ p = "progress" /\ q.state = "ROLLING_BACK"
       => q.bver >= q.min

(* A record that never leads below its minimum. *)
AboveMinimum(q) ==
    /\ q.len # 0 => q.ver >= q.min
    /\ q.state \in {"BACKING_UP", "INSTALLING"} => q.pkg \in Packages /\ q.pkg.ver >= q.min
    /\ q.state = "TRIAL" => q.pkg \in Packages /\ q.ver = q.pkg.ver
Acceptable(q) == ~AdoptBlank => AboveMinimum(q)

UpdateInv ==
    /\ TypeOK
    /\ Agree
    /\ pc \in Awake => Fits(r, pc) /\ Acceptable(r)
    /\ rec # NoRecord => Acceptable(rec)

(* What every step does: keeps the invariant, and the minimum. *)
MinKept == rec # NoRecord => rec' # NoRecord /\ rec'.min >= rec.min
Keeps == UpdateInv' /\ MinKept

-----------------------------------------------------------------------------
(* TypeOK but for the records and the place. *)
WorldOK ==
    /\ v5f \in [Block -> Contents]
    /\ {header, stage} \subseteq MaybePackage
    /\ backup \in [ver : Nat, len : Lengths, data : [Block -> Contents], b0 : MaybePackage]
    /\ {card, again, recovering, forced} \subseteq BOOLEAN
    /\ blk \in Nat
    /\ faults \in 0..MaxFaults /\ tries \in Nat

(* A record that stage 1 may go on with in place of the one it has. *)
GoesOn(q) == RecordOK(q) /\ q.min = r.min /\ Acceptable(q)

LEMMA AwakeFacts ==
    ASSUME UpdateInv, pc \in Awake, pc # "error"
    PROVE  /\ WorldOK
           /\ rec # NoRecord /\ RecordOK(rec) /\ Acceptable(rec)
           /\ GoesOn(r) /\ Fits(r, pc) /\ r.min = rec.min
BY DEF UpdateInv, TypeOK, WorldOK, Agree, GoesOn, Asleep, Awake

LEMMA MinType == \A q : RecordOK(q) => q.min >= q.min
BY DEF RecordOK, Record

(* A step that stores record q, or fails to, and goes on. *)
LEMMA StoreStep ==
    ASSUME UpdateInv, pc \in Awake, pc # "error",
           NEW q, NEW next \in Awake,
           record_store(q, next), GoesOn(q), Fits(q, next), WorldOK'
    PROVE  Keeps
<1>1. RecordOK(q) /\ q.min = r.min /\ Acceptable(q) BY DEF GoesOn
<1>2. rec # NoRecord /\ RecordOK(rec) /\ Acceptable(rec) /\ r.min = rec.min BY AwakeFacts
<1>3. r' = q /\ rec' \in {rec, q} /\ pc' \in {next, "error"} BY DEF record_store
<1>4. q # NoRecord BY <1>1, NoRecordAssumption DEF RecordOK
<1>5. Fits(q, "error") BY DEF Fits
<1>6. pc' \in Awake /\ pc' \notin Asleep BY <1>3 DEF Awake, Asleep
<1>7. TypeOK' BY <1>1, <1>2, <1>3, <1>6 DEF TypeOK, WorldOK, RecordOK
<1>8. Agree' BY <1>1, <1>2, <1>3, <1>4 DEF Agree
<1>9. Fits(r', pc') BY <1>3, <1>5
<1>10. MinKept BY <1>1, <1>2, <1>3, <1>4, MinType DEF MinKept
<1> QED BY <1>1, <1>2, <1>3, <1>7, <1>8, <1>9, <1>10
        DEF Keeps, UpdateInv, Acceptable, AboveMinimum, Fits

(* A step that puts record q in RAM and in flash, and goes on. *)
LEMMA BothStep ==
    ASSUME UpdateInv, pc \in Awake, pc # "error", NEW q, NEW next \in Awake,
           r' = q, rec' = q, pc' = next, GoesOn(q), Fits(q, next), WorldOK'
    PROVE  Keeps
<1>1. RecordOK(q) /\ Acceptable(q) BY DEF GoesOn
<1>2. q # NoRecord BY <1>1, NoRecordAssumption DEF RecordOK
<1>3. next \notin Asleep BY DEF Awake, Asleep
<1>4. TypeOK' BY <1>1, <1>3 DEF TypeOK, WorldOK, RecordOK
<1>5. Agree' BY <1>2 DEF Agree
<1>6. MinKept BY <1>1, <1>2, AwakeFacts, MinType DEF MinKept, GoesOn
<1> QED BY <1>1, <1>4, <1>5, <1>6 DEF Keeps, UpdateInv, Acceptable, AboveMinimum, Fits

(* A step that leaves both records alone, to another place. *)
LEMMA StayStep ==
    ASSUME UpdateInv, pc \in Awake, pc # "error",
           UNCHANGED <<r, rec>>, pc' \in Awake, Fits(r, pc'), WorldOK'
    PROVE  Keeps
<1>1. RecordOK(r) /\ RecordOK(rec) /\ rec # NoRecord /\ r.min = rec.min
      /\ Acceptable(r) /\ Acceptable(rec)
      BY AwakeFacts DEF GoesOn
<1>2. TypeOK' BY <1>1 DEF TypeOK, WorldOK, RecordOK, Asleep, Awake
<1>3. MinKept BY <1>1, MinType DEF MinKept
<1> QED BY <1>1, <1>2, <1>3 DEF Keeps, UpdateInv, Agree, Acceptable, AboveMinimum, Fits

(* A step after which stage 1 is not at work. *)
LEMMA LeaveStep ==
    ASSUME UpdateInv, pc' \in Asleep, r' = NoRecord, WorldOK', MinKept,
           rec' = NoRecord \/ (RecordOK(rec') /\ Acceptable(rec'))
    PROVE  Keeps
<1>1. pc' \notin Awake BY DEF Asleep, Awake
<1>2. TypeOK' BY DEF TypeOK, WorldOK, RecordOK
<1> QED BY <1>1, <1>2 DEF Keeps, UpdateInv, Agree, Acceptable, AboveMinimum

LEMMA InvFacts ==
    ASSUME UpdateInv
    PROVE  /\ WorldOK
           /\ rec = NoRecord \/ (RecordOK(rec) /\ Acceptable(rec))
           /\ pc \in Asleep => r = NoRecord
           /\ pc \in Awake => RecordOK(r) /\ Acceptable(r) /\ Fits(r, pc)
BY DEF UpdateInv, TypeOK, WorldOK, Asleep, Awake

-----------------------------------------------------------------------------
(* Types of what the steps compute. *)
LEMMA SizeFacts ==
    /\ \A n \in Lengths : n \in Nat /\ 0..n - 1 \subseteq Block
    /\ SlotBlocks \in Lengths /\ SpanBlocks \in Lengths /\ 0 \in Lengths
    /\ \A n \in Lengths : mac_length(n) \in Lengths /\ installed_length(n) \in Lengths
    /\ \A p \in Packages : p.len \in Lengths /\ p.ver \in Nat /\ p.min \in Nat
                           /\ p.img \in Contents /\ p.min <= p.ver /\ p.len > 0
BY SizesAssumption, SwitchesAssumption, ImagesAssumption, PackagesAssumption
   DEF Lengths, Block, mac_length, installed_length, Minimum, Contents

LEMMA ImageMacType ==
    ASSUME v5f \in [Block -> Contents], NEW ver \in Nat, NEW n \in Lengths
    PROVE  image_mac(ver, n) \in [ver : Nat, data : Data]
<1>1. [b \in 0..n - 1 |-> v5f[b]] \in [0..n - 1 -> Contents] BY SizeFacts
<1>2. [b \in 0..n - 1 |-> v5f[b]] \in Data BY <1>1 DEF Data
<1> QED BY <1>2 DEF image_mac

LEMMA InstalledType ==
    ASSUME v5f \in [Block -> Contents], NEW q, RecordOK(q), NEW ver \in Nat, NEW n \in Lengths
    PROVE  /\ RecordOK(AsInstalled(q, ver, n))
           /\ AsInstalled(q, ver, n).ver = ver
           /\ \A f \in {"state", "min", "progress", "pkg", "bver", "blen", "result"} :
                  AsInstalled(q, ver, n)[f] = q[f]
<1>1. mac_length(n) \in Lengths BY SizeFacts
<1>2. image_mac(ver, mac_length(n)) \in [ver : Nat, data : Data] BY <1>1, ImageMacType
<1> QED BY <1>2 DEF AsInstalled, RecordOK, Record

LEMMA BackupMacType ==
    ASSUME WorldOK
    PROVE  backup_mac \in [ver : Nat, len : Lengths, data : Data, b0 : MaybePackage]
<1>1. backup.len \in Lengths /\ backup.data \in [Block -> Contents] BY DEF WorldOK
<1>2. [b \in 0..backup.len - 1 |-> backup.data[b]] \in [0..backup.len - 1 -> Contents]
      BY <1>1, SizeFacts
<1>3. [b \in 0..backup.len - 1 |-> backup.data[b]] \in Data BY <1>1, <1>2 DEF Data
<1> QED BY <1>3 DEF backup_mac, WorldOK, MaybePackage

LEMMA BlankType ==
    ASSUME WorldOK
    PROVE  /\ RecordOK(NewRecord) /\ NewRecord.min = 0 /\ NewRecord.state = "IDLE"
           /\ Acceptable(NewRecord)
<1>1. v5f \in [Block -> Contents] BY DEF WorldOK
<1>2. image_mac(0, 0) \in [ver : Nat, data : Data] BY <1>1, ImageMacType, SizeFacts
<1>3. RecordOK(BlankRecord) /\ BlankRecord.min = 0 /\ BlankRecord.state = "IDLE"
      BY <1>2, SizeFacts DEF BlankRecord, RecordOK, Record, MaybePackage
<1>4. installed_length(SlotBlocks) \in Lengths BY SizeFacts
<1>5. RecordOK(Adopted(BlankRecord)) /\ Adopted(BlankRecord).min = 0
      /\ Adopted(BlankRecord).state = "IDLE"
      BY <1>1, <1>3, <1>4, InstalledType DEF Adopted
<1> QED BY <1>3, <1>5 DEF NewRecord, Acceptable, AboveMinimum, BlankRecord

LEMMA FlashType ==
    ASSUME v5f \in [Block -> Contents], NEW b
    PROVE  /\ \A c \in Contents : program_block(b, c) \in [Block -> Contents]
           /\ TornBlock(b) \subseteq [Block -> Contents]
<1>1. ErasedFor(b) \in [Block -> Contents] BY DEF ErasedFor, Contents
<1>2. {Erased, Spoilt} \subseteq Contents BY DEF Contents
<1>3. \A c \in Contents : program_block(b, c) \in [Block -> Contents]
      BY <1>1, <1>2 DEF program_block
<1>4. [ErasedFor(b) EXCEPT ![b] = Spoilt] \in [Block -> Contents] BY <1>1, <1>2
<1>5. [x \in Block |-> IF b % SectorBlocks = 0 /\ x \in Sector(b) THEN Spoilt ELSE v5f[x]]
        \in [Block -> Contents] BY <1>2
<1> QED BY <1>1, <1>3, <1>4, <1>5 DEF TornBlock

LEMMA IdleFacts ==
    ASSUME NEW q, RecordOK(q)
    PROVE  /\ RecordOK([q EXCEPT !.state = "IDLE"])
           /\ [q EXCEPT !.state = "IDLE"].state = "IDLE"
           /\ \A f \in {"len", "min", "ver", "pkg", "bver"} : [q EXCEPT !.state = "IDLE"][f] = q[f]
BY DEF RecordOK, Record

(* The edits that give up on an image, and what they leave of the record. *)
LEMMA EditFacts ==
    ASSUME NEW q, RecordOK(q)
    PROVE  /\ RecordOK(Broken(q)) /\ Broken(q).len = 0 /\ Broken(q).min = q.min
           /\ Broken(q).state = q.state /\ Broken(q).pkg = q.pkg /\ Broken(q).ver = q.ver
           /\ RecordOK(ToRollBack(q)) /\ ToRollBack(q).state = "ROLLING_BACK"
           /\ ToRollBack(q).min = q.min /\ ToRollBack(q).len = q.len /\ ToRollBack(q).ver = q.ver
           /\ ToRollBack(q).bver = q.bver
           /\ RecordOK([Broken(q) EXCEPT !.state = "IDLE"])
           /\ [Broken(q) EXCEPT !.state = "IDLE"].len = 0
           /\ [Broken(q) EXCEPT !.state = "IDLE"].state = "IDLE"
           /\ [Broken(q) EXCEPT !.state = "IDLE"].min = q.min
<1>1. 0 \in Lengths BY SizeFacts
<1>2. RecordOK(Broken(q)) BY <1>1 DEF RecordOK, Record, Broken
<1>3. Broken(q) = [q EXCEPT !.result = "BROKEN", !.len = 0] BY DEF Broken
<1>4. RecordOK(ToRollBack(q)) BY DEF RecordOK, Record, ToRollBack
<1>5. RecordOK([Broken(q) EXCEPT !.state = "IDLE"]) BY <1>2, IdleFacts
<1>6. /\ [Broken(q) EXCEPT !.state = "IDLE"].state = "IDLE"
      /\ [Broken(q) EXCEPT !.state = "IDLE"].len = Broken(q).len
      /\ [Broken(q) EXCEPT !.state = "IDLE"].min = Broken(q).min
      BY <1>2 DEF RecordOK, Record
<1> QED BY <1>2, <1>4, <1>5, <1>6 DEF RecordOK, Record, Broken, ToRollBack

(* A fault or none; and a step that leaves flash and files alone. *)
MaybeFault == faults' = faults \/ (faults < MaxFaults /\ faults' = faults + 1)

LEMMA FaultType ==
    ASSUME WorldOK, MaybeFault PROVE faults' \in 0..MaxFaults
BY SizesAssumption DEF WorldOK, MaybeFault

LEMMA StoreFault ==
    ASSUME NEW q, NEW next, record_store(q, next) PROVE MaybeFault
BY DEF record_store, Fault, MaybeFault

LEMMA QuietWorld ==
    ASSUME WorldOK, MaybeFault, UNCHANGED <<v5f, header, files, mode>>,
           blk' \in Nat, again' \in BOOLEAN, tries' \in Nat
    PROVE  WorldOK'
<1>1. faults' \in 0..MaxFaults BY FaultType
<1> QED BY <1>1 DEF WorldOK, files, mode

-----------------------------------------------------------------------------
(* The steps of upd_boot, in the order of Update. *)
LEMMA BootStepInv ==
    ASSUME UpdateInv, NEW waiting \in BOOLEAN, Boot(waiting) PROVE Keeps
<1>1. WorldOK /\ (rec = NoRecord \/ (RecordOK(rec) /\ Acceptable(rec))) BY InvFacts
<1>2. MaybeFault BY DEF Boot, record_store, Fault, MaybeFault
<1>3. WorldOK' BY <1>1, <1>2, QuietWorld DEF Boot, WorldOK
<1>4. ASSUME NEW q, RecordOK(q)
      PROVE  /\ Switch(q, waiting) \in Awake
             /\ Switch(q, waiting) # "error"
             /\ Fits(q, Switch(q, waiting))
  BY <1>4 DEF RecordOK, Record, Switch, Awake, Fits
<1>5. CASE rec # NoRecord
  <2>1. r' = rec /\ rec' = rec /\ pc' = Switch(rec, waiting) BY <1>5 DEF Boot
  <2>2. RecordOK(rec) /\ Acceptable(rec) BY <1>1, <1>5
  <2>3. pc' \in Awake /\ Fits(rec, pc') BY <1>4, <2>1, <2>2
  <2>4. TypeOK' BY <1>3, <2>1, <2>2, <2>3 DEF TypeOK, WorldOK, RecordOK, Asleep, Awake
  <2>5. Agree' BY <1>5, <2>1 DEF Agree
  <2> QED BY <2>1, <2>2, <2>3, <2>4, <2>5, MinType
      DEF Keeps, MinKept, UpdateInv, Acceptable, AboveMinimum, Fits
<1>6. CASE rec = NoRecord
  <2>1. record_store(NewRecord, Switch(NewRecord, waiting)) BY <1>6 DEF Boot
  <2>2. RecordOK(NewRecord) /\ Acceptable(NewRecord) BY <1>1, BlankType
  <2> DEFINE q == NewRecord
  <2> HIDE DEF q
  <2>3. r' = q /\ rec' \in {NoRecord, q} /\ pc' \in {Switch(q, waiting), "error"}
        /\ (rec' = NoRecord => pc' = "error")
    <3>1. q # NoRecord BY <2>2, NoRecordAssumption DEF q, RecordOK
    <3> QED BY <1>6, <2>1, <3>1 DEF record_store, q
  <2>4. RecordOK(q) /\ Acceptable(q) BY <2>2 DEF q
  <2>5. pc' \in Awake /\ pc' \notin Asleep BY <1>4, <2>3, <2>4 DEF Awake, Asleep
  <2>6. Fits(q, pc') BY <1>4, <2>3, <2>4 DEF Fits
  <2>7. TypeOK' BY <1>3, <2>3, <2>4, <2>5 DEF TypeOK, WorldOK, RecordOK
  <2>8. Agree' BY <2>3 DEF Agree
  <2> QED BY <1>6, <2>3, <2>4, <2>6, <2>7, <2>8
      DEF Keeps, MinKept, UpdateInv, Acceptable, AboveMinimum, Fits
<1> QED BY <1>5, <1>6

LEMMA TrialBootInv ==
    ASSUME UpdateInv, TrialBoot PROVE Keeps
<1>1. pc = "trial" /\ pc \in Awake BY DEF TrialBoot, Awake
<1>2. RecordOK(r) /\ Acceptable(r) /\ r.state = "TRIAL" /\ WorldOK
      BY <1>1, AwakeFacts DEF GoesOn, Fits
<1> DEFINE q == [r EXCEPT !.progress = @ + 1]
           broken == [Broken(q) EXCEPT !.state = "IDLE"]
           back == ToRollBack(q)
<1>3. GoesOn(q) /\ GoesOn(broken) /\ GoesOn(back)
  <2>1. RecordOK(q) /\ q.min = r.min /\ q.len = r.len /\ q.ver = r.ver
        /\ q.state = r.state /\ q.pkg = r.pkg
        BY <1>2 DEF RecordOK, Record
  <2> HIDE DEF q
  <2>2. RecordOK(broken) /\ RecordOK(back) /\ broken.min = r.min /\ back.min = r.min
        BY <2>1, EditFacts
  <2>3. Acceptable(q) BY <1>2, <2>1 DEF Acceptable, AboveMinimum
  <2>4. Acceptable(broken) BY <2>1, EditFacts DEF Acceptable, AboveMinimum
  <2>5. Acceptable(back) BY <1>2, <2>1, EditFacts DEF Acceptable, AboveMinimum
  <2> QED BY <2>1, <2>2, <2>3, <2>4, <2>5 DEF GoesOn
<1>4. Fits(q, "check") /\ Fits(broken, "check") /\ Fits(back, "rollback")
      BY <1>2 DEF Fits, RecordOK, Record, ToRollBack
<1>5. {"check", "rollback"} \subseteq Awake BY DEF Awake
<1>6. record_store(q, "check") \/ record_store(broken, "check") \/ record_store(back, "rollback")
      BY DEF TrialBoot
<1>7. WorldOK'
  <2>1. MaybeFault BY <1>6, StoreFault
  <2> QED BY <1>2, <2>1, QuietWorld DEF TrialBoot, WorldOK
<1> HIDE DEF q, broken, back
<1> QED BY <1>1, <1>3, <1>4, <1>5, <1>6, <1>7, StoreStep

LEMMA MountableFacts ==
    ASSUME WorldOK, Mountable(r)
    PROVE  stage \in Packages /\ stage.ver >= r.min
BY DEF WorldOK, Mountable, MaybePackage

LEMMA StartStepInv ==
    ASSUME UpdateInv, Refuse \/ NoRoom PROVE Keeps
<1>1. pc = "start" /\ pc \in Awake BY DEF Refuse, NoRoom, Awake
<1>2. RecordOK(r) /\ Acceptable(r) /\ WorldOK /\ rec # NoRecord BY <1>1, AwakeFacts DEF GoesOn
<1>3. PICK result \in {"REFUSED", "NO_BACKUP"} :
          LET q == [r EXCEPT !.state = "IDLE", !.result = result]
          IN  \/ record_store(q, "check")
              \/ r' = q /\ rec' = q /\ pc' = "check"
  BY DEF Refuse, NoRoom
<1> DEFINE q == [r EXCEPT !.state = "IDLE", !.result = result]
<1>4. GoesOn(q)
  <2>1. RecordOK(q) BY <1>2 DEF RecordOK, Record
  <2>2. q.min = r.min /\ q.state = "IDLE" /\ q.len = r.len /\ q.ver = r.ver
        BY <1>2 DEF RecordOK, Record
  <2> HIDE DEF q
  <2> QED BY <1>2, <2>1, <2>2 DEF GoesOn, Acceptable, AboveMinimum
<1>5. WorldOK'
  <2>1. MaybeFault BY DEF Refuse, NoRoom, record_store, Fault, MaybeFault
  <2> QED BY <1>2, <2>1, QuietWorld DEF Refuse, NoRoom, WorldOK
<1>6. Fits(q, "check") /\ "check" \in Awake BY DEF Fits, Awake
<1> HIDE DEF q
<1>7. CASE record_store(q, "check") BY <1>1, <1>4, <1>5, <1>6, <1>7, StoreStep
<1>8. CASE r' = q /\ rec' = q /\ pc' = "check"
  BY <1>1, <1>4, <1>5, <1>6, <1>8, BothStep
<1> QED BY <1>3, <1>7, <1>8 DEF q

LEMMA BeginUpdateInv ==
    ASSUME UpdateInv, BeginUpdate PROVE Keeps
<1>1. pc = "start" /\ pc \in Awake BY DEF BeginUpdate, Awake
<1>2. RecordOK(r) /\ Acceptable(r) /\ WorldOK BY <1>1, AwakeFacts DEF GoesOn
<1> DEFINE q == [r EXCEPT !.state = "BACKING_UP", !.progress = 0, !.result = "NONE",
                          !.pkg = stage, !.blen = IF Keep THEN 0 ELSE @]
           next == IF Keep THEN "backup" ELSE "kept"
<1>3. stage \in Packages /\ stage.ver >= r.min BY <1>2, MountableFacts DEF BeginUpdate
<1>4. RecordOK(q)
  <2>1. (IF Keep THEN 0 ELSE r.blen) \in Lengths BY <1>2, SizeFacts DEF RecordOK, Record
  <2> QED BY <1>2, <1>3, <2>1 DEF RecordOK, Record, MaybePackage
<1>5. /\ q.min = r.min /\ q.state = "BACKING_UP" /\ q.len = r.len /\ q.ver = r.ver
      /\ q.pkg = stage
      BY <1>2 DEF RecordOK, Record
<1>6. record_store(q, next) BY DEF BeginUpdate
<1> HIDE DEF q
<1>7. GoesOn(q) /\ Fits(q, next) /\ next \in Awake
      BY <1>2, <1>3, <1>4, <1>5 DEF GoesOn, Acceptable, AboveMinimum, Fits, Awake
<1>8. WorldOK'
  <2>1. MaybeFault BY <1>6, StoreFault
  <2> QED BY <1>2, <2>1, QuietWorld DEF BeginUpdate, WorldOK
<1> HIDE DEF next
<1> QED BY <1>1, <1>6, <1>7, <1>8, StoreStep

LEMMA BackupInv ==
    ASSUME UpdateInv, BackupBlock \/ BackupDone PROVE Keeps
<1>1. pc \in {"backup", "kept"} /\ pc \in Awake /\ pc # "error"
      BY DEF BackupBlock, BackupDone, Awake
<1>2. RecordOK(r) /\ Acceptable(r) /\ WorldOK /\ r.state = "BACKING_UP"
      BY <1>1, AwakeFacts DEF GoesOn, Fits
<1>3. Fits(r, "error") /\ {"error", "install"} \subseteq Awake BY DEF Fits, Awake
<1>4. CASE BackupBlock
  <2>1. MaybeFault BY <1>4 DEF BackupBlock, Fault, MaybeFault
  <2>2. backup' \in [ver : Nat, len : Lengths, data : [Block -> Contents], b0 : MaybePackage]
    <3>1. /\ r.ver \in Nat /\ r.len \in Lengths
          /\ header \in MaybePackage /\ NoPackage \in MaybePackage
          /\ Spoilt \in Contents /\ v5f \in [Block -> Contents]
          /\ backup \in [ver : Nat, len : Lengths, data : [Block -> Contents], b0 : MaybePackage]
          BY <1>2 DEF RecordOK, Record, WorldOK, MaybePackage, Contents
    <3>2. ASSUME blk # 0, blk <= r.len PROVE blk - 1 \in Block
      BY <1>2, <3>1, <3>2, SizeFacts DEF WorldOK
    <3>3. BackupWith(blk) \in [ver : Nat, len : Lengths, data : [Block -> Contents], b0 : MaybePackage]
      <4>1. CASE blk = 0 BY <3>1, <4>1 DEF BackupWith
      <4>2. CASE blk # 0 /\ blk <= r.len
        <5>1. v5f[blk - 1] \in Contents BY <3>1, <3>2, <4>2
        <5> QED BY <3>1, <4>2, <5>1 DEF BackupWith
      <4>3. CASE blk # 0 /\ ~(blk <= r.len) BY <3>1, <4>3 DEF BackupWith
      <4> QED BY <4>1, <4>2, <4>3
    <3>4. TornBackup(blk) \in [ver : Nat, len : Lengths, data : [Block -> Contents], b0 : MaybePackage]
      <4>1. CASE blk = 0 BY <3>1, <4>1, SizeFacts DEF TornBackup
      <4>2. CASE blk # 0 /\ blk <= r.len BY <3>1, <4>2 DEF TornBackup
      <4>3. CASE blk # 0 /\ ~(blk <= r.len) BY <3>1, <4>3 DEF TornBackup
      <4> QED BY <4>1, <4>2, <4>3
    <3> QED BY <1>4, <3>1, <3>3, <3>4 DEF BackupBlock
  <2>3. WorldOK'
    <3>1. faults' \in 0..MaxFaults BY <1>2, <2>1, FaultType
    <3> QED BY <1>2, <1>4, <2>2, <3>1 DEF BackupBlock, WorldOK, flash, mode
  <2>4. UNCHANGED <<r, rec>> /\ pc' \in {pc, "error"} BY <1>4 DEF BackupBlock, flash
  <2>5. pc' \in Awake /\ Fits(r, pc') BY <1>1, <1>2, <1>3, <2>4 DEF Fits
  <2> QED BY <1>1, <2>3, <2>4, <2>5, StayStep
<1>5. CASE BackupDone
  <2>1. MaybeFault BY <1>5 DEF BackupDone, record_store, Fault, MaybeFault
  <2>2. WorldOK' BY <1>2, <1>5, <2>1, QuietWorld DEF BackupDone, WorldOK
  <2>3. CASE pc = "backup" /\ ~BackupReadsBack
    BY <1>1, <1>3, <1>5, <2>2, <2>3, StayStep DEF BackupDone
  <2>4. CASE ~(pc = "backup" /\ ~BackupReadsBack)
    <3> DEFINE k == [r EXCEPT !.state = "INSTALLING"]
               b == [r EXCEPT !.state = "INSTALLING", !.bver = r.ver,
                              !.blen = r.len, !.bmac = backup_mac]
    <3>1. record_store(k, "install") \/ record_store(b, "install")
          BY <1>5, <2>4 DEF BackupDone
    <3>2. RecordOK(k) /\ RecordOK(b)
      <4>1. backup_mac \in [ver : Nat, len : Lengths, data : Data, b0 : MaybePackage]
            BY <1>2, BackupMacType
      <4> QED BY <1>2, <4>1 DEF RecordOK, Record
    <3>3. /\ k.min = r.min /\ k.state = "INSTALLING" /\ k.len = r.len /\ k.ver = r.ver
          /\ k.pkg = r.pkg
          /\ b.min = r.min /\ b.state = "INSTALLING" /\ b.len = r.len /\ b.ver = r.ver
          /\ b.pkg = r.pkg
          BY <1>2 DEF RecordOK, Record
    <3> HIDE DEF k, b
    <3>4. GoesOn(k) /\ GoesOn(b) /\ Fits(k, "install") /\ Fits(b, "install")
          BY <1>2, <3>2, <3>3 DEF GoesOn, Acceptable, AboveMinimum, Fits
    <3> QED BY <1>1, <1>3, <2>2, <3>1, <3>4, StoreStep
  <2> QED BY <2>3, <2>4
<1> QED BY <1>4, <1>5

(* Giving up on a package: the record turns to the rollback. *)
LEMMA ToRollBackGoesOn ==
    ASSUME RecordOK(r), Acceptable(r)
    PROVE  GoesOn(ToRollBack(r)) /\ Fits(ToRollBack(r), "rollback")
<1>1. Acceptable(ToRollBack(r)) BY EditFacts DEF Acceptable, AboveMinimum
<1> QED BY <1>1, EditFacts DEF GoesOn, Fits

LEMMA InstallInv ==
    ASSUME UpdateInv, Install \/ Verify PROVE Keeps
<1>1. pc \in {"install", "program"} /\ pc \in Awake /\ pc # "error"
      BY DEF Install, Verify, Awake
<1>2. RecordOK(r) /\ Acceptable(r) /\ WorldOK /\ r.state = "INSTALLING"
      BY <1>1, AwakeFacts DEF GoesOn, Fits
<1>3. {"rollback", "program", "header", "installed"} \subseteq Awake BY DEF Awake
<1>4. GoesOn(ToRollBack(r)) /\ Fits(ToRollBack(r), "rollback") BY <1>2, ToRollBackGoesOn
<1>5. r.progress \in Nat BY <1>2 DEF RecordOK, Record
<1>6. WorldOK'
  <2>1. MaybeFault BY DEF Install, Verify, record_store, Fault, MaybeFault
  <2> QED BY <1>2, <1>5, <2>1, QuietWorld DEF Install, Verify, WorldOK
<1>7. CASE record_store(ToRollBack(r), "rollback")
  BY <1>1, <1>3, <1>4, <1>6, <1>7, StoreStep
<1>8. CASE UNCHANGED <<r, rec>> /\ pc' \in {"program", "header", "installed"}
  <2>1. pc' \in Awake /\ Fits(r, pc') BY <1>2, <1>3, <1>8 DEF Fits
  <2> QED BY <1>1, <1>6, <1>8, <2>1, StayStep
<1>9. CASE r' = ToRollBack(r) /\ rec' = ToRollBack(r) /\ pc' = "rollback"
  BY <1>1, <1>3, <1>4, <1>6, <1>9, BothStep
<1> QED BY <1>7, <1>8, <1>9 DEF Install, Verify

LEMMA ProgrammedFacts ==
    ASSUME WorldOK, NEW c \in Contents, NEW blocks, Programmed(c, blocks)
    PROVE  /\ v5f' \in [Block -> Contents]
           /\ blk' \in Nat /\ MaybeFault
           /\ pc' \in {pc, "progress", "error"}
<1>1. v5f' \in [Block -> Contents] BY FlashType DEF Programmed, WorldOK
<1>2. blk' \in Nat BY DEF Programmed, WorldOK
<1>3. MaybeFault BY DEF Programmed, Fault, MaybeFault
<1> QED BY <1>1, <1>2, <1>3 DEF Programmed

LEMMA ProgramBlockInv ==
    ASSUME UpdateInv, ProgramBlock PROVE Keeps
<1>1. pc = "program" /\ pc \in Awake BY DEF ProgramBlock, Awake
<1>2. RecordOK(r) /\ Acceptable(r) /\ WorldOK /\ r.state = "INSTALLING" /\ rec # NoRecord
      BY <1>1, AwakeFacts DEF GoesOn, Fits
<1>3. {"rollback", "program", "progress", "error"} \subseteq Awake BY DEF Awake
<1>4. r.pkg \in Packages /\ r.pkg.img \in Contents
      BY <1>2, SizeFacts DEF RecordOK
<1>5. UNCHANGED <<header, stage, backup, card, again, recovering, forced, tries>>
      BY DEF ProgramBlock, files, mode
<1>6. CASE Programmed(r.pkg.img, r.pkg.len) /\ UNCHANGED <<rec, r>>
  <2>1. /\ v5f' \in [Block -> Contents] /\ blk' \in Nat /\ MaybeFault
        /\ pc' \in {pc, "progress", "error"}
        BY <1>2, <1>4, <1>6, ProgrammedFacts
  <2>2. WorldOK' BY <1>2, <1>5, <2>1, FaultType DEF WorldOK
  <2>3. pc' \in Awake /\ Fits(r, pc') BY <1>1, <1>2, <1>3, <2>1 DEF Fits
  <2> QED BY <1>1, <1>6, <2>2, <2>3, StayStep
<1>7. CASE NoCard /\ UNCHANGED <<rec, r>>
  <2>1. MaybeFault BY <1>7 DEF NoCard, Fault, MaybeFault
  <2>2. WorldOK' BY <1>2, <1>5, <1>7, <2>1, FaultType DEF NoCard, WorldOK
  <2>3. pc' \in Awake /\ Fits(r, pc') BY <1>3, <1>7 DEF NoCard, Fits
  <2> QED BY <1>1, <1>7, <2>2, <2>3, StayStep
<1>8. CASE /\ Fault("tamper")
           /\ r' = ToRollBack(r) /\ rec' = ToRollBack(r) /\ pc' = "rollback"
           /\ UNCHANGED <<v5f, blk>>
  <2>1. MaybeFault BY <1>8 DEF Fault, MaybeFault
  <2>2. WorldOK' BY <1>2, <1>5, <1>8, <2>1, FaultType DEF WorldOK
  <2> QED BY <1>1, <1>2, <1>3, <1>8, <2>2, ToRollBackGoesOn, BothStep
<1> QED BY <1>6, <1>7, <1>8 DEF ProgramBlock

LEMMA StoreProgressInv ==
    ASSUME UpdateInv, StoreProgress PROVE Keeps
<1>1. pc = "progress" /\ pc \in Awake BY DEF StoreProgress, Awake
<1>2. /\ RecordOK(r) /\ Acceptable(r) /\ WorldOK
      /\ r.state \in {"INSTALLING", "ROLLING_BACK"}
      /\ r.state = "ROLLING_BACK" => r.bver >= r.min
      BY <1>1, AwakeFacts DEF GoesOn, Fits
<1> DEFINE q == [r EXCEPT !.progress = blk + 1]
           next == IF r.state = "INSTALLING" THEN "program" ELSE "restore"
<1>3. record_store(q, next) /\ next \in Awake BY DEF StoreProgress, Awake
<1>4. RecordOK(q) /\ q.min = r.min /\ q.len = r.len /\ q.ver = r.ver /\ q.state = r.state
      /\ q.pkg = r.pkg /\ q.bver = r.bver
      BY <1>2 DEF RecordOK, Record, WorldOK
<1>5. WorldOK'
  <2>1. MaybeFault BY <1>3, StoreFault
  <2>2. blk' \in Nat BY <1>2 DEF StoreProgress, WorldOK
  <2> QED BY <1>2, <2>1, <2>2, QuietWorld DEF StoreProgress, WorldOK
<1> HIDE DEF q
<1>6. GoesOn(q) /\ Fits(q, next)
      BY <1>2, <1>4 DEF GoesOn, Acceptable, AboveMinimum, Fits
<1> HIDE DEF next
<1> QED BY <1>1, <1>3, <1>5, <1>6, StoreStep

LEMMA HeaderInv ==
    ASSUME UpdateInv, StoreHeader \/ BeginRestore \/ RestoreHeader PROVE Keeps
<1>1. pc \in {"header", "rollback", "restore"} /\ pc \in Awake /\ pc # "error"
      BY DEF StoreHeader, BeginRestore, RestoreHeader, Awake
<1>2. RecordOK(r) /\ WorldOK /\ Fits(r, pc) BY <1>1, AwakeFacts DEF GoesOn
<1>3. UNCHANGED <<r, rec, v5f, stage, backup, card, again, recovering, forced, tries>>
      BY DEF StoreHeader, BeginRestore, RestoreHeader, flash, files, mode
<1>4. r.progress \in Nat /\ NoPackage \in MaybePackage /\ backup.b0 \in MaybePackage
      BY <1>2 DEF RecordOK, Record, WorldOK, MaybePackage
<1>5. MaybeFault /\ header' \in MaybePackage /\ blk' \in Nat
      BY <1>2, <1>4 DEF StoreHeader, BeginRestore, RestoreHeader, StoredHeader, Fault, MaybeFault,
                        flash, WorldOK
<1>6. WorldOK' BY <1>2, <1>3, <1>5, FaultType DEF WorldOK
<1>7. pc' \in Awake /\ Fits(r, pc')
      BY <1>2 DEF StoreHeader, BeginRestore, RestoreHeader, StoredHeader, CanRollBack, Fits, Awake
<1> QED BY <1>1, <1>3, <1>6, <1>7, StayStep

LEMMA InstalledInv ==
    ASSUME UpdateInv, Installed PROVE Keeps
<1>1. pc = "installed" /\ pc \in Awake BY DEF Installed, Awake
<1>2. RecordOK(r) /\ Acceptable(r) /\ WorldOK /\ r.state = "INSTALLING"
      BY <1>1, AwakeFacts DEF GoesOn, Fits
<1>3. r.pkg \in Packages /\ r.pkg.ver \in Nat /\ installed_length(r.pkg.len) \in Lengths
      BY <1>2, SizeFacts DEF RecordOK
<1> DEFINE a == AsInstalled(r, r.pkg.ver, installed_length(r.pkg.len))
           q == [a EXCEPT !.state = "TRIAL", !.progress = 0]
<1>4. /\ RecordOK(a) /\ a.ver = r.pkg.ver /\ a.min = r.min /\ a.pkg = r.pkg
      BY <1>2, <1>3, InstalledType DEF WorldOK
<1>5. record_store(q, "check") \/ record_store(ToRollBack(r), "rollback") BY DEF Installed
<1> HIDE DEF a
<1>6. /\ RecordOK(q) /\ q.ver = r.pkg.ver /\ q.min = r.min /\ q.pkg = r.pkg
      /\ q.state = "TRIAL"
      BY <1>3, <1>4 DEF RecordOK, Record
<1> HIDE DEF q
<1>7. GoesOn(q) /\ Fits(q, "check")
      BY <1>2, <1>3, <1>6 DEF GoesOn, Acceptable, AboveMinimum, Fits
<1>8. GoesOn(ToRollBack(r)) /\ Fits(ToRollBack(r), "rollback") BY <1>2, ToRollBackGoesOn
<1>9. WorldOK'
  <2>1. MaybeFault BY <1>5, StoreFault
  <2> QED BY <1>2, <2>1, QuietWorld DEF Installed, WorldOK
<1>10. {"check", "rollback"} \subseteq Awake BY DEF Awake
<1> QED BY <1>1, <1>5, <1>7, <1>8, <1>9, <1>10, StoreStep

LEMMA CannotRollBackInv ==
    ASSUME UpdateInv, CannotRollBack PROVE Keeps
<1>1. pc = "rollback" /\ pc \in Awake BY DEF CannotRollBack, Awake
<1>2. RecordOK(r) /\ WorldOK BY <1>1, AwakeFacts DEF GoesOn
<1> DEFINE q == [Broken(r) EXCEPT !.state = "IDLE"]
<1>3. record_store(q, "check") /\ "check" \in Awake BY DEF CannotRollBack, Awake
<1>4. GoesOn(q) /\ Fits(q, "check")
      BY <1>2, EditFacts DEF GoesOn, Acceptable, AboveMinimum, Fits
<1>5. WorldOK'
  <2>1. MaybeFault BY <1>3, StoreFault
  <2> QED BY <1>2, <2>1, QuietWorld DEF CannotRollBack, WorldOK
<1> HIDE DEF q
<1> QED BY <1>1, <1>3, <1>4, <1>5, StoreStep

LEMMA RestoreBlockInv ==
    ASSUME UpdateInv, RestoreBlock PROVE Keeps
<1>1. pc = "restore" /\ pc \in Awake BY DEF RestoreBlock, Awake
<1>2. RecordOK(r) /\ WorldOK /\ r.state = "ROLLING_BACK" /\ r.bver >= r.min
      BY <1>1, AwakeFacts DEF GoesOn, Fits
<1>3. UNCHANGED <<rec, r, header, stage, backup, card, again, recovering, forced, tries>>
      BY DEF RestoreBlock, files, mode
<1>4. /\ v5f' \in [Block -> Contents] /\ blk' \in Nat /\ MaybeFault
      /\ pc' \in {pc, "progress", "error"}
  <2>1. CASE NoCard BY <1>2, <2>1 DEF NoCard, Fault, MaybeFault, WorldOK
  <2>2. CASE Programmed(backup.data[blk], r.blen)
    <3>1. r.blen \in Lengths /\ blk < r.blen /\ blk \in Nat
          BY <1>2 DEF RestoreBlock, RecordOK, Record, WorldOK
    <3>2. blk \in Block BY <3>1, SizeFacts DEF Lengths, Block
    <3>3. backup.data[blk] \in Contents BY <1>2, <3>2 DEF WorldOK
    <3> QED BY <1>2, <2>2, <3>3, ProgrammedFacts
  <2> QED BY <2>1, <2>2 DEF RestoreBlock
<1>5. WorldOK' BY <1>2, <1>3, <1>4, FaultType DEF WorldOK
<1>6. pc' \in Awake /\ Fits(r, pc') BY <1>1, <1>2, <1>4 DEF Fits, Awake
<1> QED BY <1>1, <1>3, <1>5, <1>6, StayStep

LEMMA RestoredInv ==
    ASSUME UpdateInv, Restored PROVE Keeps
<1>1. pc = "restored" /\ pc \in Awake BY DEF Restored, Awake
<1>2. RecordOK(r) /\ WorldOK /\ r.bver >= r.min BY <1>1, AwakeFacts DEF GoesOn, Fits
<1>3. r.bver \in Nat /\ r.blen \in Lengths BY <1>2 DEF RecordOK, Record
<1> DEFINE a == AsInstalled(r, r.bver, r.blen)
           q == [a EXCEPT !.state = "IDLE", !.progress = 0, !.result = "ROLLED_BACK"]
<1>4. RecordOK(a) /\ a.ver = r.bver /\ a.min = r.min
      BY <1>2, <1>3, InstalledType DEF WorldOK
<1>5. record_store(q, "check") /\ "check" \in Awake BY DEF Restored, Awake
<1> HIDE DEF a
<1>6. RecordOK(q) /\ q.ver = r.bver /\ q.min = r.min /\ q.state = "IDLE"
      BY <1>4 DEF RecordOK, Record
<1> HIDE DEF q
<1>7. GoesOn(q) /\ Fits(q, "check")
      BY <1>2, <1>6 DEF GoesOn, Acceptable, AboveMinimum, Fits
<1>8. WorldOK'
  <2>1. MaybeFault BY <1>5, StoreFault
  <2> QED BY <1>2, <2>1, QuietWorld DEF Restored, WorldOK
<1> QED BY <1>1, <1>5, <1>7, <1>8, StoreStep

-----------------------------------------------------------------------------
(* The boot check, and what follows it. *)
LEMMA AdoptedFacts ==
    ASSUME WorldOK, NEW q, RecordOK(q)
    PROVE  RecordOK(Adopted(q)) /\ Adopted(q).min = q.min /\ Adopted(q).state = q.state
           /\ Adopted(q).pkg = q.pkg
<1>1. installed_length(SlotBlocks) \in Lengths /\ 0 \in Nat BY SizeFacts
<1> QED BY <1>1, InstalledType DEF Adopted, WorldOK

LEMMA AdoptChangedInv ==
    ASSUME UpdateInv, AdoptChanged PROVE Keeps
<1>1. pc = "check" /\ pc \in Awake /\ AdoptBlank BY DEF AdoptChanged, Awake
<1>2. RecordOK(r) /\ WorldOK BY <1>1, AwakeFacts DEF GoesOn
<1> DEFINE a == Adopted(r)
           q == [a EXCEPT !.state = "IDLE", !.progress = 0, !.result = "NONE"]
<1>3. RecordOK(a) /\ a.min = r.min BY <1>2, AdoptedFacts
<1>4. record_store(q, "check") BY DEF AdoptChanged
<1> HIDE DEF a
<1>5. RecordOK(q) /\ q.min = r.min BY <1>3 DEF RecordOK, Record
<1> HIDE DEF q
<1>6. GoesOn(q) /\ Fits(q, "check") BY <1>1, <1>5 DEF GoesOn, Acceptable, Fits
<1>7. WorldOK'
  <2>1. MaybeFault BY <1>4, StoreFault
  <2> QED BY <1>2, <2>1, QuietWorld DEF AdoptChanged, WorldOK
<1> QED BY <1>1, <1>4, <1>6, <1>7, StoreStep

LEMMA RestoreChangedInv ==
    ASSUME UpdateInv, RestoreChanged PROVE Keeps
<1>1. pc = "check" /\ pc \in Awake BY DEF RestoreChanged, Awake
<1>2. RecordOK(r) /\ Acceptable(r) /\ WorldOK BY <1>1, AwakeFacts DEF GoesOn
<1>3. record_store(ToRollBack(r), "rollback") /\ "rollback" \in Awake
      BY DEF RestoreChanged, Awake
<1>4. WorldOK'
  <2>1. MaybeFault BY <1>3, StoreFault
  <2> QED BY <1>2, <2>1, QuietWorld DEF RestoreChanged, WorldOK
<1> QED BY <1>1, <1>2, <1>3, <1>4, ToRollBackGoesOn, StoreStep

LEMMA LeaveWorld ==
    ASSUME WorldOK, NEW next, Leave(next), MaybeFault,
           UNCHANGED <<v5f, header, files>>, tries' \in Nat
    PROVE  WorldOK'
<1>1. faults' \in 0..MaxFaults BY FaultType
<1>2. forced' \in BOOLEAN /\ recovering' \in BOOLEAN /\ again' \in BOOLEAN /\ blk' \in Nat
      BY DEF Leave, WorldOK
<1> QED BY <1>1, <1>2 DEF WorldOK, files

LEMMA MarkedBrokenInv ==
    ASSUME UpdateInv, MarkedBroken PROVE Keeps
<1>1. pc = "check" /\ pc \in Awake BY DEF MarkedBroken, Awake
<1>2. RecordOK(r) /\ Acceptable(r) /\ WorldOK /\ rec # NoRecord
      /\ RecordOK(rec) /\ Acceptable(rec)
      BY <1>1, AwakeFacts DEF GoesOn
<1>3. RecordOK(Broken(r)) /\ Acceptable(Broken(r)) /\ GoesOn(Broken(r))
      BY <1>2, EditFacts DEF Acceptable, AboveMinimum, GoesOn
<1>4. MaybeFault /\ UNCHANGED <<v5f, header, files, tries>>
      BY DEF MarkedBroken, Fault, MaybeFault
<1>5. CASE rec' = Broken(r) /\ Leave("recovery")
  <2>1. WorldOK' BY <1>2, <1>4, <1>5, LeaveWorld DEF WorldOK
  <2>2. MinKept
    <3>1. r.min = rec.min /\ Broken(r).min = r.min BY <1>1, <1>2, AwakeFacts, EditFacts
    <3>2. Broken(r) # NoRecord BY <1>3, NoRecordAssumption DEF RecordOK
    <3> QED BY <1>2, <1>5, <3>1, <3>2, MinType DEF MinKept
  <2> QED BY <1>3, <1>5, <2>1, <2>2, LeaveStep DEF Leave, Asleep
<1>6. CASE /\ Fault("flash") /\ rec' \in {rec, Broken(r)}
           /\ r' = Broken(r) /\ pc' = "error" /\ UNCHANGED <<blk, again, mode>>
  <2>1. WorldOK' BY <1>2, <1>4, <1>6, QuietWorld DEF WorldOK
  <2>2. record_store(Broken(r), "check") BY <1>6 DEF record_store
  <2>3. Fits(Broken(r), "check") /\ "check" \in Awake BY DEF Fits, Awake
  <2> QED BY <1>1, <1>3, <2>1, <2>2, <2>3, StoreStep
<1> QED BY <1>5, <1>6 DEF MarkedBroken

(* Every step that ends a boot, and the resets. *)
LEMMA LeavingInv ==
    ASSUME UpdateInv,
           \/ \E waiting \in BOOLEAN : NeverUpdated(waiting)
           \/ Start \/ NoImage \/ StoppedByError \/ DoesNotStart
    PROVE  Keeps
<1>1. WorldOK /\ (rec = NoRecord \/ (RecordOK(rec) /\ Acceptable(rec))) BY InvFacts
<1>2. PICK next \in {"off", "recovery", "run", "unchecked"} : Leave(next)
      BY DEF NeverUpdated, Start, NoImage, StoppedByError, DoesNotStart
<1>3. UNCHANGED <<v5f, header, rec, files, faults>> /\ tries' \in Nat
      BY <1>1 DEF NeverUpdated, Start, NoImage, StoppedByError, DoesNotStart, TriesAfter, flash,
                  WorldOK
<1>4. WorldOK' BY <1>1, <1>2, <1>3, LeaveWorld DEF MaybeFault
<1>5. pc' \in Asleep /\ r' = NoRecord BY <1>2 DEF Leave, Asleep
<1>6. rec' = NoRecord \/ (RecordOK(rec') /\ Acceptable(rec'))
      BY <1>1, <1>3 DEF RecordOK, Acceptable, AboveMinimum
<1>7. MinKept BY <1>1, <1>3, MinType DEF MinKept
<1> QED BY <1>4, <1>5, <1>6, <1>7, LeaveStep

LEMMA CutInv ==
    ASSUME UpdateInv, Cut PROVE Keeps
<1>1. WorldOK /\ (rec = NoRecord \/ (RecordOK(rec) /\ Acceptable(rec))) BY InvFacts
<1>2. v5f' \in [Block -> Contents] BY <1>1, FlashType DEF Cut, WorldOK
<1>3. header' \in MaybePackage BY <1>1 DEF Cut, WorldOK, MaybePackage
<1>4. backup' \in [ver : Nat, len : Lengths, data : [Block -> Contents], b0 : MaybePackage]
  <2>1. backup' \in {backup, TornBackup(blk)} BY DEF Cut
  <2>2. TornBackup(blk) \in [ver : Nat, len : Lengths, data : [Block -> Contents], b0 : MaybePackage]
    <3>1. /\ NoPackage \in MaybePackage /\ Spoilt \in Contents /\ 0 \in Lengths
          /\ backup \in [ver : Nat, len : Lengths, data : [Block -> Contents], b0 : MaybePackage]
          BY <1>1, SizeFacts DEF WorldOK, MaybePackage, Contents
    <3> QED BY <3>1 DEF TornBackup
  <2> QED BY <1>1, <2>1, <2>2 DEF WorldOK
<1>5. Leave("off") /\ UNCHANGED <<rec, stage, card, faults, tries>> BY DEF Cut
<1>6. WorldOK' BY <1>1, <1>2, <1>3, <1>4, <1>5 DEF WorldOK, Leave
<1>7. rec' = NoRecord \/ (RecordOK(rec') /\ Acceptable(rec'))
      BY <1>1, <1>5 DEF RecordOK, Acceptable, AboveMinimum
<1>8. MinKept BY <1>1, <1>5, MinType DEF MinKept
<1> QED BY <1>5, <1>6, <1>7, <1>8, LeaveStep DEF Leave, Asleep

-----------------------------------------------------------------------------
(* What happens around stage 1. *)
LEMMA SameStep ==
    ASSUME UpdateInv, UNCHANGED <<r, rec, pc>>, WorldOK' PROVE Keeps
<1>1. UpdateInv' BY DEF UpdateInv, TypeOK, WorldOK, Agree, RecordOK, Acceptable, AboveMinimum, Fits
<1> QED BY <1>1, InvFacts, MinType DEF Keeps, MinKept

LEMMA AroundInv ==
    ASSUME UpdateInv,
           \/ \E p \in Packages \cup {NoPackage} : Fetch(p)
           \/ \E b \in Block : PagesWritten(b) \/ Corrupt(b)
           \/ ForceRecovery \/ LoseBackup \/ PullCard \/ CardBack
    PROVE  Keeps
<1>1. WorldOK BY InvFacts
<1>2. UNCHANGED <<r, rec, pc, blk, again, recovering, tries>>
      BY DEF Fetch, PagesWritten, Corrupt, ForceRecovery, LoseBackup, PullCard, CardBack,
             flash, files, ram, mode
<1>3. MaybeFault
      BY DEF Fetch, PagesWritten, Corrupt, ForceRecovery, LoseBackup, PullCard, CardBack,
             Fault, MaybeFault
<1>4. v5f' \in [Block -> Contents]
      BY <1>1 DEF Fetch, PagesWritten, Corrupt, ForceRecovery, LoseBackup, PullCard, CardBack,
                  flash, files, WorldOK, Contents
<1>5. {header', stage'} \subseteq MaybePackage
      BY <1>1 DEF Fetch, PagesWritten, Corrupt, ForceRecovery, LoseBackup, PullCard, CardBack,
                  flash, files, WorldOK, MaybePackage
<1>6. NoBackup \in [ver : Nat, len : Lengths, data : [Block -> Contents], b0 : MaybePackage]
      BY SizeFacts DEF NoBackup, MaybePackage, Contents
<1>7. backup' \in {backup, NoBackup} /\ {card', forced'} \subseteq BOOLEAN
      BY <1>1 DEF Fetch, PagesWritten, Corrupt, ForceRecovery, LoseBackup, PullCard, CardBack,
                  flash, files, ram, mode, WorldOK
<1>8. WorldOK' BY <1>1, <1>2, <1>3, <1>4, <1>5, <1>6, <1>7, FaultType DEF WorldOK
<1> QED BY <1>2, <1>8, SameStep

(* The confirm raises the minimum, but never above the image it confirms. *)
LEMMA ConfirmInv ==
    ASSUME UpdateInv, Confirm PROVE Keeps
<1>1. pc \in Asleep /\ pc' = pc /\ r' = r BY DEF Confirm, Running, Asleep, ram
<1>2. WorldOK /\ r = NoRecord /\ rec # NoRecord /\ RecordOK(rec) /\ Acceptable(rec)
      BY <1>1, InvFacts DEF Confirm, OnTrial
<1>3. rec.pkg \in Packages /\ rec.state = "TRIAL" BY <1>2 DEF Confirm, OnTrial, RecordOK
<1>4. rec.pkg.min \in Nat /\ rec.pkg.min <= rec.pkg.ver /\ rec.pkg.ver \in Nat
      BY <1>3, SizeFacts
<1>5. RecordOK(Confirmed) BY <1>2, <1>4 DEF RecordOK, Record, Confirmed
<1>6. /\ Confirmed.len = rec.len /\ Confirmed.ver = rec.ver /\ Confirmed.state = "IDLE"
      /\ Confirmed.min = IF rec.pkg.min > rec.min THEN rec.pkg.min ELSE rec.min
      BY <1>2 DEF RecordOK, Record, Confirmed
<1>7. Acceptable(Confirmed)
      BY <1>2, <1>3, <1>4, <1>6 DEF Acceptable, AboveMinimum, RecordOK, Record
<1>8. rec' \in {rec, Confirmed} /\ MaybeFault /\ UNCHANGED <<v5f, header, files, ram, tries>>
      BY DEF Confirm, Fault, MaybeFault
<1>9. WorldOK' BY <1>2, <1>8, QuietWorld DEF ram, WorldOK
<1>10. MinKept
  <2>1. Confirmed # NoRecord BY <1>5, NoRecordAssumption DEF RecordOK
  <2>2. rec.min \in Nat BY <1>2 DEF RecordOK, Record
  <2>3. Confirmed.min >= rec.min BY <1>4, <1>6, <2>2
  <2> QED BY <1>2, <1>8, <2>1, <2>3, MinType DEF MinKept
<1> QED BY <1>1, <1>2, <1>5, <1>7, <1>8, <1>9, <1>10, LeaveStep DEF RecordOK, Acceptable, AboveMinimum

LEMMA RecoveryInv ==
    ASSUME UpdateInv, (\E p \in Packages : Receive(p)) \/ Adopt \/ Enroll PROVE Keeps
<1>1. pc = "recovery" /\ pc \in Asleep BY DEF Receive, Adopt, Enroll, Asleep
<1>2. WorldOK /\ r = NoRecord /\ (rec = NoRecord \/ (RecordOK(rec) /\ Acceptable(rec)))
      BY <1>1, InvFacts
<1>3. RecordOK(NewRecord) /\ Acceptable(NewRecord) BY <1>2, BlankType
<1>4. ASSUME NEW q, RecordOK(q) PROVE RecordOK(Broken(q)) /\ (q.state = "IDLE" => Acceptable(Broken(q)))
      BY <1>4, EditFacts DEF Acceptable, AboveMinimum
<1>5. CASE \E p \in Packages : Receive(p)
  <2>1. PICK p \in Packages : Receive(p) BY <1>5
  <2>2. rec' = NoRecord \/ (RecordOK(rec') /\ Acceptable(rec'))
    <3> DEFINE q == IF rec = NoRecord THEN NewRecord ELSE rec
    <3>1. RecordOK(q) BY <1>2, <1>3
    <3>2. rec' \in {rec, q} \/ (q.state = "IDLE" /\ rec' = Broken(q)) BY <2>1 DEF Receive
    <3>5. Acceptable(q) \/ q = NoRecord BY <1>2, <1>3
    <3> HIDE DEF q
    <3>3. CASE rec' \in {rec, q}
          BY <1>2, <3>1, <3>3, <3>5 DEF RecordOK, Acceptable, AboveMinimum
    <3>4. CASE q.state = "IDLE" /\ rec' = Broken(q)
      <4>1. RecordOK(Broken(q)) /\ Acceptable(Broken(q)) BY <1>4, <3>1, <3>4
      <4> QED BY <3>4, <4>1 DEF RecordOK, Acceptable, AboveMinimum
    <3> QED BY <3>2, <3>3, <3>4
  <2>3. WorldOK'
    <3>1. MaybeFault BY <2>1 DEF Receive, Fault, MaybeFault
    <3>2. faults' \in 0..MaxFaults BY <1>2, <3>1, FaultType
    <3> QED BY <1>2, <2>1, <3>2 DEF Receive, WorldOK, MaybePackage
  <2>4. MinKept
    <3>1. rec # NoRecord => rec' \in {rec, Broken(rec)} BY <2>1 DEF Receive
    <3>2. CASE rec # NoRecord
      <4>1. RecordOK(Broken(rec)) /\ Broken(rec).min = rec.min BY <1>2, <3>2, EditFacts
      <4>2. Broken(rec) # NoRecord BY <4>1, NoRecordAssumption DEF RecordOK
      <4> QED BY <1>2, <3>1, <3>2, <4>1, <4>2, MinType DEF MinKept
    <3> QED BY <3>2 DEF MinKept
  <2> QED BY <1>2, <2>1, <2>2, <2>3, <2>4, LeaveStep DEF Receive, Asleep
<1>6. CASE Adopt
  <2> DEFINE a == Adopted(rec)
             q == [a EXCEPT !.result = "NONE"]
  <2>1. AdoptBlank /\ rec # NoRecord /\ MaybeFault /\ UNCHANGED <<v5f, header, files, tries>>
        BY <1>6 DEF Adopt, Fault, MaybeFault
  <2>7. \/ rec' = q /\ Leave("off")
        \/ rec' \in {rec, q} /\ UNCHANGED ram
        BY <1>6 DEF Adopt
  <2>2. RecordOK(a) BY <1>2, <1>6, AdoptedFacts DEF Adopt
  <2>5. a.min = rec.min /\ RecordOK(rec) BY <1>2, <1>6, AdoptedFacts DEF Adopt
  <2> HIDE DEF a
  <2>3. RecordOK(q) /\ q.min = a.min BY <2>2 DEF RecordOK, Record
  <2> HIDE DEF q
  <2>6. MinKept
    <3>1. q # NoRecord BY <2>3, NoRecordAssumption DEF RecordOK
    <3> QED BY <2>1, <2>3, <2>5, <2>7, <3>1, MinType DEF MinKept
  <2>4. WorldOK'
    <3>1. tries' \in Nat BY <1>2, <2>1 DEF WorldOK
    <3>2. CASE Leave("off") BY <1>2, <2>1, <3>1, <3>2, LeaveWorld
    <3>3. CASE UNCHANGED ram
          BY <1>2, <2>1, <3>1, <3>3, QuietWorld DEF ram, WorldOK
    <3> QED BY <2>7, <3>2, <3>3
  <2>8. pc' \in Asleep /\ r' = NoRecord BY <1>1, <1>2, <2>7 DEF Leave, Asleep, ram
  <2>9. rec' \in {rec, q} BY <2>7
  <2>10. RecordOK(rec') /\ Acceptable(rec')
    <3>1. CASE rec' = q BY <2>1, <2>3, <3>1 DEF RecordOK, Acceptable
    <3>2. CASE rec' = rec BY <2>1, <2>5, <3>2 DEF RecordOK, Acceptable
    <3> QED BY <2>9, <3>1, <3>2
  <2> QED BY <2>4, <2>6, <2>8, <2>10, LeaveStep
<1>7. CASE Enroll
  <2>1. rec' \in {rec, NewRecord} /\ MaybeFault /\ UNCHANGED <<v5f, header, files, ram, tries>>
        BY <1>7 DEF Enroll, Fault, MaybeFault
  <2>2. WorldOK' BY <1>2, <2>1, QuietWorld DEF WorldOK, ram
  <2> DEFINE q == NewRecord
  <2>3. rec' \in {rec, q} /\ RecordOK(q) /\ Acceptable(q) BY <1>3, <2>1
  <2> HIDE DEF q
  <2>4. MinKept BY <1>7 DEF Enroll, MinKept
  <2> QED BY <1>1, <1>2, <2>1, <2>2, <2>3, <2>4, LeaveStep DEF ram, RecordOK, Acceptable, AboveMinimum
<1> QED BY <1>5, <1>6, <1>7

-----------------------------------------------------------------------------
LEMMA InitInv == ASSUME Init PROVE UpdateInv
<1>1. NoBackup \in [ver : Nat, len : Lengths, data : [Block -> Contents], b0 : MaybePackage]
      BY SizeFacts DEF NoBackup, MaybePackage, Contents
<1>2. v5f \in [Block -> Contents] BY ImagesAssumption DEF Init, Contents
<1>3. rec = NoRecord /\ r = NoRecord /\ pc = "off" BY DEF Init
<1>4. 0 \in 0..MaxFaults BY SizesAssumption
<1>5. TypeOK BY <1>1, <1>2, <1>3, <1>4 DEF Init, TypeOK, MaybePackage, Asleep
<1> QED BY <1>3, <1>5 DEF UpdateInv, Agree, Awake

LEMMA StepInv == ASSUME UpdateInv, [Next]_vars PROVE Keeps
<1>1. CASE BootStep
  BY <1>1, BootStepInv, LeavingInv, StartStepInv, BeginUpdateInv, BackupInv, InstallInv,
     ProgramBlockInv, StoreProgressInv, HeaderInv, InstalledInv, TrialBootInv,
     CannotRollBackInv, RestoreBlockInv, RestoredInv, AdoptChangedInv, RestoreChangedInv,
     MarkedBrokenInv DEF BootStep
<1>2. CASE Environment
  BY <1>2, ConfirmInv, LeavingInv, AroundInv, RecoveryInv, CutInv DEF Environment
<1>3. CASE UNCHANGED vars
  <2>1. WorldOK' BY <1>3, InvFacts DEF vars, flash, files, ram, mode, WorldOK
  <2> QED BY <1>3, <2>1, SameStep DEF vars, flash, ram
<1> QED BY <1>1, <1>2, <1>3 DEF Next

(* The inductive invariant: types, the agreement of the record in RAM with
   the one in flash, the state each step works in, and that every record
   ever made stays on the right side of its minimum. *)
THEOREM UpdateInvariant == Spec => []UpdateInv
<1>1. Init => UpdateInv BY InitInv
<1>2. UpdateInv /\ [Next]_vars => UpdateInv' BY StepInv DEF Keeps
<1> QED BY <1>1, <1>2, PTL DEF Spec

(* Every variable keeps its type, whatever is installed, cut or failing. *)
THEOREM UpdateTypeOK == Spec => []TypeOK
<1>1. UpdateInv => TypeOK BY DEF UpdateInv
<1> QED BY <1>1, UpdateInvariant, PTL

(* On a board without adopt_blank (level 2) the record never vouches for an
   image older than its minimum: a package, a rollback, and a confirm that
   raises the minimum all keep it so (update.c:511, 833). *)
THEOREM UpdateNoDowngrade == Spec => [](~AdoptBlank => NoDowngrade)
<1>1. UpdateInv => (~AdoptBlank => NoDowngrade)
      BY DEF UpdateInv, NoDowngrade, Known, Acceptable, AboveMinimum
<1> QED BY <1>1, UpdateInvariant, PTL

(* The minimum version never falls and the record, once there, is never
   lost: not by a rollback, an adopt, a refused store, or a cut (update.c:833
   is the one place that changes it). *)
THEOREM UpdateMinimumOnlyRises == Spec => MinimumOnlyRises
<1>1. UpdateInv /\ [Next]_vars => [Known => rec' # NoRecord /\ rec'.min >= rec.min]_vars
      BY StepInv DEF Keeps, MinKept, Known
<1> QED BY <1>1, UpdateInvariant, PTL DEF Spec, MinimumOnlyRises

-----------------------------------------------------------------------------
(* While stage 1 works, the record in RAM is the one in flash, but after a
   store the flash refused; and the steps before and after the work know
   which states they can meet. *)
InStep ==
    /\ pc \in Awake \ {"error"} => r = rec
    /\ pc = "error" /\ r # rec => "flash" \in FaultKinds /\ faults > 0
    /\ pc = "start" => r.state \in {"IDLE", "BACKING_UP"}
    /\ pc = "check" => r.state \in {"IDLE", "TRIAL"}

-----------------------------------------------------------------------------
LEMMA NoFaultType == ASSUME WorldOK PROVE faults \in Nat
BY SizesAssumption DEF WorldOK

(* A store leaves the two records the same, or is refused. *)
LEMMA StoreInStep ==
    ASSUME WorldOK, NEW q, NEW next, record_store(q, next)
    PROVE  /\ r' = q
           /\ (pc' = next /\ rec' = q) \/ pc' = "error"
           /\ r' = rec' \/ (pc' = "error" /\ "flash" \in FaultKinds /\ faults' > 0)
           /\ pc' = next \/ ("flash" \in FaultKinds /\ faults' > 0)
BY NoFaultType DEF record_store, Fault

LEMMA StoreKeepsStep ==
    ASSUME WorldOK, NEW q, NEW next, record_store(q, next), next # "error", next # "start",
           next = "check" => q.state \in {"IDLE", "TRIAL"}
    PROVE  InStep'
<1>1. /\ r' = q
      /\ (pc' = next /\ rec' = q) \/ pc' = "error"
      /\ r' = rec' \/ (pc' = "error" /\ "flash" \in FaultKinds /\ faults' > 0)
      BY StoreInStep
<1> QED BY <1>1 DEF InStep

(* A step that leaves the records alone and goes on to one of these. *)
LEMMA StayKeepsStep ==
    ASSUME InStep, pc \in Awake, pc # "error", UNCHANGED <<r, rec>>,
           pc' \notin {"start", "check"}
    PROVE  InStep'
BY DEF InStep

LEMMA StepInStep == ASSUME UpdateInv, InStep, [Next]_vars PROVE InStep'
<1>1. WorldOK BY InvFacts
<1>2. pc \in Awake => RecordOK(r) /\ Fits(r, pc) BY InvFacts
<1>3. CASE \E waiting \in BOOLEAN : Boot(waiting)
  <2>1. PICK waiting \in BOOLEAN : Boot(waiting) BY <1>3
  <2>2. ASSUME NEW q, RecordOK(q)
        PROVE  /\ Switch(q, waiting) \in {"start", "check", "install", "trial", "rollback"}
               /\ Switch(q, waiting) = "start" => q.state \in {"IDLE", "BACKING_UP"}
               /\ Switch(q, waiting) = "check" => q.state = "IDLE"
        BY <2>2 DEF RecordOK, Record, Switch
  <2>3. CASE rec # NoRecord
    <3>1. RecordOK(rec) BY <2>3, InvFacts
    <3> QED BY <2>1, <2>2, <2>3, <3>1 DEF Boot, InStep
  <2>4. CASE rec = NoRecord
    <3>1. record_store(NewRecord, Switch(NewRecord, waiting)) BY <2>1, <2>4 DEF Boot
    <3> DEFINE q == NewRecord
    <3>2. RecordOK(q) BY <1>1, BlankType
    <3>3. record_store(q, Switch(q, waiting)) BY <3>1
    <3> HIDE DEF q
    <3>4. /\ r' = q
          /\ (pc' = Switch(q, waiting) /\ rec' = q) \/ pc' = "error"
          /\ r' = rec' \/ (pc' = "error" /\ "flash" \in FaultKinds /\ faults' > 0)
          BY <1>1, <3>3, StoreInStep
    <3> QED BY <2>2, <3>2, <3>4 DEF InStep
  <2> QED BY <2>3, <2>4
<1>4. CASE \/ \E waiting \in BOOLEAN : NeverUpdated(waiting)
           \/ Start \/ NoImage \/ StoppedByError \/ DoesNotStart \/ Cut
  <2>1. pc' \in Asleep BY <1>4 DEF NeverUpdated, Start, NoImage, StoppedByError, DoesNotStart,
                                   Cut, Leave, Asleep
  <2> QED BY <2>1 DEF InStep, Asleep, Awake
<1>5. CASE Refuse \/ NoRoom
  <2>1. RecordOK(r) BY <1>2, <1>5 DEF Refuse, NoRoom, Awake
  <2>2. PICK result \in {"REFUSED", "NO_BACKUP"} :
            LET q == [r EXCEPT !.state = "IDLE", !.result = result]
            IN  \/ record_store(q, "check")
                \/ r' = q /\ rec' = q /\ pc' = "check"
        BY <1>5 DEF Refuse, NoRoom
  <2> DEFINE q == [r EXCEPT !.state = "IDLE", !.result = result]
  <2>3. q.state = "IDLE" BY <2>1 DEF RecordOK, Record
  <2>4. record_store(q, "check") \/ (r' = q /\ rec' = q /\ pc' = "check") BY <2>2
  <2> HIDE DEF q
  <2>5. CASE record_store(q, "check") BY <1>1, <2>3, <2>5, StoreKeepsStep
  <2>6. CASE r' = q /\ rec' = q /\ pc' = "check" BY <2>3, <2>6 DEF InStep
  <2> QED BY <2>4, <2>5, <2>6
<1>6. CASE BeginUpdate
  BY <1>1, <1>6, StoreKeepsStep DEF BeginUpdate
<1>7. CASE BackupBlock \/ BackupDone
  <2>1. pc \in Awake /\ pc # "error" BY <1>7 DEF BackupBlock, BackupDone, Awake
  <2>2. CASE UNCHANGED <<r, rec>> /\ pc' \notin {"start", "check"}
        BY <2>1, <2>2, StayKeepsStep
  <2>3. CASE \E q : record_store(q, "install") BY <1>1, <2>3, StoreKeepsStep
  <2> QED BY <1>7, <2>2, <2>3 DEF BackupBlock, BackupDone, flash
<1>8. CASE Install \/ ProgramBlock \/ Verify
  <2>1. pc \in Awake /\ pc # "error" BY <1>8 DEF Install, ProgramBlock, Verify, Awake
  <2>2. CASE UNCHANGED <<r, rec>> /\ pc' \notin {"start", "check"}
        BY <2>1, <2>2, StayKeepsStep
  <2>3. CASE record_store(ToRollBack(r), "rollback") BY <1>1, <2>3, StoreKeepsStep
  <2>4. CASE r' = ToRollBack(r) /\ rec' = ToRollBack(r) /\ pc' = "rollback"
        BY <2>4 DEF InStep
  <2>5. CASE Install BY <2>2, <2>3, <2>4, <2>5 DEF Install
  <2>6. CASE Verify BY <2>2, <2>3, <2>6 DEF Verify
  <2>7. CASE ProgramBlock
    <3>1. CASE UNCHANGED <<rec, r>>
      <4>1. pc' \notin {"start", "check"} BY <2>7, <3>1 DEF ProgramBlock, Programmed, NoCard
      <4> QED BY <2>2, <3>1, <4>1
    <3> QED BY <2>4, <2>7, <3>1 DEF ProgramBlock
  <2> QED BY <1>8, <2>5, <2>6, <2>7
<1>9. CASE StoreProgress BY <1>1, <1>9, StoreKeepsStep DEF StoreProgress
<1>10. CASE StoreHeader \/ BeginRestore \/ RestoreBlock \/ RestoreHeader
  <2>1. pc \in Awake /\ pc # "error"
        BY <1>10 DEF StoreHeader, BeginRestore, RestoreBlock, RestoreHeader, Awake
  <2>2. UNCHANGED <<r, rec>>
        BY <1>10 DEF StoreHeader, BeginRestore, RestoreBlock, RestoreHeader, flash
  <2>3. pc' \notin {"start", "check"}
        BY <1>10 DEF StoreHeader, BeginRestore, RestoreBlock, RestoreHeader, StoredHeader,
                     Programmed, NoCard
  <2> QED BY <2>1, <2>2, <2>3, StayKeepsStep
<1>11. CASE Installed
  <2>1. RecordOK(r) /\ r.state = "INSTALLING" BY <1>2, <1>11 DEF Installed, Awake, Fits
  <2> DEFINE a == AsInstalled(r, r.pkg.ver, installed_length(r.pkg.len))
             q == [a EXCEPT !.state = "TRIAL", !.progress = 0]
  <2>2. r.pkg.ver \in Nat /\ installed_length(r.pkg.len) \in Lengths
        BY <2>1, SizeFacts DEF RecordOK
  <2>3. RecordOK(a) BY <1>1, <2>1, <2>2, InstalledType DEF WorldOK
  <2>4. record_store(q, "check") \/ record_store(ToRollBack(r), "rollback")
        BY <1>11 DEF Installed
  <2> HIDE DEF a
  <2>5. q.state = "TRIAL" BY <2>3 DEF RecordOK, Record
  <2> HIDE DEF q
  <2> QED BY <1>1, <2>4, <2>5, StoreKeepsStep
<1>12. CASE TrialBoot
  <2>1. RecordOK(r) /\ r.state = "TRIAL" BY <1>2, <1>12 DEF TrialBoot, Awake, Fits
  <2> DEFINE q == [r EXCEPT !.progress = @ + 1]
             broken == [Broken(q) EXCEPT !.state = "IDLE"]
  <2>2. RecordOK(q) /\ q.state = "TRIAL" BY <2>1 DEF RecordOK, Record
  <2>3. record_store(q, "check") \/ record_store(broken, "check")
        \/ record_store(ToRollBack(q), "rollback")
        BY <1>12 DEF TrialBoot
  <2> HIDE DEF q
  <2>4. broken.state = "IDLE" BY <2>2, EditFacts
  <2> HIDE DEF broken
  <2> QED BY <1>1, <2>2, <2>3, <2>4, StoreKeepsStep
<1>13. CASE CannotRollBack
  <2>1. RecordOK(r) BY <1>2, <1>13 DEF CannotRollBack, Awake
  <2> DEFINE q == [Broken(r) EXCEPT !.state = "IDLE"]
  <2>2. record_store(q, "check") BY <1>13 DEF CannotRollBack
  <2>3. q.state = "IDLE" BY <2>1, EditFacts
  <2> HIDE DEF q
  <2> QED BY <1>1, <2>2, <2>3, StoreKeepsStep
<1>14. CASE Restored
  <2>1. RecordOK(r) BY <1>2, <1>14 DEF Restored, Awake
  <2> DEFINE a == AsInstalled(r, r.bver, r.blen)
             q == [a EXCEPT !.state = "IDLE", !.progress = 0, !.result = "ROLLED_BACK"]
  <2>2. r.bver \in Nat /\ r.blen \in Lengths BY <2>1 DEF RecordOK, Record
  <2>3. RecordOK(a) BY <1>1, <2>1, <2>2, InstalledType DEF WorldOK
  <2>4. record_store(q, "check") BY <1>14 DEF Restored
  <2> HIDE DEF a
  <2>5. q.state = "IDLE" BY <2>3 DEF RecordOK, Record
  <2> HIDE DEF q
  <2> QED BY <1>1, <2>4, <2>5, StoreKeepsStep
<1>15. CASE AdoptChanged
  <2>1. RecordOK(r) BY <1>2, <1>15 DEF AdoptChanged, Awake
  <2> DEFINE a == Adopted(r)
             q == [a EXCEPT !.state = "IDLE", !.progress = 0, !.result = "NONE"]
  <2>2. RecordOK(a) BY <1>1, <2>1, AdoptedFacts
  <2>3. record_store(q, "check") BY <1>15 DEF AdoptChanged
  <2> HIDE DEF a
  <2>4. q.state = "IDLE" BY <2>2 DEF RecordOK, Record
  <2> HIDE DEF q
  <2> QED BY <1>1, <2>3, <2>4, StoreKeepsStep
<1>16. CASE RestoreChanged BY <1>1, <1>16, StoreKeepsStep DEF RestoreChanged
<1>17. CASE MarkedBroken
  <2>1. CASE Leave("recovery") BY <2>1 DEF Leave, InStep, Awake
  <2>2. CASE Fault("flash") /\ pc' = "error"
        BY <1>1, <2>2, NoFaultType DEF Fault, InStep
  <2> QED BY <1>17, <2>1, <2>2 DEF MarkedBroken
<1>18. CASE \/ Confirm \/ (\E p \in Packages : Receive(p)) \/ Adopt \/ Enroll
  <2>1. pc' \in Asleep
        BY <1>18 DEF Confirm, Receive, Adopt, Enroll, Running, ram, Leave, Asleep
  <2> QED BY <2>1 DEF InStep, Asleep, Awake
<1>19. CASE \/ \E p \in Packages \cup {NoPackage} : Fetch(p)
            \/ \E b \in Block : PagesWritten(b) \/ Corrupt(b)
            \/ ForceRecovery \/ LoseBackup \/ PullCard \/ CardBack
            \/ UNCHANGED vars
  <2>1. UNCHANGED <<r, rec, pc>>
        BY <1>19 DEF Fetch, PagesWritten, Corrupt, ForceRecovery, LoseBackup, PullCard, CardBack,
                     vars, flash, files, ram
  <2>2. faults' = faults \/ faults' = faults + 1
        BY <1>19 DEF Fetch, PagesWritten, Corrupt, ForceRecovery, LoseBackup, PullCard, CardBack,
                     vars, Fault
  <2> QED BY <1>1, <2>1, <2>2, NoFaultType DEF InStep
<1> QED BY <1>3, <1>4, <1>5, <1>6, <1>7, <1>8, <1>9, <1>10, <1>11, <1>12, <1>13, <1>14, <1>15,
           <1>16, <1>17, <1>18, <1>19 DEF Next, BootStep, Environment

-----------------------------------------------------------------------------
(* The trial: what is left of the count, by the record's progress and by
   whether the start it allows has been made. *)
StartMayCome == pc \in {"check", "error"} /\ r.state = "TRIAL"
TrialInv ==
    /\ TrialCounted
    /\ OnTrial => rec.progress <= TrialBoots /\ tries <= rec.progress + 1 + faults
    /\ StartMayCome => tries <= TrialBoots + faults
    /\ StartMayCome /\ OnTrial => tries <= rec.progress + faults

LEMMA TrialTypes ==
    ASSUME UpdateInv
    PROVE  /\ tries \in Nat /\ faults \in Nat /\ TrialBoots \in Nat
           /\ rec # NoRecord => rec.progress \in Nat
BY InvFacts, NoFaultType, SizesAssumption DEF WorldOK, RecordOK, Record

(* One more fault never breaks a count. *)
LEMMA MoreFaults ==
    ASSUME faults \in Nat, faults' \in {faults, faults + 1}
    PROVE  faults' \in Nat /\ faults <= faults'
OBVIOUS

LEMMA MoreBoots ==
    \A t, f, g \in Nat : t = 0 \/ f <= g =>
        /\ t <= TrialBoots + f => t <= TrialBoots + g
        /\ t <= TrialBoots + 1 + f => t <= TrialBoots + 1 + g
        /\ t <= TrialBoots + f => t <= TrialBoots + 1 + g
        /\ t = 0 => t <= TrialBoots + g /\ t <= TrialBoots + 1 + g
BY SizesAssumption

(* A step that starts nothing and puts no image on trial. *)
LEMMA NotTrialStep ==
    ASSUME UpdateInv, TrialInv, tries' = tries, faults' \in {faults, faults + 1},
           rec' = rec \/ (rec' # NoRecord => rec'.state # "TRIAL"),
           pc' \in {"check", "error"} => r'.state # "TRIAL"
    PROVE  TrialInv'
<1>1. tries \in Nat /\ faults \in Nat /\ TrialBoots \in Nat
      /\ (rec # NoRecord => rec.progress \in Nat)
      BY TrialTypes
<1>6. faults' \in Nat /\ faults <= faults' BY <1>1, MoreFaults
<1>2. TrialCounted' BY <1>1, <1>6, MoreBoots DEF TrialInv, TrialCounted
<1>3. ~StartMayCome' BY DEF StartMayCome
<1>4. OnTrial' => rec' = rec /\ OnTrial BY DEF OnTrial
<1>5. OnTrial' => rec'.progress <= TrialBoots /\ tries' <= rec'.progress + 1 + faults'
      BY <1>1, <1>4 DEF TrialInv, OnTrial
<1> QED BY <1>2, <1>3, <1>5 DEF TrialInv

(* A step around stage 1. *)
LEMMA SameTrialStep ==
    ASSUME UpdateInv, TrialInv, UNCHANGED <<r, rec, pc, tries>>, faults' \in {faults, faults + 1}
    PROVE  TrialInv'
<1>1. tries \in Nat /\ faults \in Nat /\ TrialBoots \in Nat
      /\ (rec # NoRecord => rec.progress \in Nat)
      BY TrialTypes
<1>7. faults' \in Nat /\ faults <= faults' BY <1>1, MoreFaults
<1>2. TrialCounted' BY <1>1, <1>7, MoreBoots DEF TrialInv, TrialCounted
<1>3. (OnTrial' <=> OnTrial) /\ (StartMayCome' <=> StartMayCome) BY DEF OnTrial, StartMayCome
<1>4. OnTrial' => rec'.progress <= TrialBoots /\ tries' <= rec'.progress + 1 + faults'
      BY <1>1, <1>3 DEF TrialInv, OnTrial
<1>5. StartMayCome' => tries' <= TrialBoots + faults' BY <1>1, <1>3, <1>7, MoreBoots DEF TrialInv
<1>6. StartMayCome' /\ OnTrial' => tries' <= rec'.progress + faults'
      BY <1>1, <1>3 DEF TrialInv, OnTrial
<1> QED BY <1>2, <1>4, <1>5, <1>6 DEF TrialInv

(* The boot counts before it starts: the one step that adds to a trial. *)
LEMMA TrialBootCounts ==
    ASSUME UpdateInv, InStep, TrialInv, TrialBoot PROVE TrialInv'
<1>1. pc = "trial" /\ pc \in Awake \ {"error"} BY DEF TrialBoot, Awake
<1>2. WorldOK /\ RecordOK(r) /\ r.state = "TRIAL" /\ r = rec /\ rec # NoRecord
      BY <1>1, AwakeFacts DEF GoesOn, Fits, InStep
<1>3. tries \in Nat /\ faults \in Nat /\ TrialBoots \in Nat /\ r.progress \in Nat
      BY <1>2, TrialTypes
<1>4. OnTrial /\ tries <= r.progress + 1 + faults BY <1>2 DEF TrialInv, OnTrial
<1> DEFINE q == [r EXCEPT !.progress = @ + 1]
           broken == [Broken(q) EXCEPT !.state = "IDLE"]
           back == ToRollBack(q)
<1>5. RecordOK(q) /\ q.state = "TRIAL" /\ q.progress = r.progress + 1
      BY <1>2 DEF RecordOK, Record
<1>6. \/ q.progress <= TrialBoots /\ record_store(q, "check")
      \/ record_store(broken, "check") \/ record_store(back, "rollback")
      BY DEF TrialBoot
<1>7. tries' = tries BY DEF TrialBoot
<1> HIDE DEF q
<1>8. broken.state = "IDLE" /\ back.state = "ROLLING_BACK" BY <1>5, EditFacts
<1> HIDE DEF broken, back
<1>9. CASE q.progress <= TrialBoots /\ record_store(q, "check")
  <2>1. r' = q /\ \/ rec' = q /\ faults' = faults
                  \/ rec' \in {rec, q} /\ faults' = faults + 1
        BY <1>9 DEF record_store, Fault
  <2>2. CASE rec' = q
    <3>1. tries' <= q.progress + faults' BY <1>3, <1>4, <1>5, <1>7, <2>1
    <3> QED BY <1>3, <1>5, <1>7, <1>9, <2>1, <2>2, <3>1 DEF TrialInv, TrialCounted, OnTrial, StartMayCome
  <2>3. CASE rec' = rec /\ faults' = faults + 1
    <3>1. tries' <= rec'.progress + faults' BY <1>2, <1>3, <1>4, <1>7, <2>3
    <3>2. rec'.progress <= TrialBoots /\ rec'.progress \in Nat BY <1>2, <1>3, <1>4, <2>3 DEF TrialInv
    <3> QED BY <1>3, <1>7, <2>3, <3>1, <3>2 DEF TrialInv, TrialCounted, OnTrial, StartMayCome
  <2> QED BY <2>1, <2>2, <2>3
<1>10. ASSUME NEW q2 \in {broken, back}, NEW next, record_store(q2, next) PROVE TrialInv'
  <2>1. r' = q2 /\ rec' \in {rec, q2} /\ faults' \in {faults, faults + 1}
        BY <1>10 DEF record_store, Fault
  <2>2. q2.state # "TRIAL" BY <1>8
  <2> QED BY <1>7, <2>1, <2>2, NotTrialStep
<1> QED BY <1>6, <1>9, <1>10

LEMMA InstalledCounts ==
    ASSUME UpdateInv, InStep, TrialInv, Installed PROVE TrialInv'
<1>1. pc = "installed" /\ pc \in Awake \ {"error"} BY DEF Installed, Awake
<1>2. WorldOK /\ RecordOK(r) /\ r.state = "INSTALLING" /\ r = rec
      BY <1>1, AwakeFacts DEF GoesOn, Fits, InStep
<1>3. faults \in Nat /\ TrialBoots \in Nat BY TrialTypes
<1> DEFINE a == AsInstalled(r, r.pkg.ver, installed_length(r.pkg.len))
           q == [a EXCEPT !.state = "TRIAL", !.progress = 0]
<1>4. r.pkg.ver \in Nat /\ installed_length(r.pkg.len) \in Lengths
      BY <1>2, SizeFacts DEF RecordOK
<1>5. RecordOK(a) BY <1>2, <1>4, InstalledType DEF WorldOK
<1>6. (record_store(q, "check") \/ record_store(ToRollBack(r), "rollback")) /\ tries' = 0
      BY DEF Installed
<1> HIDE DEF a
<1>7. q.progress = 0 BY <1>5 DEF RecordOK, Record
<1> HIDE DEF q
<1>8. CASE record_store(q, "check")
  <2>1. rec' \in {rec, q} /\ faults' \in Nat BY <1>3, <1>8 DEF record_store, Fault
  <2>2. OnTrial' => rec'.progress = 0 BY <1>2, <1>7, <2>1 DEF OnTrial
  <2>3. tries' = 0 /\ tries' <= TrialBoots + 1 + faults' /\ tries' <= TrialBoots + faults'
        BY <1>3, <1>6, <2>1, MoreBoots
  <2>4. OnTrial' => rec'.progress <= TrialBoots /\ tries' <= rec'.progress + 1 + faults'
                    /\ tries' <= rec'.progress + faults'
        BY <1>3, <2>1, <2>2, <2>3
  <2> QED BY <2>3, <2>4 DEF TrialInv, TrialCounted
<1>9. CASE record_store(ToRollBack(r), "rollback")
  <2>1. /\ rec' \in {rec, ToRollBack(r)} /\ r' = ToRollBack(r)
        /\ faults' \in Nat
        BY <1>3, <1>9 DEF record_store, Fault
  <2>2. ~OnTrial' /\ ~StartMayCome' BY <1>2, <2>1, EditFacts DEF OnTrial, StartMayCome
  <2>3. tries' <= TrialBoots + 1 + faults' BY <1>3, <1>6, <2>1, MoreBoots
  <2> QED BY <2>2, <2>3 DEF TrialInv, TrialCounted
<1> QED BY <1>6, <1>8, <1>9

LEMMA MarkedCounts ==
    ASSUME UpdateInv, InStep, TrialInv, MarkedBroken PROVE TrialInv'
<1>1. pc = "check" /\ pc \in Awake \ {"error"} BY DEF MarkedBroken, Awake
<1>2. RecordOK(r) /\ r = rec /\ rec # NoRecord BY <1>1, AwakeFacts DEF GoesOn, InStep
<1>3. tries \in Nat /\ faults \in Nat /\ TrialBoots \in Nat /\ rec.progress \in Nat
      BY <1>2, TrialTypes
<1>4. Broken(r).state = r.state /\ Broken(r).progress = r.progress
      BY <1>2 DEF Broken, RecordOK, Record
<1>5. rec' \in {rec, Broken(r)} /\ tries' = tries /\ faults' \in {faults, faults + 1}
      /\ (pc' = "recovery" \/ r' = Broken(r))
      BY DEF MarkedBroken, Fault, Leave
<1>6. rec'.state = rec.state /\ rec'.progress = rec.progress BY <1>2, <1>4, <1>5
<1>7. OnTrial' => OnTrial /\ StartMayCome BY <1>1, <1>2, <1>6 DEF OnTrial, StartMayCome
<1>8. StartMayCome' => StartMayCome BY <1>1, <1>4, <1>5 DEF StartMayCome
<1>12. faults' \in Nat /\ faults <= faults' BY <1>3, <1>5, MoreFaults
<1>9. StartMayCome' => tries' <= TrialBoots + faults' BY <1>3, <1>5, <1>8, <1>12, MoreBoots DEF TrialInv
<1>10. OnTrial' => /\ rec'.progress <= TrialBoots
                   /\ tries' <= rec'.progress + faults'
                   /\ tries' <= rec'.progress + 1 + faults'
       BY <1>3, <1>5, <1>6, <1>7 DEF TrialInv
<1>11. TrialCounted' BY <1>3, <1>5, <1>12, MoreBoots DEF TrialInv, TrialCounted
<1> QED BY <1>9, <1>10, <1>11 DEF TrialInv

(* A start uses up the one the count allows. *)
LEMMA StartCounts ==
    ASSUME UpdateInv, TrialInv, Start \/ StoppedByError PROVE TrialInv'
<1>1. pc \in {"check", "error"} BY DEF Start, StoppedByError
<1>2. tries \in Nat /\ faults \in Nat /\ TrialBoots \in Nat
      /\ (rec # NoRecord => rec.progress \in Nat)
      BY TrialTypes
<1>3. PICK next \in {"off", "recovery", "run", "unchecked"} : Leave(next) /\ tries' = TriesAfter(next)
      BY DEF Start, StoppedByError
<1>4. UNCHANGED <<rec, faults>> /\ pc' = next BY <1>3 DEF Start, StoppedByError, flash, Leave
<1>5. tries' = tries \/ (StartMayCome /\ tries' = tries + 1)
      BY <1>1, <1>3 DEF TriesAfter, StartMayCome
<1>6. ~StartMayCome' BY <1>3, <1>4 DEF StartMayCome
<1>7. OnTrial' <=> OnTrial BY <1>4 DEF OnTrial
<1>8. OnTrial' => rec'.progress <= TrialBoots /\ tries' <= rec'.progress + 1 + faults'
  <2>1. CASE tries' = tries BY <1>2, <1>4, <1>7, <2>1 DEF TrialInv, OnTrial
  <2>2. CASE StartMayCome /\ tries' = tries + 1
        BY <1>2, <1>4, <1>7, <2>2 DEF TrialInv, OnTrial
  <2> QED BY <1>5, <2>1, <2>2
<1>9. TrialCounted'
  <2>1. CASE tries' = tries BY <1>2, <1>4, <2>1 DEF TrialInv, TrialCounted
  <2>2. CASE StartMayCome /\ tries' = tries + 1
        BY <1>2, <1>4, <2>2 DEF TrialInv, TrialCounted
  <2> QED BY <1>5, <2>1, <2>2
<1> QED BY <1>6, <1>8, <1>9 DEF TrialInv

(* A store of a record that is not on trial. *)
LEMMA StoreNoTrial ==
    ASSUME UpdateInv, TrialInv, NEW q, NEW next, record_store(q, next), q.state # "TRIAL",
           tries' = tries
    PROVE  TrialInv'
<1>1. r' = q /\ rec' \in {rec, q} /\ faults' \in {faults, faults + 1}
      BY DEF record_store, Fault
<1> QED BY <1>1, NotTrialStep

(* A step of an install or a rollback that leaves the records alone. *)
LEMMA StayNoTrial ==
    ASSUME UpdateInv, TrialInv, pc \in Awake, r.state # "TRIAL", UNCHANGED <<r, rec, tries>>,
           faults' \in {faults, faults + 1}
    PROVE  TrialInv'
BY NotTrialStep

LEMMA StepTrial == ASSUME UpdateInv, InStep, TrialInv, [Next]_vars PROVE TrialInv'
<1>1. WorldOK BY InvFacts
<1>2. pc \in Awake => RecordOK(r) /\ Fits(r, pc) BY InvFacts
<1>3. CASE \E waiting \in BOOLEAN : Boot(waiting)
  <2>1. PICK waiting \in BOOLEAN : Boot(waiting) BY <1>3
  <2>2. tries' = tries BY <2>1 DEF Boot
  <2>3. CASE rec # NoRecord
    <3>1. RecordOK(rec) BY <2>3, InvFacts
    <3>2. Switch(rec, waiting) \in {"check", "error"} => rec.state # "TRIAL"
          BY <3>1 DEF Switch, RecordOK, Record
    <3>3. r' = rec /\ rec' = rec /\ pc' = Switch(rec, waiting) /\ faults' = faults
          BY <2>1, <2>3 DEF Boot
    <3> QED BY <2>2, <3>2, <3>3, NotTrialStep
  <2>4. CASE rec = NoRecord
    <3>1. record_store(NewRecord, Switch(NewRecord, waiting)) BY <2>1, <2>4 DEF Boot
    <3>2. NewRecord.state # "TRIAL" BY <1>1, BlankType
    <3> QED BY <2>2, <3>1, <3>2, StoreNoTrial
  <2> QED BY <2>3, <2>4
<1>4. CASE \/ \E waiting \in BOOLEAN : NeverUpdated(waiting)
           \/ NoImage \/ DoesNotStart \/ Cut
  <2>1. pc' \notin {"check", "error"}
        BY <1>4 DEF NeverUpdated, NoImage, DoesNotStart, Cut, Leave
  <2>2. UNCHANGED <<rec, faults, tries>>
        BY <1>4 DEF NeverUpdated, NoImage, DoesNotStart, Cut, flash
  <2> QED BY <2>1, <2>2, NotTrialStep
<1>5. CASE Refuse \/ NoRoom
  <2>1. RecordOK(r) BY <1>2, <1>5 DEF Refuse, NoRoom, Awake
  <2>2. PICK result \in {"REFUSED", "NO_BACKUP"} :
            LET q == [r EXCEPT !.state = "IDLE", !.result = result]
            IN  \/ record_store(q, "check")
                \/ r' = q /\ rec' = q /\ faults' = faults + 1
        BY <1>5 DEF Refuse, NoRoom, Fault
  <2> DEFINE q == [r EXCEPT !.state = "IDLE", !.result = result]
  <2>3. q.state = "IDLE" BY <2>1 DEF RecordOK, Record
  <2>4. record_store(q, "check") \/ (r' = q /\ rec' = q /\ faults' = faults + 1) BY <2>2
  <2>5. tries' = tries BY <1>5 DEF Refuse, NoRoom
  <2> HIDE DEF q
  <2>6. CASE record_store(q, "check") BY <2>3, <2>5, <2>6, StoreNoTrial
  <2>7. CASE r' = q /\ rec' = q /\ faults' = faults + 1 BY <2>3, <2>5, <2>7, NotTrialStep
  <2> QED BY <2>4, <2>6, <2>7
<1>6. CASE BeginUpdate
  <2>1. RecordOK(r) BY <1>2, <1>6 DEF BeginUpdate, Awake
  <2> DEFINE q == [r EXCEPT !.state = "BACKING_UP", !.progress = 0, !.result = "NONE",
                            !.pkg = stage, !.blen = IF Keep THEN 0 ELSE @]
  <2>2. record_store(q, IF Keep THEN "backup" ELSE "kept") BY <1>6 DEF BeginUpdate
  <2>3. q.state = "BACKING_UP" BY <2>1 DEF RecordOK, Record
  <2>4. tries' = tries BY <1>6 DEF BeginUpdate
  <2> HIDE DEF q
  <2> QED BY <2>2, <2>3, <2>4, StoreNoTrial
<1>7. CASE BackupBlock \/ BackupDone
  <2>1. RecordOK(r) /\ r.state = "BACKING_UP" /\ pc \in Awake
        BY <1>2, <1>7 DEF BackupBlock, BackupDone, Fits, Awake
  <2>2. tries' = tries BY <1>7 DEF BackupBlock, BackupDone
  <2>3. CASE UNCHANGED <<r, rec>> /\ faults' \in {faults, faults + 1}
        BY <2>1, <2>2, <2>3, StayNoTrial
  <2> DEFINE k == [r EXCEPT !.state = "INSTALLING"]
             b == [r EXCEPT !.state = "INSTALLING", !.bver = r.ver,
                            !.blen = r.len, !.bmac = backup_mac]
  <2>4. k.state = "INSTALLING" /\ b.state = "INSTALLING" BY <2>1 DEF RecordOK, Record
  <2>5. \/ UNCHANGED <<r, rec>> /\ faults' \in {faults, faults + 1}
        \/ record_store(k, "install") \/ record_store(b, "install")
        BY <1>7 DEF BackupBlock, BackupDone, Fault, flash
  <2> HIDE DEF k, b
  <2>6. CASE record_store(k, "install") BY <2>2, <2>4, <2>6, StoreNoTrial
  <2>7. CASE record_store(b, "install") BY <2>2, <2>4, <2>7, StoreNoTrial
  <2> QED BY <2>3, <2>5, <2>6, <2>7
<1>8. CASE Install \/ ProgramBlock \/ Verify
  <2>1. RecordOK(r) /\ r.state = "INSTALLING" /\ pc \in Awake
        BY <1>2, <1>8 DEF Install, ProgramBlock, Verify, Fits, Awake
  <2>2. tries' = tries BY <1>8 DEF Install, ProgramBlock, Verify
  <2>3. CASE UNCHANGED <<r, rec>> /\ faults' \in {faults, faults + 1}
        BY <2>1, <2>2, <2>3, StayNoTrial
  <2>4. ToRollBack(r).state = "ROLLING_BACK" BY <2>1, EditFacts
  <2>5. CASE record_store(ToRollBack(r), "rollback") BY <2>2, <2>4, <2>5, StoreNoTrial
  <2>6. CASE r' = ToRollBack(r) /\ rec' = ToRollBack(r) /\ faults' = faults + 1
        BY <2>2, <2>4, <2>6, NotTrialStep
  <2>7. CASE Install BY <2>3, <2>5, <2>6, <2>7 DEF Install, Fault
  <2>8. CASE Verify BY <2>3, <2>5, <2>8 DEF Verify
  <2>9. CASE ProgramBlock
        BY <2>3, <2>6, <2>9 DEF ProgramBlock, Programmed, NoCard, Fault
  <2> QED BY <1>8, <2>7, <2>8, <2>9
<1>9. CASE StoreProgress
  <2>1. RecordOK(r) /\ r.state # "TRIAL" BY <1>2, <1>9 DEF StoreProgress, Fits, Awake
  <2> DEFINE q == [r EXCEPT !.progress = blk + 1]
  <2>2. record_store(q, IF r.state = "INSTALLING" THEN "program" ELSE "restore")
        BY <1>9 DEF StoreProgress
  <2>3. q.state # "TRIAL" BY <2>1 DEF RecordOK, Record
  <2>4. tries' = tries BY <1>9 DEF StoreProgress
  <2> HIDE DEF q
  <2> QED BY <2>2, <2>3, <2>4, StoreNoTrial
<1>10. CASE StoreHeader \/ BeginRestore \/ RestoreBlock \/ RestoreHeader
  <2>1. r.state # "TRIAL" /\ pc \in Awake
        BY <1>2, <1>10 DEF StoreHeader, BeginRestore, RestoreBlock, RestoreHeader, Fits, Awake
  <2>2. UNCHANGED <<r, rec, tries>>
        BY <1>10 DEF StoreHeader, BeginRestore, RestoreBlock, RestoreHeader, flash
  <2>3. faults' \in {faults, faults + 1}
        BY <1>10 DEF StoreHeader, BeginRestore, RestoreBlock, RestoreHeader, StoredHeader,
                     Programmed, NoCard, Fault
  <2> QED BY <2>1, <2>2, <2>3, StayNoTrial
<1>11. CASE CannotRollBack
  <2>1. RecordOK(r) BY <1>2, <1>11 DEF CannotRollBack, Awake
  <2> DEFINE q == [Broken(r) EXCEPT !.state = "IDLE"]
  <2>2. record_store(q, "check") /\ tries' = tries BY <1>11 DEF CannotRollBack
  <2>3. q.state = "IDLE" BY <2>1, EditFacts
  <2> HIDE DEF q
  <2> QED BY <2>2, <2>3, StoreNoTrial
<1>12. CASE Restored
  <2>1. RecordOK(r) BY <1>2, <1>12 DEF Restored, Awake
  <2> DEFINE a == AsInstalled(r, r.bver, r.blen)
             q == [a EXCEPT !.state = "IDLE", !.progress = 0, !.result = "ROLLED_BACK"]
  <2>2. r.bver \in Nat /\ r.blen \in Lengths BY <2>1 DEF RecordOK, Record
  <2>3. RecordOK(a) BY <1>1, <2>1, <2>2, InstalledType DEF WorldOK
  <2>4. record_store(q, "check") /\ tries' = tries BY <1>12 DEF Restored
  <2> HIDE DEF a
  <2>5. q.state = "IDLE" BY <2>3 DEF RecordOK, Record
  <2> HIDE DEF q
  <2> QED BY <2>4, <2>5, StoreNoTrial
<1>13. CASE AdoptChanged
  <2>1. RecordOK(r) BY <1>2, <1>13 DEF AdoptChanged, Awake
  <2> DEFINE a == Adopted(r)
             q == [a EXCEPT !.state = "IDLE", !.progress = 0, !.result = "NONE"]
  <2>2. RecordOK(a) BY <1>1, <2>1, AdoptedFacts
  <2>3. record_store(q, "check") /\ tries' = tries BY <1>13 DEF AdoptChanged
  <2> HIDE DEF a
  <2>4. q.state = "IDLE" BY <2>2 DEF RecordOK, Record
  <2> HIDE DEF q
  <2> QED BY <2>3, <2>4, StoreNoTrial
<1>14. CASE RestoreChanged
  <2>1. RecordOK(r) BY <1>2, <1>14 DEF RestoreChanged, Awake
  <2>2. record_store(ToRollBack(r), "rollback") /\ tries' = tries BY <1>14 DEF RestoreChanged
  <2> QED BY <2>1, <2>2, EditFacts, StoreNoTrial
<1>15. CASE Confirm
  <2>1. RecordOK(rec) /\ r' = r /\ pc' = pc /\ pc \notin {"check", "error"} /\ tries' = tries
        BY <1>15, InvFacts DEF Confirm, OnTrial, Running, ram
  <2>2. rec' \in {rec, Confirmed} /\ faults' \in {faults, faults + 1} BY <1>15 DEF Confirm, Fault
  <2>3. Confirmed.state = "IDLE" BY <2>1 DEF Confirmed, RecordOK, Record
  <2> QED BY <2>1, <2>2, <2>3, NotTrialStep
<1>16. CASE \E p \in Packages : Receive(p)
  <2>1. PICK p \in Packages : Receive(p) BY <1>16
  <2>2. pc' = "received" /\ tries' = tries /\ faults' \in {faults, faults + 1}
        BY <2>1 DEF Receive, Fault
  <2> DEFINE q == IF rec = NoRecord THEN NewRecord ELSE rec
  <2>3. RecordOK(q) BY <1>1, BlankType, InvFacts
  <2>4. rec' = rec \/ (q.state = "IDLE" /\ rec' \in {q, Broken(q)}) BY <2>1 DEF Receive
  <2> HIDE DEF q
  <2>5. Broken(q).state = q.state BY <2>3, EditFacts
  <2> QED BY <2>2, <2>4, <2>5, NotTrialStep
<1>17. CASE Adopt
  <2>1. RecordOK(rec) /\ rec.state = "IDLE" BY <1>17, InvFacts DEF Adopt
  <2> DEFINE a == Adopted(rec)
             q == [a EXCEPT !.result = "NONE"]
  <2>2. RecordOK(a) /\ a.state = "IDLE" BY <1>1, <2>1, AdoptedFacts
  <2>3. /\ rec' \in {rec, q} /\ tries' = tries /\ faults' \in {faults, faults + 1}
        /\ pc' \notin {"check", "error"}
        BY <1>17 DEF Adopt, Fault, Leave, ram
  <2> HIDE DEF a
  <2>4. q.state = "IDLE" BY <2>2 DEF RecordOK, Record
  <2> HIDE DEF q
  <2> QED BY <2>3, <2>4, NotTrialStep
<1>18. CASE Enroll
  <2>1. /\ rec' \in {rec, NewRecord} /\ tries' = tries /\ faults' \in {faults, faults + 1}
        /\ pc' \notin {"check", "error"}
        BY <1>18 DEF Enroll, Fault, ram
  <2>2. NewRecord.state # "TRIAL" BY <1>1, BlankType
  <2> QED BY <2>1, <2>2, NotTrialStep
<1>19. CASE \/ \E p \in Packages \cup {NoPackage} : Fetch(p)
            \/ \E b \in Block : PagesWritten(b) \/ Corrupt(b)
            \/ ForceRecovery \/ LoseBackup \/ PullCard \/ CardBack
            \/ UNCHANGED vars
  <2>1. UNCHANGED <<r, rec, pc, tries>>
        BY <1>19 DEF Fetch, PagesWritten, Corrupt, ForceRecovery, LoseBackup, PullCard, CardBack,
                     vars, flash, files, ram
  <2>2. faults' \in {faults, faults + 1}
        BY <1>19 DEF Fetch, PagesWritten, Corrupt, ForceRecovery, LoseBackup, PullCard, CardBack,
                     vars, Fault
  <2> QED BY <2>1, <2>2, SameTrialStep
<1> QED BY <1>3, <1>4, <1>5, <1>6, <1>7, <1>8, <1>9, <1>10, <1>11, <1>12, <1>13, <1>14, <1>15,
           <1>16, <1>17, <1>18, <1>19, TrialBootCounts, InstalledCounts, MarkedCounts, StartCounts
        DEF Next, BootStep, Environment

LEMMA InitInStep == ASSUME Init PROVE InStep
BY DEF Init, InStep, Awake

(* The records in RAM and in flash keep in step. *)
THEOREM UpdateInStep == Spec => []InStep
<1>1. Init => InStep BY InitInStep
<1>2. UpdateInv /\ InStep /\ [Next]_vars => InStep' BY StepInStep
<1> QED BY <1>1, <1>2, UpdateInvariant, PTL DEF Spec

(* An image on trial starts at most TrialBoots + 1 times after its install,
   and once more for each fault, whatever is cut: every boot stores its count
   before the start it allows (update.c:727-750). *)
THEOREM UpdateTrialCounted == Spec => []TrialCounted
<1>1. Init => TrialInv
  <2>1. TrialBoots + 1 + 0 >= 0 /\ TrialBoots + 0 >= 0 BY SizesAssumption
  <2> QED BY <2>1 DEF Init, TrialInv, TrialCounted, OnTrial, StartMayCome
<1>2. UpdateInv /\ InStep /\ TrialInv /\ [Next]_vars => TrialInv' BY StepTrial
<1>3. TrialInv => TrialCounted BY DEF TrialInv
<1> QED BY <1>1, <1>2, <1>3, UpdateInvariant, UpdateInStep, PTL DEF Spec

-----------------------------------------------------------------------------
(* What the steps leave of a record: the image it vouches for, its backup. *)
SameImage(p, q) == p.ver = q.ver /\ p.len = q.len /\ p.mac = q.mac /\ p.min = q.min
SameBackup(p, q) == p.bver = q.bver /\ p.blen = q.blen /\ p.bmac = q.bmac

LEMMA EditKeeps ==
    ASSUME NEW q, RecordOK(q)
    PROVE  /\ SameImage(ToRollBack(q), q) /\ SameBackup(ToRollBack(q), q)
           /\ ToRollBack(q).progress = 0 /\ ToRollBack(q).state = "ROLLING_BACK"
           /\ SameBackup(Broken(q), q) /\ Broken(q).len = 0 /\ Broken(q).state = q.state
           /\ SameBackup([Broken(q) EXCEPT !.state = "IDLE"], q)
           /\ [Broken(q) EXCEPT !.state = "IDLE"].len = 0
           /\ [Broken(q) EXCEPT !.state = "IDLE"].state = "IDLE"
<1>1. SameImage(ToRollBack(q), q) BY DEF SameImage, ToRollBack, RecordOK, Record
<1>2. SameBackup(ToRollBack(q), q) BY DEF SameBackup, ToRollBack, RecordOK, Record
<1>3. ToRollBack(q).progress = 0 BY DEF ToRollBack, RecordOK, Record
<1> DEFINE b == Broken(q)
<1>4. SameBackup(b, q) BY DEF SameBackup, Broken, RecordOK, Record
<1>5. RecordOK(b) BY EditFacts
<1> HIDE DEF b
<1>6. SameBackup([b EXCEPT !.state = "IDLE"], b) BY <1>5 DEF SameBackup, RecordOK, Record
<1>7. SameBackup([b EXCEPT !.state = "IDLE"], q) BY <1>4, <1>6 DEF SameBackup
<1> QED BY <1>1, <1>2, <1>3, <1>4, <1>7, EditFacts DEF b

LEMMA InstalledKeeps ==
    ASSUME WorldOK, NEW q, RecordOK(q), NEW ver \in Nat, NEW n \in Lengths
    PROVE  LET a == AsInstalled(q, ver, n)
           IN  /\ RecordOK(a) /\ SameBackup(a, q) /\ a.min = q.min /\ a.state = q.state
               /\ a.ver = ver /\ a.len = n /\ a.mac = image_mac(ver, mac_length(n))
<1>1. RecordOK(AsInstalled(q, ver, n)) BY InstalledType DEF WorldOK
<1> QED BY <1>1 DEF AsInstalled, SameBackup, RecordOK, Record

(* The record in RAM after each step of upd_boot; in flash is that one, or
   still the one before, where the flash refused the store. *)
Stored == rec' = r' \/ ("flash" \in FaultKinds /\ faults' > 0 /\ rec' = rec /\ pc' = "error")

LEMMA WorkFacts ==
    ASSUME UpdateInv, InStep, pc \in Awake, pc # "error"
    PROVE  /\ WorldOK /\ RecordOK(r) /\ r = rec /\ rec # NoRecord /\ Fits(r, pc)
           /\ r.len \in Lengths /\ r.blen \in Lengths
           /\ r.ver \in Nat /\ r.bver \in Nat /\ r.min \in Nat /\ r.progress \in Nat
<1>1. WorldOK /\ RecordOK(r) /\ rec # NoRecord /\ Fits(r, pc) BY AwakeFacts DEF GoesOn
<1> QED BY <1>1 DEF InStep, RecordOK, Record

LEMMA StoreStored ==
    ASSUME WorldOK, NEW q, NEW next, record_store(q, next)
    PROVE  /\ r' = q /\ Stored
           /\ pc' = next \/ (pc' = "error" /\ "flash" \in FaultKinds /\ faults' > 0)
BY NoFaultType DEF record_store, Fault, Stored

LEMMA RefuseEffect ==
    ASSUME UpdateInv, InStep, Refuse \/ NoRoom
    PROVE  /\ Stored /\ SameImage(r', r) /\ SameBackup(r', r) /\ r'.state = "IDLE"
           /\ pc' = "check" \/ (pc' = "error" /\ "flash" \in FaultKinds /\ faults' > 0)
<1>1. pc \in Awake /\ pc # "error" BY DEF Refuse, NoRoom, Awake
<1>2. WorldOK /\ RecordOK(r) BY <1>1, WorkFacts
<1>3. PICK result \in {"REFUSED", "NO_BACKUP"} :
          LET q == [r EXCEPT !.state = "IDLE", !.result = result]
          IN  \/ record_store(q, "check")
              \/ r' = q /\ rec' = q /\ pc' = "check"
      BY DEF Refuse, NoRoom
<1> DEFINE q == [r EXCEPT !.state = "IDLE", !.result = result]
<1>4. SameImage(q, r) /\ SameBackup(q, r) /\ q.state = "IDLE"
      BY <1>2 DEF SameImage, SameBackup, RecordOK, Record
<1>5. record_store(q, "check") \/ (r' = q /\ rec' = q /\ pc' = "check") BY <1>3
<1> HIDE DEF q
<1> QED BY <1>2, <1>4, <1>5, StoreStored DEF Stored

LEMMA BeginEffect ==
    ASSUME UpdateInv, InStep, BeginUpdate
    PROVE  /\ Stored /\ SameImage(r', r) /\ r'.state = "BACKING_UP"
           /\ r'.bver = r.bver /\ r'.bmac = r.bmac
           /\ r'.blen = IF Keep THEN 0 ELSE r.blen
           /\ \/ pc' = IF Keep THEN "backup" ELSE "kept"
              \/ pc' = "error" /\ "flash" \in FaultKinds /\ faults' > 0
<1>1. pc \in Awake /\ pc # "error" BY DEF BeginUpdate, Awake
<1>2. WorldOK /\ RecordOK(r) BY <1>1, WorkFacts
<1> DEFINE n == IF Keep THEN 0 ELSE r.blen
           q == [r EXCEPT !.state = "BACKING_UP", !.progress = 0, !.result = "NONE",
                          !.pkg = stage, !.blen = n]
<1>3. record_store(q, IF Keep THEN "backup" ELSE "kept")
  <2>1. q = [r EXCEPT !.state = "BACKING_UP", !.progress = 0, !.result = "NONE",
                      !.pkg = stage, !.blen = IF Keep THEN 0 ELSE @]
        OBVIOUS
  <2> QED BY <2>1 DEF BeginUpdate
<1> HIDE DEF n
<1>4. SameImage(q, r) /\ q.state = "BACKING_UP" /\ q.bver = r.bver /\ q.bmac = r.bmac
      /\ q.blen = n
      BY <1>2 DEF SameImage, RecordOK, Record
<1> HIDE DEF q
<1>5. /\ r' = q /\ Stored
      /\ \/ pc' = IF Keep THEN "backup" ELSE "kept"
         \/ pc' = "error" /\ "flash" \in FaultKinds /\ faults' > 0
      BY <1>2, <1>3, StoreStored
<1> QED BY <1>4, <1>5 DEF n

LEMMA BackupDoneEffect ==
    ASSUME UpdateInv, InStep, BackupDone
    PROVE  \/ pc' = "error" /\ UNCHANGED <<r, rec>> /\ pc = "backup"
           \/ /\ Stored /\ SameImage(r', r) /\ r'.state = "INSTALLING"
              /\ \/ pc = "kept" /\ SameBackup(r', r)
                 \/ /\ pc = "backup" /\ BackupReadsBack
                    /\ r'.bver = r.ver /\ r'.blen = r.len /\ r'.bmac = backup_mac
              /\ pc' = "install" \/ (pc' = "error" /\ "flash" \in FaultKinds /\ faults' > 0)
<1>1. pc \in {"backup", "kept"} /\ pc \in Awake /\ pc # "error" BY DEF BackupDone, Awake
<1>2. WorldOK /\ RecordOK(r) BY <1>1, WorkFacts
<1> DEFINE k == [r EXCEPT !.state = "INSTALLING"]
           b == [r EXCEPT !.state = "INSTALLING", !.bver = r.ver,
                          !.blen = r.len, !.bmac = backup_mac]
<1>3. \/ pc' = "error" /\ UNCHANGED <<r, rec>> /\ pc = "backup"
      \/ pc = "kept" /\ record_store(k, "install")
      \/ pc = "backup" /\ BackupReadsBack /\ record_store(b, "install")
      BY <1>1 DEF BackupDone
<1>4. SameImage(k, r) /\ SameBackup(k, r) /\ k.state = "INSTALLING"
      BY <1>2 DEF SameImage, SameBackup, RecordOK, Record
<1>5. SameImage(b, r) /\ b.state = "INSTALLING"
      /\ b.bver = r.ver /\ b.blen = r.len /\ b.bmac = backup_mac
      BY <1>2 DEF SameImage, RecordOK, Record
<1> HIDE DEF k, b
<1>6. CASE pc = "kept" /\ record_store(k, "install") BY <1>2, <1>4, <1>6, StoreStored
<1>7. CASE pc = "backup" /\ BackupReadsBack /\ record_store(b, "install")
      BY <1>2, <1>5, <1>7, StoreStored
<1> QED BY <1>3, <1>6, <1>7

(* Turned to the rollback, whichever the reason. *)
TurnedBack == /\ Stored /\ SameImage(r', r) /\ SameBackup(r', r)
              /\ r'.state = "ROLLING_BACK" /\ r'.progress = 0
              /\ pc' = "rollback" \/ (pc' = "error" /\ "flash" \in FaultKinds /\ faults' > 0)

LEMMA TurnEffect ==
    ASSUME WorldOK, RecordOK(r),
           \/ record_store(ToRollBack(r), "rollback")
           \/ r' = ToRollBack(r) /\ rec' = ToRollBack(r) /\ pc' = "rollback"
    PROVE  TurnedBack
<1>1. /\ r' = ToRollBack(r) /\ Stored
      /\ pc' = "rollback" \/ (pc' = "error" /\ "flash" \in FaultKinds /\ faults' > 0)
      BY StoreStored DEF Stored
<1> QED BY <1>1, EditKeeps DEF TurnedBack

LEMMA ProgressEffect ==
    ASSUME UpdateInv, InStep, StoreProgress
    PROVE  /\ Stored /\ SameImage(r', r) /\ SameBackup(r', r)
           /\ r'.state = r.state /\ r'.progress = blk + 1
           /\ \/ pc' = IF r.state = "INSTALLING" THEN "program" ELSE "restore"
              \/ pc' = "error" /\ "flash" \in FaultKinds /\ faults' > 0
<1>1. pc \in Awake /\ pc # "error" BY DEF StoreProgress, Awake
<1>2. WorldOK /\ RecordOK(r) BY <1>1, WorkFacts
<1> DEFINE q == [r EXCEPT !.progress = blk + 1]
<1>3. record_store(q, IF r.state = "INSTALLING" THEN "program" ELSE "restore")
      BY DEF StoreProgress
<1>4. SameImage(q, r) /\ SameBackup(q, r) /\ q.state = r.state /\ q.progress = blk + 1
      BY <1>2 DEF SameImage, SameBackup, RecordOK, Record
<1> HIDE DEF q
<1>5. /\ r' = q /\ Stored
      /\ \/ pc' = IF r.state = "INSTALLING" THEN "program" ELSE "restore"
         \/ pc' = "error" /\ "flash" \in FaultKinds /\ faults' > 0
      BY <1>2, <1>3, StoreStored
<1> QED BY <1>4, <1>5

LEMMA InstalledEffect ==
    ASSUME UpdateInv, InStep, Installed
    PROVE  LET len == installed_length(r.pkg.len)
           IN  \/ /\ CheckSignature => signed_ok(r, r.pkg.ver, len)
                  /\ Stored /\ SameBackup(r', r) /\ r'.state = "TRIAL" /\ r'.min = r.min
                  /\ r'.ver = r.pkg.ver /\ r'.len = len
                  /\ r'.mac = image_mac(r.pkg.ver, mac_length(len))
                  /\ pc' = "check" \/ (pc' = "error" /\ "flash" \in FaultKinds /\ faults' > 0)
               \/ TurnedBack
<1>1. pc = "installed" /\ pc \in Awake /\ pc # "error" BY DEF Installed, Awake
<1>2. WorldOK /\ RecordOK(r) /\ r.state = "INSTALLING" BY <1>1, WorkFacts DEF Fits
<1> DEFINE len == installed_length(r.pkg.len)
           a == AsInstalled(r, r.pkg.ver, len)
           q == [a EXCEPT !.state = "TRIAL", !.progress = 0]
<1>3. r.pkg.ver \in Nat /\ len \in Lengths BY <1>2, SizeFacts DEF RecordOK
<1>4. /\ RecordOK(a) /\ SameBackup(a, r) /\ a.min = r.min
      /\ a.ver = r.pkg.ver /\ a.len = len /\ a.mac = image_mac(r.pkg.ver, mac_length(len))
      BY <1>2, <1>3, InstalledKeeps
<1>5. \/ (CheckSignature => signed_ok(r, r.pkg.ver, len)) /\ record_store(q, "check")
      \/ record_store(ToRollBack(r), "rollback")
      BY DEF Installed
<1> HIDE DEF a, len
<1>6. /\ SameBackup(q, a) /\ q.min = a.min /\ q.ver = a.ver /\ q.len = a.len /\ q.mac = a.mac
      /\ q.state = "TRIAL"
      BY <1>4 DEF SameBackup, RecordOK, Record
<1> HIDE DEF q
<1>7. CASE (CheckSignature => signed_ok(r, r.pkg.ver, len)) /\ record_store(q, "check")
  <2>1. /\ r' = q /\ Stored
        /\ pc' = "check" \/ (pc' = "error" /\ "flash" \in FaultKinds /\ faults' > 0)
        BY <1>2, <1>7, StoreStored
  <2> QED BY <1>4, <1>6, <1>7, <2>1 DEF SameBackup, len
<1>8. CASE record_store(ToRollBack(r), "rollback") BY <1>2, <1>8, TurnEffect
<1> QED BY <1>5, <1>7, <1>8

LEMMA TrialEffect ==
    ASSUME UpdateInv, InStep, TrialBoot
    PROVE  \/ /\ Stored /\ SameImage(r', r) /\ SameBackup(r', r) /\ r'.state = "TRIAL"
              /\ pc' = "check" \/ (pc' = "error" /\ "flash" \in FaultKinds /\ faults' > 0)
           \/ /\ Stored /\ SameBackup(r', r) /\ r.blen = 0 /\ r'.len = 0 /\ r'.state = "IDLE"
              /\ pc' = "check" \/ (pc' = "error" /\ "flash" \in FaultKinds /\ faults' > 0)
           \/ TurnedBack
<1>1. pc = "trial" /\ pc \in Awake /\ pc # "error" BY DEF TrialBoot, Awake
<1>2. WorldOK /\ RecordOK(r) /\ r.state = "TRIAL" BY <1>1, WorkFacts DEF Fits
<1> DEFINE q == [r EXCEPT !.progress = @ + 1]
           broken == [Broken(q) EXCEPT !.state = "IDLE"]
           back == ToRollBack(q)
<1>3. \/ record_store(q, "check")
      \/ r.blen = 0 /\ record_store(broken, "check")
      \/ record_store(back, "rollback")
      BY DEF TrialBoot
<1>4. RecordOK(q) /\ SameImage(q, r) /\ SameBackup(q, r) /\ q.state = "TRIAL"
  <2>1. RecordOK(q) BY <1>2 DEF RecordOK, Record
  <2> QED BY <1>2, <2>1 DEF SameImage, SameBackup, RecordOK, Record
<1> HIDE DEF q
<1>5. SameBackup(broken, q) /\ broken.len = 0 /\ broken.state = "IDLE" BY <1>4, EditKeeps
<1>6. SameImage(back, q) /\ SameBackup(back, q) /\ back.state = "ROLLING_BACK" /\ back.progress = 0
      BY <1>4, EditKeeps
<1> HIDE DEF broken, back
<1>7. CASE record_store(q, "check") BY <1>2, <1>4, <1>7, StoreStored
<1>8. CASE r.blen = 0 /\ record_store(broken, "check")
  <2>1. /\ r' = broken /\ Stored
        /\ pc' = "check" \/ (pc' = "error" /\ "flash" \in FaultKinds /\ faults' > 0)
        BY <1>2, <1>8, StoreStored
  <2> QED BY <1>4, <1>5, <1>8, <2>1 DEF SameBackup
<1>9. CASE record_store(back, "rollback")
  <2>1. /\ r' = back /\ Stored
        /\ pc' = "rollback" \/ (pc' = "error" /\ "flash" \in FaultKinds /\ faults' > 0)
        BY <1>2, <1>9, StoreStored
  <2> QED BY <1>4, <1>6, <2>1 DEF SameBackup, SameImage, TurnedBack
<1> QED BY <1>3, <1>7, <1>8, <1>9

LEMMA CannotEffect ==
    ASSUME UpdateInv, InStep, CannotRollBack
    PROVE  /\ Stored /\ SameBackup(r', r) /\ r'.len = 0 /\ r'.state = "IDLE"
           /\ pc' = "check" \/ (pc' = "error" /\ "flash" \in FaultKinds /\ faults' > 0)
<1>1. pc \in Awake /\ pc # "error" BY DEF CannotRollBack, Awake
<1>2. WorldOK /\ RecordOK(r) BY <1>1, WorkFacts
<1> DEFINE q == [Broken(r) EXCEPT !.state = "IDLE"]
<1>3. record_store(q, "check") BY DEF CannotRollBack
<1>4. SameBackup(q, r) /\ q.len = 0 /\ q.state = "IDLE" BY <1>2, EditKeeps
<1> HIDE DEF q
<1> QED BY <1>2, <1>3, <1>4, StoreStored

LEMMA RestoredEffect ==
    ASSUME UpdateInv, InStep, Restored
    PROVE  /\ Stored /\ SameBackup(r', r) /\ r'.state = "IDLE" /\ r'.min = r.min
           /\ r'.ver = r.bver /\ r'.len = r.blen
           /\ r'.mac = image_mac(r.bver, mac_length(r.blen))
           /\ pc' = "check" \/ (pc' = "error" /\ "flash" \in FaultKinds /\ faults' > 0)
<1>1. pc \in Awake /\ pc # "error" BY DEF Restored, Awake
<1>2. WorldOK /\ RecordOK(r) /\ r.bver \in Nat /\ r.blen \in Lengths BY <1>1, WorkFacts
<1> DEFINE a == AsInstalled(r, r.bver, r.blen)
           q == [a EXCEPT !.state = "IDLE", !.progress = 0, !.result = "ROLLED_BACK"]
<1>3. record_store(q, "check") BY DEF Restored
<1>4. /\ RecordOK(a) /\ SameBackup(a, r) /\ a.min = r.min
      /\ a.ver = r.bver /\ a.len = r.blen /\ a.mac = image_mac(r.bver, mac_length(r.blen))
      BY <1>2, InstalledKeeps
<1> HIDE DEF a
<1>5. /\ SameBackup(q, a) /\ q.min = a.min /\ q.ver = a.ver /\ q.len = a.len /\ q.mac = a.mac
      /\ q.state = "IDLE"
      BY <1>4 DEF SameBackup, RecordOK, Record
<1> HIDE DEF q
<1>6. /\ r' = q /\ Stored
      /\ pc' = "check" \/ (pc' = "error" /\ "flash" \in FaultKinds /\ faults' > 0)
      BY <1>2, <1>3, StoreStored
<1> QED BY <1>4, <1>5, <1>6 DEF SameBackup

(* Adopted: the image in flash, made the installed one. *)
LEMMA AdoptedKeeps ==
    ASSUME WorldOK, NEW q, RecordOK(q)
    PROVE  /\ RecordOK(Adopted(q)) /\ SameBackup(Adopted(q), q)
           /\ Adopted(q).min = q.min /\ Adopted(q).state = q.state
           /\ Adopted(q).ver = 0 /\ Adopted(q).len = installed_length(SlotBlocks)
           /\ Adopted(q).mac = image_mac(0, mac_length(installed_length(SlotBlocks)))
<1>1. installed_length(SlotBlocks) \in Lengths /\ 0 \in Nat BY SizeFacts
<1> QED BY <1>1, InstalledKeeps DEF Adopted

LEMMA AdoptChangedEffect ==
    ASSUME UpdateInv, InStep, AdoptChanged
    PROVE  /\ Stored /\ SameBackup(r', r) /\ r'.state = "IDLE" /\ r'.min = r.min
           /\ r'.ver = 0 /\ r'.len = installed_length(SlotBlocks)
           /\ r'.mac = image_mac(0, mac_length(installed_length(SlotBlocks)))
           /\ pc' = "check" \/ (pc' = "error" /\ "flash" \in FaultKinds /\ faults' > 0)
<1>1. pc \in Awake /\ pc # "error" BY DEF AdoptChanged, Awake
<1>2. WorldOK /\ RecordOK(r) BY <1>1, WorkFacts
<1> DEFINE a == Adopted(r)
           q == [a EXCEPT !.state = "IDLE", !.progress = 0, !.result = "NONE"]
<1>3. record_store(q, "check") BY DEF AdoptChanged
<1>4. /\ RecordOK(a) /\ SameBackup(a, r) /\ a.min = r.min
      /\ a.ver = 0 /\ a.len = installed_length(SlotBlocks)
      /\ a.mac = image_mac(0, mac_length(installed_length(SlotBlocks)))
      BY <1>2, AdoptedKeeps
<1> HIDE DEF a
<1>5. /\ SameBackup(q, a) /\ q.min = a.min /\ q.ver = a.ver /\ q.len = a.len /\ q.mac = a.mac
      /\ q.state = "IDLE"
      BY <1>4 DEF SameBackup, RecordOK, Record
<1> HIDE DEF q
<1>6. /\ r' = q /\ Stored
      /\ pc' = "check" \/ (pc' = "error" /\ "flash" \in FaultKinds /\ faults' > 0)
      BY <1>2, <1>3, StoreStored
<1> QED BY <1>4, <1>5, <1>6 DEF SameBackup

LEMMA ConfirmEffect ==
    ASSUME UpdateInv, Confirm
    PROVE  \/ rec' = rec
           \/ /\ SameBackup(rec', rec) /\ rec'.state = "IDLE"
              /\ rec'.ver = rec.ver /\ rec'.len = rec.len /\ rec'.mac = rec.mac
              /\ rec'.min = IF rec.pkg.min > rec.min THEN rec.pkg.min ELSE rec.min
<1>1. RecordOK(rec) BY InvFacts DEF Confirm, OnTrial
<1> DEFINE q == Confirmed
<1>2. rec' \in {rec, q} BY DEF Confirm
<1>3. /\ SameBackup(q, rec) /\ q.state = "IDLE"
      /\ q.ver = rec.ver /\ q.len = rec.len /\ q.mac = rec.mac
      /\ q.min = IF rec.pkg.min > rec.min THEN rec.pkg.min ELSE rec.min
      BY <1>1 DEF Confirmed, SameBackup, RecordOK, Record
<1> HIDE DEF q
<1> QED BY <1>2, <1>3

LEMMA NewKeeps ==
    ASSUME WorldOK
    PROVE  /\ RecordOK(NewRecord) /\ NewRecord.state = "IDLE" /\ NewRecord.blen = 0
           /\ ~AdoptBlank => NewRecord.len = 0
           /\ AdoptBlank => /\ NewRecord.ver = 0 /\ NewRecord.len = installed_length(SlotBlocks)
                            /\ NewRecord.mac = image_mac(0, mac_length(installed_length(SlotBlocks)))
<1>1. RecordOK(NewRecord) /\ NewRecord.state = "IDLE" BY BlankType
<1>2. RecordOK(BlankRecord) /\ BlankRecord.blen = 0 /\ BlankRecord.len = 0
  <2>1. image_mac(0, 0) \in [ver : Nat, data : Data] BY ImageMacType, SizeFacts DEF WorldOK
  <2> QED BY <2>1, SizeFacts DEF BlankRecord, RecordOK, Record, MaybePackage
<1>3. CASE AdoptBlank
  <2> DEFINE q == BlankRecord
  <2>1. RecordOK(q) /\ q.blen = 0 BY <1>2
  <2> HIDE DEF q
  <2>2. /\ SameBackup(Adopted(q), q) /\ Adopted(q).ver = 0
        /\ Adopted(q).len = installed_length(SlotBlocks)
        /\ Adopted(q).mac = image_mac(0, mac_length(installed_length(SlotBlocks)))
        BY <2>1, AdoptedKeeps
  <2>3. NewRecord = Adopted(q) BY <1>3 DEF NewRecord, q
  <2> QED BY <1>1, <1>3, <2>1, <2>2, <2>3 DEF SameBackup
<1>4. CASE ~AdoptBlank BY <1>1, <1>2, <1>4 DEF NewRecord
<1> QED BY <1>3, <1>4

(* What recovery does to the record. *)
LEMMA RecoveryEffect ==
    ASSUME UpdateInv, (\E p \in Packages : Receive(p)) \/ Adopt \/ Enroll
    PROVE  \/ rec' = rec
           \/ /\ rec = NoRecord
              /\ \/ rec' = NewRecord
                 \/ rec'.blen = 0 /\ rec'.len = 0 /\ rec'.state = "IDLE" /\ (forced \/ faults' > 0)
           \/ /\ rec # NoRecord /\ rec.state = "IDLE" /\ rec'.state = "IDLE"
              /\ SameBackup(rec', rec)
              /\ \/ rec'.len = 0 /\ (forced \/ faults' > 0)
                 \/ /\ AdoptBlank
                    /\ rec'.ver = 0 /\ rec'.len = installed_length(SlotBlocks)
                    /\ rec'.mac = image_mac(0, mac_length(installed_length(SlotBlocks)))
<1>1. WorldOK BY InvFacts
<1>2. CASE \E p \in Packages : Receive(p)
  <2>1. PICK p \in Packages : Receive(p) BY <1>2
  <2> DEFINE q == IF rec = NoRecord THEN NewRecord ELSE rec
  <2>2. RecordOK(q) BY <1>1, BlankType, InvFacts
  <2>3. \/ rec' = rec
        \/ rec' = q
        \/ q.state = "IDLE" /\ rec' = Broken(q) /\ forced
        BY <2>1 DEF Receive
  <2>5. rec # NoRecord => q = rec BY DEF q
  <2>6. rec = NoRecord => q = NewRecord /\ q.state = "IDLE" /\ q.blen = 0 BY <1>1, NewKeeps
  <2> HIDE DEF q
  <2>4. SameBackup(Broken(q), q) /\ Broken(q).len = 0 /\ Broken(q).state = q.state
        BY <2>2, EditKeeps
  <2> QED BY <2>3, <2>4, <2>5, <2>6 DEF SameBackup
<1>3. CASE Adopt
  <2>1. RecordOK(rec) /\ rec # NoRecord /\ rec.state = "IDLE" /\ AdoptBlank
        BY <1>3, InvFacts DEF Adopt
  <2> DEFINE a == Adopted(rec)
             q == [a EXCEPT !.result = "NONE"]
  <2>2. /\ RecordOK(a) /\ SameBackup(a, rec) /\ a.state = "IDLE"
        /\ a.ver = 0 /\ a.len = installed_length(SlotBlocks)
        /\ a.mac = image_mac(0, mac_length(installed_length(SlotBlocks)))
        BY <1>1, <2>1, AdoptedKeeps
  <2>3. rec' \in {rec, q} BY <1>3 DEF Adopt
  <2> HIDE DEF a
  <2>4. /\ SameBackup(q, a) /\ q.ver = a.ver /\ q.len = a.len /\ q.mac = a.mac
        /\ q.state = a.state
        BY <2>2 DEF SameBackup, RecordOK, Record
  <2> HIDE DEF q
  <2> QED BY <2>1, <2>2, <2>3, <2>4 DEF SameBackup
<1>4. CASE Enroll BY <1>4 DEF Enroll
<1> QED BY <1>2, <1>3, <1>4

-----------------------------------------------------------------------------
(* The boot check, of a record, a flash and a header given. *)
Ok(q, flashed, h) ==
    /\ q.mac = [ver |-> q.ver, data |-> [b \in 0..mac_length(q.len) - 1 |-> flashed[b]]]
    /\ CheckSignature => /\ h \in Packages /\ h.app
                         /\ h.ver = q.ver /\ h.len = q.len /\ h.ver >= q.min
                         /\ \A b \in 0..h.len - 1 : flashed[b] = h.img

LEMMA OkIsInstalled == \A q : Ok(q, v5f, header) <=> installed_ok(q)
BY DEF Ok, installed_ok, installed_mac, image_mac, signed_ok, Holds

LEMMA OkOfImage ==
    ASSUME NEW p, NEW q, NEW f, NEW h, SameImage(p, q) PROVE Ok(p, f, h) <=> Ok(q, f, h)
BY DEF Ok, SameImage

(* Where the pages count, a whole image or none; where the signature counts
   too, the backup is one package's. *)
Sound(q) ==
    /\ CheckPages => {q.len, q.blen} \subseteq {0, SpanBlocks}
    /\ CheckSignature /\ CheckPages /\ q.blen # 0 =>
         \E p \in Packages : /\ p.app /\ p.len = SpanBlocks /\ p.ver = q.bver
                             /\ q.bmac.b0 = p
                             /\ \A b \in Block : q.bmac.data[b] = p.img

BackingUp ==
    /\ r.len # 0 /\ r.blen = 0 /\ Ok(r, v5f, header)
    /\ blk > 0 => backup.ver = r.ver /\ backup.len = r.len
    /\ blk > 1 + r.len => backup.b0 = header

(* Without a refused store, an error leaves an image half programmed, or one
   that checked when its backup began. *)
ErrorSafe ==
    pc = "error" /\ "flash" \notin FaultKinds /\ r.state \notin {"INSTALLING", "ROLLING_BACK"}
    => r.len # 0 /\ Ok(r, v5f, header)

SafeInv ==
    /\ Known => Sound(rec)
    /\ pc = "backup" => BackingUp
    /\ ErrorSafe

LEMMA SoundSame ==
    ASSUME NEW p, NEW q, Sound(q), SameBackup(p, q),
           CheckPages => p.len \in {q.len, q.blen, 0, SpanBlocks}
    PROVE  Sound(p)
BY DEF Sound, SameBackup

LEMMA SoundNone ==
    ASSUME NEW q, q.blen = 0, CheckPages => q.len \in {0, SpanBlocks} PROVE Sound(q)
BY DEF Sound

LEMMA WholeLength == \A n : CheckPages => installed_length(n) = SpanBlocks
BY DEF installed_length

(* The record read back from a backup just made is sound. *)
LEMMA SoundBackup ==
    ASSUME UpdateInv, InStep, SafeInv, BackupDone, pc = "backup", BackupReadsBack,
           NEW q, SameImage(q, r), q.bver = r.ver, q.blen = r.len, q.bmac = backup_mac
    PROVE  Sound(q)
<1>1. pc \in Awake /\ pc # "error" BY DEF Awake
<1>2. r = rec /\ rec # NoRecord /\ r.len \in Lengths /\ WorldOK BY <1>1, WorkFacts
<1>3. BackingUp /\ Sound(r) BY <1>2 DEF SafeInv, Known
<1>4. CheckPages => {q.len, q.blen} \subseteq {0, SpanBlocks} BY <1>3 DEF Sound, SameImage
<1>5. ASSUME CheckSignature, CheckPages
      PROVE  /\ header \in Packages /\ header.app /\ header.len = SpanBlocks
             /\ header.ver = q.bver /\ q.bmac.b0 = header
             /\ \A b \in Block : q.bmac.data[b] = header.img
  <2>1. r.len = SpanBlocks /\ Ok(r, v5f, header) BY <1>3, <1>5 DEF BackingUp, Sound
  <2>2. /\ header \in Packages /\ header.app /\ header.len = SpanBlocks /\ header.ver = r.ver
        /\ \A b \in 0..SpanBlocks - 1 : v5f[b] = header.img
        BY <1>5, <2>1 DEF Ok
  <2>3. blk = 2 + SpanBlocks BY <1>5, <2>1, SizesAssumption DEF BackupDone, NeededBlocks
  <2>4. backup.len = SpanBlocks /\ backup.b0 = header
        BY <1>3, <2>1, <2>3, SizesAssumption DEF BackingUp
  <2>5. \A b \in 0..SpanBlocks - 1 : backup.data[b] = v5f[b] BY <2>1 DEF BackupReadsBack
  <2>6. q.bmac.b0 = header BY <1>5, <2>4 DEF backup_mac
  <2>7. \A b \in Block : q.bmac.data[b] = backup.data[b] BY <2>4 DEF backup_mac, Block
  <2> QED BY <2>2, <2>5, <2>6, <2>7 DEF Block
<1> QED BY <1>4, <1>5 DEF Sound

(* Every record a step stores is sound. *)
LEMMA StoredSound ==
    ASSUME Stored, Known, Sound(rec), Sound(r') PROVE (Known => Sound(rec))'
BY DEF Stored, Known

(* A step that leaves the record, and what its image was checked with. *)
LEMMA SameSafe ==
    ASSUME SafeInv, UNCHANGED <<r, rec, pc, blk, backup>>,
           pc \in {"backup", "error"} => UNCHANGED <<v5f, header>>
    PROVE  SafeInv'
BY DEF SafeInv, Known, BackingUp, ErrorSafe

(* A step to anywhere but the backup. *)
LEMMA ToSafe ==
    ASSUME (Known => Sound(rec))', pc' # "backup",
           \/ pc' # "error" \/ "flash" \in FaultKinds
           \/ r'.state \in {"INSTALLING", "ROLLING_BACK"}
           \/ r'.len # 0 /\ Ok(r', v5f', header')
    PROVE  SafeInv'
BY DEF SafeInv, ErrorSafe

LEMMA StepSafe == ASSUME UpdateInv, InStep, SafeInv, [Next]_vars PROVE SafeInv'
<1>1. WorldOK BY InvFacts
<1>2. pc \in Awake \ {"error"} =>
          /\ RecordOK(r) /\ Fits(r, pc) /\ r = rec /\ Known /\ Sound(r) /\ Sound(rec)
      BY WorkFacts DEF SafeInv, Known
<1>3. CASE \E waiting \in BOOLEAN : Boot(waiting)
  <2>1. PICK waiting \in BOOLEAN : Boot(waiting) BY <1>3
  <2>2. ASSUME NEW q, RecordOK(q) PROVE Switch(q, waiting) \notin {"backup", "error"}
        BY <2>2 DEF RecordOK, Record, Switch
  <2>3. CASE rec # NoRecord
    <3>1. RecordOK(rec) BY <2>3, InvFacts
    <3>2. r' = rec /\ rec' = rec /\ pc' \notin {"backup", "error"}
          BY <2>1, <2>2, <2>3, <3>1 DEF Boot
    <3> QED BY <2>3, <3>2, ToSafe DEF SafeInv, Known
  <2>4. CASE rec = NoRecord
    <3> DEFINE q == NewRecord
    <3>1. RecordOK(q) /\ q.blen = 0 /\ (q.len = 0 \/ q.len = installed_length(SlotBlocks))
          BY <1>1, NewKeeps
    <3>2. record_store(q, Switch(q, waiting)) BY <2>1, <2>4 DEF Boot
    <3> HIDE DEF q
    <3>3. rec' \in {NoRecord, q} /\ pc' # "backup" /\ (pc' # "error" \/ "flash" \in FaultKinds)
          BY <1>1, <2>2, <2>4, <3>1, <3>2, StoreStored DEF Stored, record_store
    <3>4. Sound(q) BY <3>1, SoundNone, WholeLength
    <3> QED BY <3>3, <3>4, ToSafe DEF Known
  <2> QED BY <2>3, <2>4
<1>4. CASE \/ \E waiting \in BOOLEAN : NeverUpdated(waiting)
           \/ Start \/ NoImage \/ StoppedByError \/ DoesNotStart \/ Cut
  <2>1. pc' \notin {"backup", "error"}
        BY <1>4 DEF NeverUpdated, Start, NoImage, StoppedByError, DoesNotStart, Cut, Leave
  <2>2. rec' = rec
        BY <1>4 DEF NeverUpdated, Start, NoImage, StoppedByError, DoesNotStart, Cut, flash
  <2> QED BY <2>1, <2>2, ToSafe DEF SafeInv, Known
<1>5. CASE Refuse \/ NoRoom
  <2>1. pc \in Awake \ {"error"} BY <1>5 DEF Refuse, NoRoom, Awake
  <2>2. /\ Stored /\ SameImage(r', r) /\ SameBackup(r', r)
        /\ pc' = "check" \/ (pc' = "error" /\ "flash" \in FaultKinds /\ faults' > 0)
        BY <1>5, RefuseEffect
  <2>3. Sound(r') BY <1>2, <2>1, <2>2, SoundSame DEF SameImage
  <2> QED BY <1>2, <2>1, <2>2, <2>3, StoredSound, ToSafe
<1>6. CASE BeginUpdate
  <2>1. pc \in Awake \ {"error"} BY <1>6 DEF BeginUpdate, Awake
  <2>2. /\ Stored /\ SameImage(r', r) /\ r'.bver = r.bver /\ r'.bmac = r.bmac
        /\ r'.blen = IF Keep THEN 0 ELSE r.blen
        /\ \/ pc' = IF Keep THEN "backup" ELSE "kept"
           \/ pc' = "error" /\ "flash" \in FaultKinds /\ faults' > 0
        BY <1>6, BeginEffect
  <2>3. Sound(r')
    <3>1. CASE Keep
      <4>1. r'.blen = 0 BY <2>2, <3>1
      <4>2. CheckPages => r'.len \in {0, SpanBlocks} BY <1>2, <2>1, <2>2 DEF Sound, SameImage
      <4> QED BY <4>1, <4>2, SoundNone
    <3>2. CASE ~Keep
      <4>1. SameBackup(r', r) BY <2>2, <3>2 DEF SameBackup
      <4> QED BY <1>2, <2>1, <2>2, <4>1, SoundSame DEF SameImage
    <3> QED BY <3>1, <3>2
  <2>4. (Known => Sound(rec))' BY <1>2, <2>1, <2>2, <2>3, StoredSound
  <2>5. CASE pc' = "backup"
    <3>1. Keep BY <2>2, <2>5
    <3>2. r.len # 0 /\ Ok(r, v5f, header) BY <3>1, OkIsInstalled DEF Keep
    <3>3. Ok(r', v5f, header) BY <2>2, <3>2, OkOfImage
    <3>4. blk' = 0 /\ UNCHANGED <<v5f, header>> BY <1>6 DEF BeginUpdate
    <3>5. r'.len # 0 /\ r'.blen = 0 BY <2>2, <3>1, <3>2 DEF SameImage
    <3>6. r'.len \in Nat
      <4>1. r.len \in Lengths BY <2>1, WorkFacts
      <4> QED BY <2>2, <4>1, SizeFacts DEF SameImage
    <3>7. ~(blk' > 0) /\ ~(blk' > 1 + r'.len) BY <3>4, <3>6
    <3>8. BackingUp' BY <3>3, <3>4, <3>5, <3>7 DEF BackingUp
    <3> QED BY <2>4, <2>5, <3>8 DEF SafeInv, ErrorSafe
  <2>6. CASE pc' # "backup" BY <2>2, <2>4, <2>6, ToSafe
  <2> QED BY <2>5, <2>6
<1>7. CASE BackupBlock
  <2>1. pc = "backup" /\ pc \in Awake \ {"error"} BY <1>7 DEF BackupBlock, Awake
  <2>2. BackingUp /\ Sound(rec) BY <1>2, <2>1 DEF SafeInv
  <2>3. UNCHANGED <<v5f, header, rec, r>> BY <1>7 DEF BackupBlock, flash
  <2>4. (Known => Sound(rec))' BY <2>2, <2>3 DEF Known
  <2>5. CASE pc' = "error" BY <2>2, <2>3, <2>4, <2>5, ToSafe DEF BackingUp
  <2>6. CASE pc' # "error"
    <3>1. pc' = pc /\ backup' = BackupWith(blk) /\ blk' = blk + 1
          BY <1>7, <2>6 DEF BackupBlock
    <3>2. blk \in Nat /\ r.len \in Nat
      <4>1. r.len \in Lengths BY <2>1, WorkFacts
      <4> QED BY <1>1, <4>1, SizeFacts DEF WorldOK
    <3>3. backup \in [ver : Nat, len : Lengths, data : [Block -> Contents], b0 : MaybePackage]
          BY <1>1 DEF WorldOK
    <3>4. CASE blk = 0
      <4>1. backup'.ver = r.ver /\ backup'.len = r.len BY <3>1, <3>3, <3>4 DEF BackupWith
      <4>2. ~(blk' > 1 + r'.len) BY <2>3, <3>1, <3>2, <3>4
      <4>3. BackingUp' BY <2>2, <2>3, <4>1, <4>2 DEF BackingUp
      <4> QED BY <2>1, <2>4, <3>1, <4>3 DEF SafeInv, ErrorSafe
    <3>5. CASE blk # 0
      <4>1. backup.ver = r.ver /\ backup.len = r.len BY <2>2, <3>2, <3>5 DEF BackingUp
      <4>2. backup'.ver = backup.ver /\ backup'.len = backup.len
            BY <3>1, <3>3, <3>5 DEF BackupWith
      <4>3. blk' > 1 + r.len => blk > r.len BY <3>1, <3>2
      <4>4. blk > r.len => backup'.b0 = header
        <5>1. blk > r.len => ~(blk <= r.len) BY <3>2
        <5> QED BY <3>1, <3>3, <3>5, <5>1 DEF BackupWith
      <4>5. BackingUp' BY <2>2, <2>3, <4>1, <4>2, <4>3, <4>4 DEF BackingUp
      <4> QED BY <2>1, <2>4, <3>1, <4>5 DEF SafeInv, ErrorSafe
    <3> QED BY <3>4, <3>5
  <2> QED BY <2>5, <2>6
<1>8. CASE BackupDone
  <2>1. pc \in {"backup", "kept"} /\ pc \in Awake \ {"error"} BY <1>8 DEF BackupDone, Awake
  <2>2. UNCHANGED <<v5f, header>> BY <1>8 DEF BackupDone
  <2>3. CASE pc' = "error" /\ UNCHANGED <<r, rec>> /\ pc = "backup"
    <3>1. BackingUp /\ Sound(rec) BY <1>2, <2>1, <2>3 DEF SafeInv
    <3>2. (Known => Sound(rec))' BY <2>3, <3>1 DEF Known
    <3> QED BY <2>2, <2>3, <3>1, <3>2, ToSafe DEF BackingUp
  <2>4. CASE /\ Stored /\ SameImage(r', r)
             /\ \/ pc = "kept" /\ SameBackup(r', r)
                \/ /\ pc = "backup" /\ BackupReadsBack
                   /\ r'.bver = r.ver /\ r'.blen = r.len /\ r'.bmac = backup_mac
             /\ pc' = "install" \/ (pc' = "error" /\ "flash" \in FaultKinds /\ faults' > 0)
    <3>1. Sound(r')
      <4>1. CASE SameBackup(r', r) BY <1>2, <2>1, <2>4, <4>1, SoundSame DEF SameImage
      <4>2. CASE /\ pc = "backup" /\ BackupReadsBack
                 /\ r'.bver = r.ver /\ r'.blen = r.len /\ r'.bmac = backup_mac
            BY <1>8, <2>4, <4>2, SoundBackup
      <4> QED BY <2>4, <4>1, <4>2
    <3> QED BY <1>2, <2>1, <2>4, <3>1, StoredSound, ToSafe
  <2> QED BY <1>8, <2>3, <2>4, BackupDoneEffect
<1>9. ASSUME TurnedBack, pc \in Awake \ {"error"} PROVE SafeInv'
  <2>1. Sound(r') BY <1>2, <1>9, SoundSame DEF TurnedBack, SameImage
  <2> QED BY <1>2, <1>9, <2>1, StoredSound, ToSafe DEF TurnedBack
<1>10. CASE Install \/ ProgramBlock \/ Verify
  <2>1. pc \in Awake \ {"error"} /\ r.state = "INSTALLING"
        BY <1>2, <1>10 DEF Install, ProgramBlock, Verify, Awake, Fits
  <2>2. CASE \/ record_store(ToRollBack(r), "rollback")
             \/ r' = ToRollBack(r) /\ rec' = ToRollBack(r) /\ pc' = "rollback"
        BY <1>1, <1>2, <1>9, <2>1, <2>2, TurnEffect
  <2>3. CASE UNCHANGED <<r, rec>> /\ pc' # "backup"
    <3>1. (Known => Sound(rec))' BY <2>3 DEF SafeInv, Known
    <3> QED BY <2>1, <2>3, <3>1, ToSafe
  <2>4. CASE Install BY <2>2, <2>3, <2>4 DEF Install
  <2>5. CASE Verify BY <2>2, <2>3, <2>5 DEF Verify
  <2>6. CASE ProgramBlock
        BY <2>2, <2>3, <2>6 DEF ProgramBlock, Programmed, NoCard
  <2> QED BY <1>10, <2>4, <2>5, <2>6
<1>11. CASE StoreProgress
  <2>1. pc \in Awake \ {"error"} BY <1>11 DEF StoreProgress, Awake
  <2>2. /\ Stored /\ SameImage(r', r) /\ SameBackup(r', r)
        /\ pc' # "backup" /\ (pc' # "error" \/ "flash" \in FaultKinds)
        BY <1>11, ProgressEffect
  <2>3. Sound(r') BY <1>2, <2>1, <2>2, SoundSame DEF SameImage
  <2> QED BY <1>2, <2>1, <2>2, <2>3, StoredSound, ToSafe
<1>12. CASE StoreHeader \/ BeginRestore \/ RestoreBlock \/ RestoreHeader
  <2>1. r.state \in {"INSTALLING", "ROLLING_BACK"}
        BY <1>2, <1>12 DEF StoreHeader, BeginRestore, RestoreBlock, RestoreHeader, Fits, Awake
  <2>2. UNCHANGED <<r, rec>> /\ pc' # "backup"
        BY <1>12 DEF StoreHeader, BeginRestore, RestoreBlock, RestoreHeader, StoredHeader,
                     Programmed, NoCard, flash
  <2>3. (Known => Sound(rec))' BY <2>2 DEF SafeInv, Known
  <2> QED BY <2>1, <2>2, <2>3, ToSafe
<1>13. CASE Installed
  <2>1. pc \in Awake \ {"error"} BY <1>13 DEF Installed, Awake
  <2>2. CASE TurnedBack BY <1>9, <2>1, <2>2
  <2>3. CASE /\ Stored /\ SameBackup(r', r) /\ r'.len = installed_length(r.pkg.len)
             /\ pc' = "check" \/ (pc' = "error" /\ "flash" \in FaultKinds /\ faults' > 0)
    <3>1. Sound(r') BY <1>2, <2>1, <2>3, SoundSame, WholeLength
    <3> QED BY <1>2, <2>1, <2>3, <3>1, StoredSound, ToSafe
  <2> QED BY <1>13, <2>2, <2>3, InstalledEffect
<1>14. CASE TrialBoot
  <2>1. pc \in Awake \ {"error"} BY <1>14 DEF TrialBoot, Awake
  <2>2. CASE TurnedBack BY <1>9, <2>1, <2>2
  <2>3. CASE /\ Stored /\ SameBackup(r', r) /\ r'.len \in {r.len, 0}
             /\ pc' = "check" \/ (pc' = "error" /\ "flash" \in FaultKinds /\ faults' > 0)
    <3>1. Sound(r') BY <1>2, <2>1, <2>3, SoundSame
    <3> QED BY <1>2, <2>1, <2>3, <3>1, StoredSound, ToSafe
  <2> QED BY <1>14, <2>2, <2>3, TrialEffect DEF SameImage
<1>15. CASE CannotRollBack \/ Restored \/ AdoptChanged
  <2>1. pc \in Awake \ {"error"} BY <1>15 DEF CannotRollBack, Restored, AdoptChanged, Awake
  <2>2. /\ Stored /\ SameBackup(r', r) /\ r'.len \in {0, r.blen, installed_length(SlotBlocks)}
        /\ pc' = "check" \/ (pc' = "error" /\ "flash" \in FaultKinds /\ faults' > 0)
        BY <1>15, CannotEffect, RestoredEffect, AdoptChangedEffect
  <2>3. Sound(r') BY <1>2, <2>1, <2>2, SoundSame, WholeLength
  <2> QED BY <1>2, <2>1, <2>2, <2>3, StoredSound, ToSafe
<1>16. CASE RestoreChanged
  <2>1. pc \in Awake \ {"error"} BY <1>16 DEF RestoreChanged, Awake
  <2> QED BY <1>1, <1>2, <1>9, <1>16, <2>1, TurnEffect DEF RestoreChanged
<1>17. CASE MarkedBroken
  <2>1. pc \in Awake \ {"error"} BY <1>17 DEF MarkedBroken, Awake
  <2>2. rec' \in {rec, Broken(r)} /\ (pc' = "recovery" \/ (pc' = "error" /\ "flash" \in FaultKinds))
        BY <1>17 DEF MarkedBroken, Fault, Leave
  <2>3. Sound(Broken(r)) BY <1>2, <2>1, EditKeeps, SoundSame
  <2>4. Sound(rec') BY <1>2, <2>1, <2>2, <2>3
  <2> QED BY <2>2, <2>4, ToSafe
<1>18. CASE Confirm
  <2>1. Known /\ Sound(rec) BY <1>18 DEF Confirm, OnTrial, SafeInv, Known
  <2>2. Sound(rec') BY <1>18, <2>1, ConfirmEffect, SoundSame
  <2>3. pc' \notin {"backup", "error"} BY <1>18 DEF Confirm, Running, ram
  <2> QED BY <2>2, <2>3, ToSafe
<1>19. CASE (\E p \in Packages : Receive(p)) \/ Adopt \/ Enroll
  <2>1. pc' \notin {"backup", "error"} BY <1>19 DEF Receive, Adopt, Enroll, Leave, ram
  <2>2. Sound(NewRecord)
    <3>1. /\ NewRecord.blen = 0
          /\ NewRecord.len = 0 \/ NewRecord.len = installed_length(SlotBlocks)
          BY <1>1, NewKeeps
    <3> QED BY <3>1, SoundNone, WholeLength
  <2>3. (Known => Sound(rec))'
    <3>1. CASE rec' = rec BY <3>1 DEF SafeInv, Known
    <3>2. CASE rec' = NewRecord BY <2>2, <3>2
    <3>3. CASE rec'.blen = 0 /\ rec'.len = 0 BY <3>3, SoundNone
    <3>4. CASE /\ rec # NoRecord /\ SameBackup(rec', rec)
               /\ rec'.len = 0 \/ rec'.len = installed_length(SlotBlocks)
      <4>1. Sound(rec) BY <3>4 DEF SafeInv, Known
      <4>2. Sound(rec') BY <3>4, <4>1, SoundSame, WholeLength
      <4> QED BY <4>2
    <3> QED BY <1>19, <3>1, <3>2, <3>3, <3>4, RecoveryEffect
  <2> QED BY <2>1, <2>3, ToSafe
<1>20. CASE \/ \E p \in Packages \cup {NoPackage} : Fetch(p)
            \/ PullCard \/ CardBack \/ ForceRecovery \/ UNCHANGED vars
  <2>1. UNCHANGED <<r, rec, pc, blk, backup, v5f, header>>
        BY <1>20 DEF Fetch, PullCard, CardBack, ForceRecovery, vars, flash, files, ram
  <2> QED BY <2>1, SameSafe
<1>21. CASE LoseBackup \/ \E b \in Block : PagesWritten(b) \/ Corrupt(b)
  <2>1. UNCHANGED <<r, rec, pc>> /\ pc \in {"off", "run", "unchecked"}
        BY <1>21 DEF LoseBackup, PagesWritten, Corrupt, Running, flash, ram
  <2>2. (Known => Sound(rec))' BY <2>1 DEF SafeInv, Known
  <2> QED BY <2>1, <2>2, ToSafe
<1> QED BY <1>3, <1>4, <1>5, <1>6, <1>7, <1>8, <1>10, <1>11, <1>12, <1>13, <1>14, <1>15,
           <1>16, <1>17, <1>18, <1>19, <1>20, <1>21
        DEF Next, BootStep, Environment

(* The V5F starts only from the boot check, from an error, or where there has
   never been an update. *)
LEMMA RunsFrom ==
    ASSUME UpdateInv, [Next]_vars, ~Running, Running'
    PROVE  (\E waiting \in BOOLEAN : NeverUpdated(waiting)) \/ Start \/ StoppedByError
<1>1. pc' \in {"run", "unchecked"} /\ pc' # pc BY DEF Running
<1>2. WorldOK BY InvFacts
<1>3. \A waiting \in BOOLEAN : ~Boot(waiting)
  <2>1. SUFFICES ASSUME NEW waiting \in BOOLEAN, Boot(waiting) PROVE FALSE OBVIOUS
  <2>2. ASSUME NEW q, RecordOK(q) PROVE Switch(q, waiting) \notin {"run", "unchecked"}
        BY <2>2 DEF RecordOK, Record, Switch
  <2>3. RecordOK(NewRecord) BY <1>2, BlankType
  <2>4. pc' \in {Switch(rec, waiting), Switch(NewRecord, waiting), "error"}
        /\ (rec = NoRecord => pc' # Switch(rec, waiting) \/ pc' \in {Switch(NewRecord, waiting), "error"})
        BY <2>1 DEF Boot, record_store
  <2>5. rec # NoRecord => RecordOK(rec) BY InvFacts
  <2> QED BY <1>1, <2>2, <2>3, <2>4, <2>5
<1>4. ~Refuse /\ ~NoRoom /\ ~BeginUpdate /\ ~BackupBlock /\ ~BackupDone
      BY <1>1 DEF Refuse, NoRoom, BeginUpdate, BackupBlock, BackupDone, record_store
<1>5. ~Install /\ ~ProgramBlock /\ ~StoreProgress /\ ~Verify /\ ~StoreHeader /\ ~Installed
      BY <1>1 DEF Install, ProgramBlock, Programmed, NoCard, StoreProgress, Verify, StoreHeader,
                  StoredHeader, Installed, record_store
<1>6. ~TrialBoot /\ ~CannotRollBack /\ ~BeginRestore /\ ~RestoreBlock /\ ~RestoreHeader /\ ~Restored
      BY <1>1 DEF TrialBoot, CannotRollBack, BeginRestore, RestoreBlock, RestoreHeader, Restored,
                  Programmed, NoCard, StoredHeader, record_store
<1>7. ~NoImage /\ ~AdoptChanged /\ ~RestoreChanged /\ ~MarkedBroken
      BY <1>1 DEF NoImage, AdoptChanged, RestoreChanged, MarkedBroken, Leave, record_store
<1>8. ~Confirm /\ ~DoesNotStart /\ (\A p \in Packages : ~Receive(p)) /\ ~Adopt /\ ~Enroll /\ ~Cut
      BY <1>1 DEF Confirm, DoesNotStart, Receive, Adopt, Enroll, Cut, Leave, ram
<1>9. /\ \A p \in Packages \cup {NoPackage} : ~Fetch(p)
      /\ \A b \in Block : ~PagesWritten(b) /\ ~Corrupt(b)
      /\ ~ForceRecovery /\ ~LoseBackup /\ ~PullCard /\ ~CardBack /\ ~UNCHANGED vars
      BY <1>1 DEF Fetch, PagesWritten, Corrupt, ForceRecovery, LoseBackup, PullCard, CardBack,
                  vars, ram
<1> QED BY <1>3, <1>4, <1>5, <1>6, <1>7, <1>8, <1>9 DEF Next, BootStep, Environment

(* An image the boot check passed is one package's, whole. *)
LEMMA OkWhole ==
    ASSUME CheckSignature, CheckPages, NEW q, Sound(q), q.len # 0, NEW f, NEW h, Ok(q, f, h)
    PROVE  \E p \in Packages : p.ver = q.ver /\ \A b \in 0..SpanBlocks - 1 : f[b] = p.img
BY DEF Ok, Sound

LEMMA StartWhole ==
    ASSUME CheckSignature, CheckPages, UpdateInv, InStep, SafeInv, Start, pc' = "run"
    PROVE  WholePackage
<1>1. pc \in Awake /\ pc # "error" BY DEF Start, Awake
<1>2. r = rec /\ Sound(r) BY <1>1, WorkFacts DEF SafeInv, Known
<1>3. Ok(r, v5f, header) BY OkIsInstalled DEF Start, CheckPasses
<1>4. r.len # 0
  <2>1. Ok(r, v5f, header) => \E n \in 1..SpanBlocks : r.len = n
        BY PackagesAssumption DEF Ok
  <2> QED BY <1>3, <2>1
<1>5. PICK p \in Packages : p.ver = r.ver /\ \A b \in 0..SpanBlocks - 1 : v5f[b] = p.img
      BY <1>2, <1>3, <1>4, OkWhole
<1> QED BY <1>2, <1>5 DEF WholePackage, Holds

LEMMA RunsWhole ==
    ASSUME CheckSignature, CheckPages, "flash" \notin FaultKinds,
           UpdateInv, InStep, SafeInv, [Next]_vars, ~Running, Running'
    PROVE  \E i \in Images : Holds(i, SlotBlocks)
<1>1. ~\E waiting \in BOOLEAN : NeverUpdated(waiting) BY DEF NeverUpdated, Leave, Running
<1>2. Start \/ StoppedByError BY <1>1, RunsFrom
<1>3. \E p \in Packages : \A b \in 0..SpanBlocks - 1 : v5f[b] = p.img
  <2>1. CASE Start
    <3>1. pc' = "run" BY <2>1 DEF Start, Leave, Running
    <3>2. WholePackage BY <2>1, <3>1, StartWhole
    <3> QED BY <3>2 DEF WholePackage, Holds
  <2>2. CASE StoppedByError
    <3>1. pc = "error" /\ r.state \notin {"INSTALLING", "ROLLING_BACK"}
          BY <2>2 DEF StoppedByError, Leave, Running
    <3>2. r.len # 0 /\ Ok(r, v5f, header) BY <3>1 DEF SafeInv, ErrorSafe
    <3>3. r = rec BY <3>1 DEF InStep
    <3>4. RecordOK(r) BY <3>1, InvFacts DEF Awake
    <3>5. Sound(r) BY <3>3, <3>4, NoRecordAssumption DEF SafeInv, Known, RecordOK
    <3> QED BY <3>2, <3>5, OkWhole
  <2> QED BY <1>2, <2>1, <2>2
<1>4. SlotBlocks - 1 <= SpanBlocks - 1 /\ SlotBlocks \in Nat /\ SpanBlocks \in Nat
      BY SizesAssumption
<1>5. \A p \in Packages : p.img \in Images BY PackagesAssumption
<1> QED BY <1>3, <1>4, <1>5 DEF Holds

THEOREM UpdateSafeInv == Spec => []SafeInv
<1>1. Init => SafeInv BY NoRecordAssumption DEF Init, SafeInv, Known, ErrorSafe
<1>2. UpdateInv /\ InStep /\ SafeInv /\ [Next]_vars => SafeInv' BY StepSafe
<1> QED BY <1>1, <1>2, UpdateInvariant, UpdateInStep, PTL DEF Spec

(* Level 2, whatever faults there are: a backup that the record trusts is one
   package's image with that package's own block 0 (update.c:642-651). *)
THEOREM UpdateBackupIsAnImage ==
    Spec => [](CheckSignature /\ CheckPages => BackupIsAnImage)
<1>1. SafeInv => (CheckSignature /\ CheckPages => BackupIsAnImage)
      BY DEF SafeInv, Sound, BackupIsAnImage
<1> QED BY <1>1, UpdateSafeInv, PTL

(* Level 2, whatever faults there are: an image the boot check started is one
   package's, whole, of the version in the record (security.h:61-67). *)
THEOREM UpdateStartsWhole ==
    ASSUME CheckSignature, CheckPages PROVE Spec => StartsWhole
<1>1. UpdateInv /\ InStep /\ SafeInv /\ [Next]_vars
      => [pc = "check" /\ pc' = "run" => WholePackage]_vars
  <2>1. SUFFICES ASSUME UpdateInv, InStep, SafeInv, [Next]_vars, pc = "check", pc' = "run"
                 PROVE  WholePackage
        OBVIOUS
  <2>2. ~Running /\ Running' BY <2>1 DEF Running
  <2>3. Start BY <2>1, <2>2, RunsFrom DEF NeverUpdated, StoppedByError
  <2> QED BY <2>1, <2>3, StartWhole
<1> QED BY <1>1, UpdateInvariant, UpdateInStep, UpdateSafeInv, PTL DEF Spec, StartsWhole

(* Level 2, where the flash takes what it is given: the V5F never starts with
   a slot half programmed, checked or after an error (stage1.c:506-513). *)
THEOREM UpdateHalfProgrammedNeverRuns ==
    ASSUME CheckSignature, CheckPages, "flash" \notin FaultKinds
    PROVE  Spec => HalfProgrammedNeverRuns
<1>1. UpdateInv /\ InStep /\ SafeInv /\ [Next]_vars
      => [~Running /\ Running' => \E i \in Images : Holds(i, SlotBlocks)]_vars
      BY RunsWhole
<1> QED BY <1>1, UpdateInvariant, UpdateInStep, UpdateSafeInv, PTL DEF Spec, HalfProgrammedNeverRuns

-----------------------------------------------------------------------------
(* The restore: what it has put back so far is the backup, block by block. *)
Restores(q, flashed, n) == \A b \in Block : b < n /\ b < q.blen => flashed[b] = q.bmac.data[b]

(* Nothing has changed a block behind upd_boot's back, and nothing can while
   a rollback is under way: no V5F runs then that writes the pages. *)
Undisturbed == \/ faults = 0
               \/ "corrupt" \notin FaultKinds /\ (CheckPages \/ "flash" \notin FaultKinds)

Rolling == Known /\ rec.state = "ROLLING_BACK"
RestoreUnderWay ==
    /\ backup.len = rec.blen /\ backup_mac = rec.bmac
    /\ rec.progress <= blk
    /\ Restores(rec, v5f, IF pc = "restore" THEN blk ELSE blk + 1)

RestoreInv == Undisturbed =>
    /\ Rolling => Restores(rec, v5f, rec.progress)
    /\ Rolling /\ pc \in {"restore", "progress"} => RestoreUnderWay
    /\ Known /\ pc = "restored" => Restores(rec, v5f, SpanBlocks)
    /\ Rolling /\ Running => CheckPages

LEMMA FaultsGrow ==
    ASSUME UpdateInv, [Next]_vars PROVE faults \in Nat /\ faults' \in {faults, faults + 1}
<1>1. faults \in Nat BY InvFacts, NoFaultType
<1>2. ASSUME BootStep PROVE faults' \in {faults, faults + 1}
  BY <1>2 DEF BootStep, Boot, NeverUpdated, Refuse, NoRoom, BeginUpdate, BackupBlock, BackupDone,
              Install, ProgramBlock, StoreProgress, Verify, StoreHeader, Installed, TrialBoot,
              CannotRollBack, BeginRestore, RestoreBlock, RestoreHeader, Restored, Start,
              NoImage, AdoptChanged, RestoreChanged, MarkedBroken, StoppedByError,
              record_store, Programmed, NoCard, StoredHeader, Fault
<1>3. ASSUME Environment PROVE faults' \in {faults, faults + 1}
  BY <1>3 DEF Environment, Confirm, DoesNotStart, Fetch, PagesWritten, Corrupt, Receive, Adopt,
              Enroll, ForceRecovery, LoseBackup, PullCard, CardBack, Cut, Fault
<1> QED BY <1>1, <1>2, <1>3 DEF Next, vars

LEMMA StaysUndisturbed == ASSUME UpdateInv, [Next]_vars, Undisturbed' PROVE Undisturbed
BY FaultsGrow DEF Undisturbed

LEMMA SectorStart ==
    ASSUME NEW s \in Nat \ {0}, NEW b \in Nat, NEW x \in Nat, b % s = 0, x \div s = b \div s
    PROVE  b <= x
<1>1. b = s * (b \div s) + (b % s) /\ x = s * (x \div s) + (x % s) BY Z3
<1>2. x % s >= 0 BY Z3
<1>3. b \div s \in Nat /\ s * (b \div s) \in Nat BY Z3
<1>4. x % s \in Nat BY <1>2, Z3
<1>5. b = s * (b \div s) BY <1>1, <1>3
<1>6. x = s * (b \div s) + (x % s) BY <1>1
<1> QED BY <1>3, <1>4, <1>5, <1>6

(* Programming a block, or losing the power while at it, leaves the blocks
   before it as they were. *)
LEMMA KeptBelow ==
    ASSUME v5f \in [Block -> Contents], NEW n \in Nat, NEW b \in Block, b < n
    PROVE  /\ \A c : program_block(n, c)[b] = v5f[b]
           /\ \A w \in TornBlock(n) : w[b] = v5f[b]
<1>1. n % SectorBlocks = 0 => b \notin Sector(n)
  <2>1. SUFFICES ASSUME n % SectorBlocks = 0, b \div SectorBlocks = n \div SectorBlocks PROVE FALSE
        BY DEF Sector
  <2>2. b \in Nat /\ SectorBlocks \in Nat \ {0} BY SizesAssumption DEF Block
  <2>3. n <= b BY <2>1, <2>2, SectorStart
  <2> QED BY <2>2, <2>3
<1>2. ErasedFor(n)[b] = v5f[b] /\ DOMAIN ErasedFor(n) = Block BY <1>1 DEF ErasedFor
<1>3. b # n BY DEF Block
<1>4. \A c : program_block(n, c)[b] = v5f[b] BY <1>2, <1>3 DEF program_block
<1>5. [ErasedFor(n) EXCEPT ![n] = Spoilt][b] = v5f[b] BY <1>2, <1>3
<1>6. [x \in Block |-> IF n % SectorBlocks = 0 /\ x \in Sector(n) THEN Spoilt ELSE v5f[x]][b] = v5f[b]
      BY <1>1
<1> QED BY <1>2, <1>4, <1>5, <1>6 DEF TornBlock

LEMMA RestoresKept ==
    ASSUME NEW q, NEW f, NEW g, NEW n, Restores(q, f, n),
           \A b \in Block : b < n => g[b] = f[b]
    PROVE  Restores(q, g, n)
BY DEF Restores

LEMMA RestoresLess ==
    ASSUME NEW q, NEW f, NEW n \in Nat, NEW m \in Nat, m <= n, Restores(q, f, n)
    PROVE  Restores(q, f, m)
BY DEF Restores, Block

LEMMA RestoresNone == \A q, f : Restores(q, f, 0)
BY DEF Restores, Block

(* The three ways a step leaves the restore's invariant. *)
LEMMA NotRolling ==
    ASSUME ~Rolling', pc' # "restored" PROVE RestoreInv'
BY DEF RestoreInv

LEMMA FreshRolling ==
    ASSUME rec'.progress = 0, pc' \notin {"restore", "progress", "restored", "run", "unchecked"}
    PROVE  RestoreInv'
BY RestoresNone DEF RestoreInv, Running

LEMMA SameRolling ==
    ASSUME UpdateInv, [Next]_vars, RestoreInv, UNCHANGED <<rec, v5f>>,
           pc' \notin {"restore", "progress", "restored", "run", "unchecked"}
    PROVE  RestoreInv'
<1>1. Undisturbed' => Undisturbed BY StaysUndisturbed
<1> QED BY <1>1 DEF RestoreInv, Running, Rolling, Known

LEMMA AllSameRolling ==
    ASSUME UpdateInv, [Next]_vars, RestoreInv, UNCHANGED <<rec, v5f, pc>>,
           pc \in {"restore", "progress"} => UNCHANGED <<blk, backup>>
    PROVE  RestoreInv'
<1>1. Undisturbed' => Undisturbed BY StaysUndisturbed
<1> QED BY <1>1 DEF RestoreInv, Running, Rolling, Known, RestoreUnderWay, backup_mac

LEMMA StoredRolling ==
    ASSUME Stored, UpdateInv, [Next]_vars, RestoreInv, UNCHANGED v5f,
           r'.state # "ROLLING_BACK" \/ r'.progress = 0,
           pc' \notin {"restore", "progress", "restored", "run", "unchecked"}
    PROVE  RestoreInv'
<1>1. CASE rec' = rec BY <1>1, SameRolling
<1>2. CASE rec' = r'
  <2>1. CASE r'.progress = 0 BY <1>2, <2>1, FreshRolling
  <2>2. CASE r'.state # "ROLLING_BACK" BY <1>2, <2>2, NotRolling DEF Rolling
  <2> QED BY <2>1, <2>2
<1> QED BY <1>1, <1>2 DEF Stored

(* What the steps of a restore start from. *)
LEMMA RestoreFacts ==
    ASSUME UpdateInv, InStep, RestoreInv, Undisturbed, pc \in {"restore", "progress"},
           r.state = "ROLLING_BACK"
    PROVE  /\ WorldOK /\ r = rec /\ Rolling /\ RestoreUnderWay
           /\ blk \in Nat /\ rec.progress \in Nat /\ rec.blen \in Nat /\ rec.blen <= SpanBlocks
<1>1. pc \in Awake /\ pc # "error" BY DEF Awake
<1>2. WorldOK /\ r = rec /\ rec # NoRecord /\ r.progress \in Nat /\ r.blen \in Lengths
      BY <1>1, WorkFacts
<1>3. Rolling BY <1>2 DEF Rolling, Known
<1>4. rec.blen \in Nat /\ rec.blen <= SpanBlocks BY <1>2, SizesAssumption DEF Lengths
<1> QED BY <1>2, <1>3, <1>4 DEF RestoreInv, WorldOK

LEMMA BeginRestoreRolls ==
    ASSUME UpdateInv, InStep, RestoreInv, [Next]_vars, BeginRestore PROVE RestoreInv'
<1>1. pc \in Awake /\ pc # "error" /\ pc = "rollback" BY DEF BeginRestore, Awake
<1>2. r = rec /\ rec # NoRecord /\ r.state = "ROLLING_BACK" /\ r.progress \in Nat /\ WorldOK
      BY <1>1, WorkFacts DEF Fits
<1>3. SUFFICES ASSUME Undisturbed PROVE RestoreInv' BY StaysUndisturbed DEF RestoreInv
<1>4. Rolling /\ Restores(rec, v5f, rec.progress) BY <1>2, <1>3 DEF RestoreInv, Rolling, Known
<1>5. pc' = "restore" /\ blk' = rec.progress /\ UNCHANGED <<v5f, rec, backup>>
      BY <1>2 DEF BeginRestore, flash, files
<1>6. backup.len = rec.blen /\ backup_mac = rec.bmac
      BY <1>2 DEF BeginRestore, CanRollBack, backup_good
<1>7. RestoreUnderWay' BY <1>2, <1>4, <1>5, <1>6 DEF RestoreUnderWay, backup_mac
<1>8. Restores(rec, v5f, rec.progress)' BY <1>4, <1>5
<1> QED BY <1>5, <1>7, <1>8 DEF RestoreInv, Running

LEMMA RestoreBlockRolls ==
    ASSUME UpdateInv, InStep, RestoreInv, [Next]_vars, RestoreBlock PROVE RestoreInv'
<1>1. pc \in Awake /\ pc # "error" /\ pc = "restore" BY DEF RestoreBlock, Awake
<1>2. r.state = "ROLLING_BACK" BY <1>1, WorkFacts DEF Fits
<1>3. SUFFICES ASSUME Undisturbed PROVE RestoreInv' BY StaysUndisturbed DEF RestoreInv
<1>4. /\ WorldOK /\ r = rec /\ Rolling /\ RestoreUnderWay
      /\ blk \in Nat /\ rec.progress \in Nat /\ rec.blen \in Nat /\ rec.blen <= SpanBlocks
      BY <1>1, <1>2, <1>3, RestoreFacts
<1>5. UNCHANGED <<rec, r, backup>> /\ blk < rec.blen BY <1>4 DEF RestoreBlock, files
<1>6. Restores(rec, v5f, blk) /\ rec.progress <= blk BY <1>1, <1>4 DEF RestoreUnderWay
<1>7. blk \in Block BY <1>4, <1>5, SizesAssumption DEF Block
<1>8. backup.data[blk] = rec.bmac.data[blk]
  <2>1. blk \in 0..backup.len - 1 BY <1>4, <1>5 DEF RestoreUnderWay
  <2>2. backup_mac.data[blk] = backup.data[blk] BY <2>1 DEF backup_mac
  <2> QED BY <1>4, <2>2 DEF RestoreUnderWay
<1>9. \A b \in Block : b < blk => v5f'[b] = v5f[b]
  <2>1. v5f' = v5f \/ v5f' = program_block(blk, backup.data[blk]) \/ v5f' \in TornBlock(blk)
        BY DEF RestoreBlock, NoCard, Programmed
  <2>2. v5f \in [Block -> Contents] BY <1>4 DEF WorldOK
  <2> QED BY <1>4, <2>1, <2>2, KeptBelow
<1>10. Restores(rec, v5f', blk) BY <1>6, <1>9, RestoresKept
<1>11. Restores(rec, v5f', rec.progress) BY <1>4, <1>6, <1>10, RestoresLess
<1>12. CASE pc' = "error" BY <1>5, <1>11, <1>12 DEF RestoreInv, Running
<1>13. CASE pc' # "error"
  <2>1. /\ v5f'[blk] = backup.data[blk] /\ pc' \in {"restore", "progress"}
        /\ blk' = IF pc' = "restore" THEN blk + 1 ELSE blk
        BY <1>1, <1>13 DEF RestoreBlock, NoCard, Programmed
  <2>2. Restores(rec, v5f', blk + 1)
    <3>1. \A b \in Block : b < blk + 1 => b < blk \/ b = blk BY <1>4 DEF Block
    <3> QED BY <1>8, <1>10, <2>1, <3>1 DEF Restores
  <2>3. blk' = blk \/ blk' = blk + 1 BY <2>1
  <2>4. rec.progress <= blk' BY <1>4, <1>6, <2>3
  <2>5. Restores(rec, v5f', IF pc' = "restore" THEN blk' ELSE blk' + 1)
    <3>1. CASE pc' = "restore" BY <2>1, <2>2, <3>1
    <3>2. CASE pc' # "restore" BY <2>1, <2>2, <3>2
    <3> QED BY <3>1, <3>2
  <2>6. backup'.len = rec'.blen /\ backup_mac' = rec'.bmac
        BY <1>4, <1>5 DEF RestoreUnderWay, backup_mac
  <2>7. RestoreUnderWay' BY <1>5, <2>4, <2>5, <2>6 DEF RestoreUnderWay
  <2> QED BY <1>5, <1>11, <2>1, <2>7 DEF RestoreInv, Running
<1> QED BY <1>12, <1>13

LEMMA ProgressRolls ==
    ASSUME UpdateInv, InStep, RestoreInv, [Next]_vars, StoreProgress PROVE RestoreInv'
<1>1. pc \in Awake /\ pc # "error" /\ pc = "progress" BY DEF StoreProgress, Awake
<1>2. r = rec /\ rec # NoRecord /\ r.state \in {"INSTALLING", "ROLLING_BACK"} BY <1>1, WorkFacts DEF Fits
<1>3. /\ Stored /\ SameBackup(r', r) /\ r'.state = r.state /\ r'.progress = blk + 1
      /\ \/ pc' = IF r.state = "INSTALLING" THEN "program" ELSE "restore"
         \/ pc' = "error"
      BY ProgressEffect
<1>4. blk' = blk + 1 /\ UNCHANGED <<v5f, backup>> BY DEF StoreProgress, files
<1>5. CASE r.state = "INSTALLING"
  <2>1. ~Rolling' BY <1>2, <1>3, <1>5 DEF Rolling, Stored
  <2> QED BY <1>3, <1>5, <2>1, NotRolling
<1>6. CASE r.state = "ROLLING_BACK"
  <2>1. SUFFICES ASSUME Undisturbed PROVE RestoreInv' BY StaysUndisturbed DEF RestoreInv
  <2>2. RestoreUnderWay /\ Rolling /\ blk \in Nat /\ WorldOK BY <1>1, <1>6, <2>1, RestoreFacts
  <2>3. Restores(rec, v5f, blk + 1) /\ Restores(rec, v5f, rec.progress)
        BY <1>1, <2>1, <2>2 DEF RestoreUnderWay, RestoreInv
  <2>4. CASE rec' = rec /\ pc' = "error" BY <1>4, <2>3, <2>4 DEF RestoreInv, Running
  <2>5. CASE rec' = r'
    <3>1. Restores(rec', v5f', blk + 1)
          BY <1>2, <1>3, <1>4, <2>3, <2>5 DEF Restores, SameBackup
    <3>2. rec'.progress = blk + 1 BY <1>3, <2>5
    <3>3. pc' \in {"restore", "error"} BY <1>3, <1>6
    <3>4. backup'.len = rec'.blen /\ backup_mac' = rec'.bmac
          BY <1>2, <1>3, <1>4, <2>2, <2>5 DEF RestoreUnderWay, backup_mac, SameBackup
    <3>5. \A n \in Nat : n + 1 <= n + 1 OBVIOUS
    <3>6. rec'.progress <= blk' BY <1>4, <2>2, <3>2, <3>5
    <3>7. pc' = "restore" => RestoreUnderWay'
          BY <1>4, <3>1, <3>4, <3>6 DEF RestoreUnderWay
    <3>8. Restores(rec', v5f', rec'.progress) BY <3>1, <3>2
    <3> QED BY <3>3, <3>7, <3>8 DEF RestoreInv, Running
  <2> QED BY <1>3, <2>4, <2>5 DEF Stored
<1> QED BY <1>2, <1>5, <1>6

LEMMA RestoreHeaderRolls ==
    ASSUME UpdateInv, InStep, RestoreInv, [Next]_vars, RestoreHeader PROVE RestoreInv'
<1>1. pc \in Awake /\ pc # "error" /\ pc = "restore" BY DEF RestoreHeader, Awake
<1>2. r.state = "ROLLING_BACK" BY <1>1, WorkFacts DEF Fits
<1>3. SUFFICES ASSUME Undisturbed PROVE RestoreInv' BY StaysUndisturbed DEF RestoreInv
<1>4. r = rec /\ Rolling /\ RestoreUnderWay BY <1>1, <1>2, <1>3, RestoreFacts
<1>5. UNCHANGED <<v5f, rec>> /\ blk = rec.blen /\ pc' \in {"restored", "error"}
      BY <1>4 DEF RestoreHeader, StoredHeader
<1>6. Restores(rec, v5f, rec.blen) BY <1>1, <1>4, <1>5 DEF RestoreUnderWay
<1>7. Restores(rec, v5f, SpanBlocks) BY <1>6 DEF Restores
<1>8. Restores(rec, v5f, rec.progress) BY <1>3, <1>4 DEF RestoreInv
<1> QED BY <1>5, <1>7, <1>8 DEF RestoreInv, Running

LEMMA CutRolls ==
    ASSUME UpdateInv, InStep, RestoreInv, [Next]_vars, Cut PROVE RestoreInv'
<1>1. pc' = "off" /\ rec' = rec BY DEF Cut, Leave
<1>2. SUFFICES ASSUME Undisturbed, Rolling PROVE RestoreInv'
      BY <1>1, StaysUndisturbed, NotRolling DEF RestoreInv, Rolling, Known
<1>3. CASE v5f' = v5f BY <1>1, <1>3, SameRolling
<1>4. CASE v5f' # v5f
  <2>1. pc \in {"program", "restore"} /\ v5f' \in TornBlock(blk) BY <1>4 DEF Cut
  <2>2. pc \in Awake /\ pc # "error" BY <2>1 DEF Awake
  <2>3. r = rec /\ WorldOK /\ Fits(r, pc) BY <2>2, WorkFacts
  <2>4. pc = "restore" /\ r.state = "ROLLING_BACK" BY <1>2, <2>1, <2>3 DEF Fits, Rolling
  <2>5. RestoreUnderWay /\ blk \in Nat /\ rec.progress \in Nat
        BY <1>2, <2>4, RestoreFacts
  <2>6. Restores(rec, v5f, rec.progress) /\ rec.progress <= blk
        BY <1>2, <2>5 DEF RestoreInv, RestoreUnderWay
  <2>7. \A b \in Block : b < rec.progress => v5f'[b] = v5f[b]
    <3>1. v5f \in [Block -> Contents] BY <2>3 DEF WorldOK
    <3>2. \A b \in Block : b < rec.progress => b < blk BY <2>5, <2>6 DEF Block
    <3> QED BY <2>1, <2>5, <3>1, <3>2, KeptBelow
  <2>8. Restores(rec, v5f', rec.progress) BY <2>6, <2>7, RestoresKept
  <2> QED BY <1>1, <2>8 DEF RestoreInv, Running
<1> QED BY <1>3, <1>4

LEMMA StepRestore ==
    ASSUME UpdateInv, InStep, RestoreInv, [Next]_vars PROVE RestoreInv'
<1>1. WorldOK BY InvFacts
<1>2. pc \in Awake \ {"error"} => RecordOK(r) /\ Fits(r, pc) /\ r = rec /\ Known
      BY WorkFacts DEF Known
<1>3. CASE \E waiting \in BOOLEAN : Boot(waiting)
  <2>1. PICK waiting \in BOOLEAN : Boot(waiting) BY <1>3
  <2>2. ASSUME NEW q, RecordOK(q)
        PROVE  Switch(q, waiting) \notin {"restore", "progress", "restored", "run", "unchecked"}
        BY <2>2 DEF RecordOK, Record, Switch
  <2>3. v5f' = v5f BY <2>1 DEF Boot
  <2>4. CASE rec # NoRecord
    <3>1. RecordOK(rec) /\ rec' = rec /\ pc' = Switch(rec, waiting)
          BY <2>1, <2>4, InvFacts DEF Boot
    <3> QED BY <2>2, <2>3, <3>1, SameRolling
  <2>5. CASE rec = NoRecord
    <3> DEFINE q == NewRecord
    <3>1. RecordOK(q) /\ q.state = "IDLE" BY <1>1, BlankType
    <3>2. record_store(q, Switch(q, waiting)) BY <2>1, <2>5 DEF Boot
    <3> HIDE DEF q
    <3>3. rec' \in {NoRecord, q} /\ pc' \in {Switch(q, waiting), "error"}
          BY <2>5, <3>2 DEF record_store
    <3>4. ~Rolling' BY <3>1, <3>3 DEF Rolling, Known
    <3>5. pc' # "restored" BY <2>2, <3>1, <3>3
    <3> QED BY <3>4, <3>5, NotRolling
  <2> QED BY <2>4, <2>5
<1>4. CASE \E waiting \in BOOLEAN : NeverUpdated(waiting)
  <2>1. rec' = NoRecord /\ pc' # "restored" BY <1>4 DEF NeverUpdated, Leave, flash
  <2> QED BY <2>1, NotRolling DEF Rolling, Known
<1>5. CASE Start \/ NoImage
  <2>1. pc \in Awake \ {"error"} /\ r.state \in {"IDLE", "TRIAL"} /\ rec' = rec
        /\ pc' # "restored"
        BY <1>5 DEF Start, NoImage, InStep, Awake, flash, Leave
  <2> QED BY <1>2, <2>1, NotRolling DEF Rolling
<1>6. CASE StoppedByError
  <2>1. UNCHANGED <<rec, v5f, faults>> /\ pc = "error" /\ pc' \in {"recovery", "unchecked"}
        BY <1>6 DEF StoppedByError, flash, Leave
  <2>2. CASE pc' = "recovery" BY <2>1, <2>2, SameRolling
  <2>3. CASE pc' = "unchecked"
    <3>1. r.state # "ROLLING_BACK" BY <1>6, <2>3 DEF StoppedByError, Leave
    <3>2. CASE r = rec BY <2>1, <2>3, <3>1, <3>2, NotRolling DEF Rolling
    <3>3. CASE r # rec
      <4>1. "flash" \in FaultKinds /\ faults > 0 /\ faults \in Nat
            BY <2>1, <3>3, FaultsGrow DEF InStep
      <4>2. Undisturbed => CheckPages BY <4>1 DEF Undisturbed
      <4>3. Undisturbed' => Undisturbed BY StaysUndisturbed
      <4> QED BY <2>1, <2>3, <4>2, <4>3 DEF RestoreInv, Rolling, Known
    <3> QED BY <3>2, <3>3
  <2> QED BY <2>1, <2>2, <2>3
<1>7. CASE DoesNotStart
  <2>1. UNCHANGED <<rec, v5f>> /\ pc' = "off" BY <1>7 DEF DoesNotStart, flash, Leave
  <2> QED BY <2>1, SameRolling
<1>8. CASE Refuse \/ NoRoom \/ BeginUpdate
  <2>1. UNCHANGED v5f /\ Stored /\ r'.state \in {"IDLE", "BACKING_UP"}
        /\ pc' \in {"check", "backup", "kept", "error"}
        BY <1>8, RefuseEffect, BeginEffect DEF Refuse, NoRoom, BeginUpdate
  <2> QED BY <2>1, StoredRolling
<1>9. CASE BackupBlock \/ BackupDone
  <2>1. pc \in Awake \ {"error"} /\ r.state = "BACKING_UP"
        BY <1>2, <1>9 DEF BackupBlock, BackupDone, Awake, Fits
  <2>2. \/ rec' = rec
        \/ Stored /\ r'.state = "INSTALLING"
        BY <1>9, BackupDoneEffect DEF BackupBlock, flash
  <2>3. ~Rolling' BY <1>2, <2>1, <2>2 DEF Rolling, Stored
  <2>4. pc' # "restored" BY <1>9 DEF BackupBlock, BackupDone, record_store
  <2> QED BY <2>3, <2>4, NotRolling
<1>10. ASSUME TurnedBack, UNCHANGED v5f PROVE RestoreInv'
  <2>1. pc' \notin {"restore", "progress", "restored", "run", "unchecked"} BY <1>10 DEF TurnedBack
  <2> QED BY <1>10, <2>1, StoredRolling DEF TurnedBack
<1>11. CASE Install \/ ProgramBlock \/ Verify
  <2>1. pc \in Awake \ {"error"} /\ r.state = "INSTALLING"
        BY <1>2, <1>11 DEF Install, ProgramBlock, Verify, Awake, Fits
  <2>2. CASE \/ record_store(ToRollBack(r), "rollback")
             \/ r' = ToRollBack(r) /\ rec' = ToRollBack(r) /\ pc' = "rollback"
    <3>1. TurnedBack BY <1>1, <1>2, <2>1, <2>2, TurnEffect
    <3>2. CASE rec' = rec
      <4>1. pc' # "restored" BY <3>1 DEF TurnedBack
      <4> QED BY <1>2, <2>1, <3>2, <4>1, NotRolling DEF Rolling
    <3>3. CASE rec' = r'
      <4>1. rec'.progress = 0
            /\ pc' \notin {"restore", "progress", "restored", "run", "unchecked"}
            BY <3>1, <3>3 DEF TurnedBack
      <4> QED BY <4>1, FreshRolling
    <3> QED BY <3>1, <3>2, <3>3 DEF TurnedBack, Stored
  <2>3. CASE rec' = rec /\ pc' # "restored" BY <1>2, <2>1, <2>3, NotRolling DEF Rolling
  <2>4. CASE Install BY <2>2, <2>3, <2>4 DEF Install
  <2>5. CASE Verify BY <2>2, <2>3, <2>5 DEF Verify
  <2>6. CASE ProgramBlock
        BY <2>2, <2>3, <2>6 DEF ProgramBlock, Programmed, NoCard
  <2> QED BY <1>11, <2>4, <2>5, <2>6
<1>12. CASE StoreHeader
  <2>1. pc \in Awake \ {"error"} /\ r.state = "INSTALLING"
        BY <1>2, <1>12 DEF StoreHeader, Awake, Fits
  <2>2. rec' = rec /\ pc' # "restored" BY <1>12 DEF StoreHeader, StoredHeader
  <2> QED BY <1>2, <2>1, <2>2, NotRolling DEF Rolling
<1>13. CASE Installed
  <2>1. UNCHANGED v5f BY <1>13 DEF Installed
  <2>2. CASE TurnedBack BY <1>10, <2>1, <2>2
  <2>3. CASE Stored /\ r'.state = "TRIAL" /\ pc' \in {"check", "error"}
        BY <2>1, <2>3, StoredRolling
  <2> QED BY <1>13, <2>2, <2>3, InstalledEffect
<1>14. CASE TrialBoot
  <2>1. UNCHANGED v5f BY <1>14 DEF TrialBoot
  <2>2. CASE TurnedBack BY <1>10, <2>1, <2>2
  <2>3. CASE Stored /\ r'.state \in {"TRIAL", "IDLE"} /\ pc' \in {"check", "error"}
        BY <2>1, <2>3, StoredRolling
  <2> QED BY <1>14, <2>2, <2>3, TrialEffect
<1>15. CASE CannotRollBack \/ Restored \/ AdoptChanged
  <2>1. UNCHANGED v5f /\ Stored /\ r'.state = "IDLE" /\ pc' \in {"check", "error"}
        BY <1>15, CannotEffect, RestoredEffect, AdoptChangedEffect
           DEF CannotRollBack, Restored, AdoptChanged
  <2> QED BY <2>1, StoredRolling
<1>16. CASE RestoreChanged
  <2>1. pc \in Awake \ {"error"} /\ UNCHANGED v5f BY <1>16 DEF RestoreChanged, Awake
  <2> QED BY <1>1, <1>2, <1>10, <1>16, <2>1, TurnEffect DEF RestoreChanged
<1>17. CASE MarkedBroken
  <2>1. pc \in Awake \ {"error"} /\ r.state \in {"IDLE", "TRIAL"}
        BY <1>17 DEF MarkedBroken, Awake, InStep
  <2>2. rec' \in {rec, Broken(r)} /\ pc' # "restored"
        BY <1>17 DEF MarkedBroken, Fault, Leave
  <2>3. Broken(r).state = r.state BY <1>2, <2>1, EditKeeps
  <2> QED BY <1>2, <2>1, <2>2, <2>3, NotRolling DEF Rolling
<1>18. CASE Confirm
  <2>1. UNCHANGED <<v5f, pc>> /\ pc \notin {"restore", "progress", "restored"}
        BY <1>18 DEF Confirm, Running, ram
  <2>2. CASE rec' = rec BY <2>1, <2>2, AllSameRolling
  <2>3. CASE rec'.state = "IDLE" BY <2>1, <2>3, NotRolling DEF Rolling
  <2> QED BY <1>18, <2>2, <2>3, ConfirmEffect
<1>19. CASE (\E p \in Packages : Receive(p)) \/ Adopt \/ Enroll
  <2>1. UNCHANGED v5f /\ pc' \in {"received", "off", "recovery"}
        BY <1>19 DEF Receive, Adopt, Enroll, Leave, ram
  <2>2. CASE rec' = rec BY <2>1, <2>2, SameRolling
  <2>3. CASE rec'.state = "IDLE" BY <2>1, <2>3, NotRolling DEF Rolling
  <2>4. rec' = rec \/ rec'.state = "IDLE"
    <3>1. NewRecord.state = "IDLE" BY <1>1, NewKeeps
    <3> QED BY <1>19, <3>1, RecoveryEffect
  <2> QED BY <2>2, <2>3, <2>4
<1>20. CASE \/ \E p \in Packages \cup {NoPackage} : Fetch(p)
            \/ PullCard \/ CardBack \/ ForceRecovery \/ LoseBackup \/ UNCHANGED vars
  <2>1. UNCHANGED <<rec, v5f, pc>> /\ (pc \in {"restore", "progress"} => UNCHANGED <<blk, backup>>)
        BY <1>20 DEF Fetch, PullCard, CardBack, ForceRecovery, LoseBackup, vars, flash, files, ram
  <2> QED BY <2>1, AllSameRolling
<1>21. CASE \E b \in Block : PagesWritten(b)
  <2>1. UNCHANGED <<rec, pc>> /\ Running /\ ~CheckPages BY <1>21 DEF PagesWritten, ram
  <2>2. Undisturbed => ~Rolling BY <2>1 DEF RestoreInv
  <2>3. Undisturbed' => ~Rolling'
    <3>1. Rolling' <=> Rolling BY <2>1 DEF Rolling, Known
    <3> QED BY <2>2, <3>1, StaysUndisturbed
  <2> QED BY <2>1, <2>3 DEF RestoreInv, Running
<1>22. CASE \E b \in Block : Corrupt(b)
  <2>1. ~Undisturbed' BY <1>22, FaultsGrow DEF Corrupt, Fault, Undisturbed
  <2> QED BY <2>1 DEF RestoreInv
<1> QED BY <1>3, <1>4, <1>5, <1>6, <1>7, <1>8, <1>9, <1>11, <1>12, <1>13, <1>14, <1>15,
           <1>16, <1>17, <1>18, <1>19, <1>20, <1>21, <1>22, BeginRestoreRolls,
           RestoreBlockRolls, ProgressRolls, RestoreHeaderRolls, CutRolls
        DEF Next, BootStep, Environment

THEOREM UpdateRestoreInv == Spec => []RestoreInv
<1>1. Init => RestoreInv BY DEF Init, RestoreInv, Rolling, Known
<1>2. UpdateInv /\ InStep /\ RestoreInv /\ [Next]_vars => RestoreInv' BY StepRestore
<1> QED BY <1>1, <1>2, UpdateInvariant, UpdateInStep, PTL DEF Spec

(* Where no block of the flash changes by itself, and no V5F that may write
   its pages runs during a rollback: what the rollback has left in flash when
   it makes the record's MAC from it (update.c:546-554) is, block by block,
   what was backed up, through any cut and resume. *)
THEOREM UpdateRollbackIsExact ==
    ASSUME "corrupt" \notin FaultKinds, CheckPages \/ "flash" \notin FaultKinds
    PROVE  Spec => RollbackIsExact
<1>1. Undisturbed BY DEF Undisturbed
<1>2. UpdateInv /\ InStep /\ RestoreInv /\ [Next]_vars
      => [pc = "restored" /\ rec' # rec
          => \A b \in 0..rec.blen - 1 : v5f[b] = rec.bmac.data[b]]_vars
  <2>1. SUFFICES ASSUME UpdateInv, InStep, RestoreInv, pc = "restored"
                 PROVE  \A b \in 0..rec.blen - 1 : v5f[b] = rec.bmac.data[b]
        OBVIOUS
  <2>2. pc \in Awake /\ pc # "error" BY <2>1 DEF Awake
  <2>3. r = rec /\ rec # NoRecord /\ r.blen \in Lengths BY <2>1, <2>2, WorkFacts
  <2>4. Restores(rec, v5f, SpanBlocks) BY <1>1, <2>1, <2>3 DEF RestoreInv, Known
  <2>5. \A b \in 0..rec.blen - 1 : b \in Block /\ b < SpanBlocks /\ b < rec.blen
        BY <2>3, SizesAssumption DEF Lengths, Block
  <2> QED BY <2>4, <2>5 DEF Restores
<1> QED BY <1>2, UpdateInvariant, UpdateInStep, UpdateRestoreInv, PTL DEF Spec, RollbackIsExact

-----------------------------------------------------------------------------
(* Without faults: the switches go together as the security levels set them;
   where adopt_blank is on, images and backups come without a signature. *)
Levels == CheckSignature => CheckPages /\ ~AdoptBlank

BackupMac(k) == [ver |-> k.ver, len |-> k.len,
                 data |-> [b \in 0..k.len - 1 |-> k.data[b]],
                 b0 |-> IF CheckSignature THEN k.b0 ELSE NoPackage]

(* A record that fits the flash f, the header h and the backup k. *)
Vouched(q, f, h) == q.len # 0 /\ q.state \in {"IDLE", "BACKING_UP", "TRIAL"} => Ok(q, f, h)
Backed(q, k) == q.blen # 0 => k.ver = q.bver /\ k.len = q.blen /\ BackupMac(k) = q.bmac
WayBack(q) ==
    ~AdoptBlank =>
        /\ q.len = 0 => q.blen = 0
        /\ q.blen # 0 /\ q.state \in {"INSTALLING", "TRIAL", "ROLLING_BACK"} => q.bver >= q.min
Clean(q, f, h, k) == Vouched(q, f, h) /\ Backed(q, k) /\ WayBack(q)

CleanInv == NoFaults =>
    /\ card /\ ~again /\ ~forced
    /\ Known => Clean(rec, v5f, header, backup)
    /\ Known /\ pc = "kept" => rec.len = 0
    /\ Known /\ pc = "restored" /\ CheckSignature => header = rec.bmac.b0
    /\ Rolling /\ pc \in {"restore", "progress", "restored"} => rec.blen # 0

LEMMA BackupMacIs == backup_mac = BackupMac(backup)
BY DEF backup_mac, BackupMac

LEMMA StaysFaultless ==
    ASSUME UpdateInv, [Next]_vars, NoFaults' PROVE NoFaults /\ faults = 0 /\ faults' = 0
BY FaultsGrow DEF NoFaults

(* What an unfailing step starts from, while upd_boot works. *)
LEMMA CleanFacts ==
    ASSUME UpdateInv, InStep, SafeInv, CleanInv, NoFaults, pc \in Awake, pc # "error"
    PROVE  /\ WorldOK /\ RecordOK(r) /\ r = rec /\ Known /\ Fits(r, pc)
           /\ card /\ ~again /\ ~forced
           /\ Sound(r) /\ Clean(r, v5f, header, backup)
BY WorkFacts DEF CleanInv, SafeInv, Known

LEMMA StoredClean == ASSUME Stored, faults' = 0 PROVE rec' = r'
<1>1. ~(faults' > 0) OBVIOUS
<1> QED BY <1>1 DEF Stored

(* The image and the backup stay, and the state does not claim more. *)
LEMMA SameClean ==
    ASSUME NEW p, NEW q, NEW f, NEW h, NEW k, Clean(q, f, h, k), SameImage(p, q), SameBackup(p, q),
           p.state \in {"IDLE", "BACKING_UP", "TRIAL"}
               => q.state \in {"IDLE", "BACKING_UP", "TRIAL"},
           p.state \in {"INSTALLING", "TRIAL", "ROLLING_BACK"}
               => q.state \in {"INSTALLING", "TRIAL", "ROLLING_BACK"}
    PROVE  Clean(p, f, h, k)
<1>1. Vouched(p, f, h) BY OkOfImage DEF Clean, Vouched, SameImage
<1>2. Backed(p, k) BY DEF Clean, Backed, SameBackup
<1>3. WayBack(p) BY DEF Clean, WayBack, SameBackup, SameImage
<1> QED BY <1>1, <1>2, <1>3 DEF Clean

(* While the flash is being written, nothing is vouched for. *)
LEMMA WrittenClean ==
    ASSUME NEW q, NEW f, NEW h, NEW g, NEW i, NEW k, Clean(q, f, h, k),
           q.state \in {"INSTALLING", "ROLLING_BACK"}
    PROVE  Clean(q, g, i, k)
BY DEF Clean, Vouched

(* A backup is written only when none counts. *)
LEMMA NoneBacked ==
    ASSUME NEW q, NEW f, NEW h, NEW k, NEW l, Clean(q, f, h, k), q.blen = 0
    PROVE  Clean(q, f, h, l)
BY DEF Clean, Backed

LEMMA AdoptedOk ==
    ASSUME Levels, AdoptBlank, NEW q, NEW n, q.ver = 0, q.len = n,
           q.mac = image_mac(0, mac_length(n))
    PROVE  Ok(q, v5f, header)
BY DEF Ok, Levels, image_mac

LEMMA NewClean ==
    ASSUME Levels, WorldOK PROVE Clean(NewRecord, v5f, header, backup)
<1> DEFINE q == NewRecord
<1>1. /\ q.state = "IDLE" /\ q.blen = 0
      /\ ~AdoptBlank => q.len = 0
      /\ AdoptBlank => /\ q.ver = 0 /\ q.len = installed_length(SlotBlocks)
                       /\ q.mac = image_mac(0, mac_length(installed_length(SlotBlocks)))
      BY NewKeeps
<1> HIDE DEF q
<1>2. Vouched(q, v5f, header) BY <1>1, AdoptedOk DEF Vouched
<1>3. Backed(q, backup) /\ WayBack(q) BY <1>1 DEF Backed, WayBack
<1> QED BY <1>2, <1>3 DEF Clean, q

(* A step to anywhere but where the invariant says more. *)
LEMMA ToClean ==
    ASSUME card', ~again', ~forced', Known' => Clean(rec', v5f', header', backup'),
           pc' \notin {"kept", "restore", "progress", "restored"}
    PROVE  CleanInv'
BY DEF CleanInv

(* What the boot check finds without faults. *)
LEMMA CheckIsClean ==
    ASSUME UpdateInv, InStep, SafeInv, CleanInv, NoFaults, pc = "check", r.len # 0
    PROVE  CheckPasses /\ ~again
<1>1. pc \in Awake /\ pc # "error" BY DEF Awake
<1>2. r.state \in {"IDLE", "TRIAL"} /\ ~again /\ Vouched(r, v5f, header)
      BY <1>1, CleanFacts DEF InStep, Clean
<1> QED BY <1>2, OkIsInstalled DEF Vouched, CheckPasses

LEMMA KeepIsClean ==
    ASSUME UpdateInv, InStep, SafeInv, CleanInv, NoFaults, pc = "start"
    PROVE  Keep <=> r.len # 0
<1>1. pc \in Awake /\ pc # "error" BY DEF Awake
<1>2. r.state \in {"IDLE", "BACKING_UP"} /\ Vouched(r, v5f, header)
      BY <1>1, CleanFacts DEF InStep, Clean
<1> QED BY <1>2, OkIsInstalled DEF Vouched, Keep

LEMMA RollBackIsClean ==
    ASSUME UpdateInv, InStep, SafeInv, CleanInv, NoFaults, pc = "rollback", ~AdoptBlank,
           r.blen # 0
    PROVE  CanRollBack
<1>1. pc \in Awake /\ pc # "error" BY DEF Awake
<1>2. /\ card /\ Sound(r) /\ Backed(r, backup) /\ WayBack(r) /\ r.state = "ROLLING_BACK"
      BY <1>1, CleanFacts DEF Clean, Fits
<1>3. CheckPages => r.blen = SpanBlocks BY <1>2 DEF Sound
<1>4. backup.ver = r.bver /\ backup.len = r.blen /\ backup_mac = r.bmac
      BY <1>2, BackupMacIs DEF Backed
<1>5. r.bver >= r.min BY <1>2 DEF WayBack
<1> QED BY <1>2, <1>3, <1>4, <1>5 DEF CanRollBack, backup_good

(* The image a whole restore leaves checks as the one backed up did. *)
LEMMA RestoredOk ==
    ASSUME Levels, UpdateInv, InStep, SafeInv, RestoreInv, CleanInv, NoFaults, pc = "restored",
           NEW q, q.ver = r.bver, q.len = r.blen, q.min = r.min,
           q.mac = image_mac(r.bver, mac_length(r.blen))
    PROVE  Ok(q, v5f, header) /\ r.blen # 0
<1>1. pc \in Awake /\ pc # "error" BY DEF Awake
<1>2. /\ r = rec /\ Known /\ Sound(r) /\ r.state = "ROLLING_BACK" /\ r.bver >= r.min
      BY <1>1, CleanFacts DEF Fits
<1>3. r.blen # 0 BY <1>2 DEF CleanInv, Rolling
<1>4. q.mac = [ver |-> q.ver, data |-> [b \in 0..mac_length(q.len) - 1 |-> v5f[b]]]
      BY DEF image_mac
<1>5. ASSUME CheckSignature
      PROVE  /\ header \in Packages /\ header.app
             /\ header.ver = q.ver /\ header.len = q.len /\ header.ver >= q.min
             /\ \A b \in 0..header.len - 1 : v5f[b] = header.img
  <2>1. CheckPages BY <1>5 DEF Levels
  <2>2. r.blen = SpanBlocks BY <1>2, <1>3, <2>1 DEF Sound
  <2>3. PICK p \in Packages : /\ p.app /\ p.len = SpanBlocks /\ p.ver = r.bver
                              /\ r.bmac.b0 = p
                              /\ \A b \in Block : r.bmac.data[b] = p.img
        BY <1>2, <1>3, <1>5, <2>1 DEF Sound
  <2>4. header = p BY <1>2, <1>5, <2>3 DEF CleanInv
  <2>5. Restores(r, v5f, SpanBlocks) BY <1>2 DEF RestoreInv, Undisturbed, NoFaults
  <2>6. \A b \in Block : b < SpanBlocks BY SizesAssumption DEF Block
  <2>7. \A b \in 0..SpanBlocks - 1 : v5f[b] = p.img
        BY <2>2, <2>3, <2>5, <2>6 DEF Restores, Block
  <2> QED BY <1>2, <2>2, <2>3, <2>4, <2>7
<1> QED BY <1>3, <1>4, <1>5 DEF Ok

(* The pages the V5F writes are not what the MAC is made from. *)
LEMMA PagesClean ==
    ASSUME Levels, UpdateInv, NEW b \in Block, PagesWritten(b), Known,
           Clean(rec, v5f, header, backup)
    PROVE  Clean(rec, v5f', header, backup)
<1>1. ~CheckPages /\ ~CheckSignature /\ b >= SlotBlocks BY DEF PagesWritten, Levels
<1>2. v5f' = [v5f EXCEPT ![b] = Spoilt] BY DEF PagesWritten
<1>3. RecordOK(rec) /\ WorldOK BY InvFacts DEF Known
<1>4. rec.len \in Lengths BY <1>3 DEF RecordOK, Record
<1>5. \A x \in 0..mac_length(rec.len) - 1 : v5f'[x] = v5f[x]
  <2>1. mac_length(rec.len) <= SlotBlocks /\ mac_length(rec.len) \in Nat
    <3>1. rec.len \in Nat /\ SlotBlocks \in Nat BY <1>4, SizeFacts, SizesAssumption
    <3>2. mac_length(rec.len) = Minimum(rec.len, SlotBlocks) BY <1>1 DEF mac_length
    <3> QED BY <3>1, <3>2 DEF Minimum
  <2>2. \A x \in 0..mac_length(rec.len) - 1 : x # b
        BY <1>1, <2>1, SizesAssumption DEF Block
  <2>3. \A x \in 0..mac_length(rec.len) - 1 : x \in Block
        BY <1>4, SizeFacts
  <2> QED BY <1>2, <1>3, <2>2, <2>3 DEF WorldOK
<1> DEFINE n == mac_length(rec.len) - 1
<1>6. ASSUME Ok(rec, v5f, header) PROVE Ok(rec, v5f', header)
  <2>1. [x \in 0..n |-> v5f'[x]] = [x \in 0..n |-> v5f[x]] BY <1>5
  <2>2. rec.mac = [ver |-> rec.ver, data |-> [x \in 0..n |-> v5f[x]]] BY <1>6 DEF Ok
  <2>3. rec.mac = [ver |-> rec.ver, data |-> [x \in 0..n |-> v5f'[x]]] BY <2>1, <2>2
  <2> QED BY <1>1, <2>3 DEF Ok
<1> QED BY <1>6 DEF Clean, Vouched

(* What the confirm leaves still checks: it raises the minimum no further
   than the image it confirms. *)
LEMMA ConfirmClean ==
    ASSUME Levels, UpdateInv, Confirm, Clean(rec, v5f, header, backup)
    PROVE  Clean(rec', v5f, header, backup)
<1>1. RecordOK(rec) /\ Acceptable(rec) /\ rec.state = "TRIAL"
      BY InvFacts DEF Confirm, OnTrial
<1>2. CASE rec' = rec BY <1>2
<1>3. CASE /\ SameBackup(rec', rec) /\ rec'.state = "IDLE"
           /\ rec'.ver = rec.ver /\ rec'.len = rec.len /\ rec'.mac = rec.mac
           /\ rec'.min = IF rec.pkg.min > rec.min THEN rec.pkg.min ELSE rec.min
  <2>1. Backed(rec', backup) BY <1>3 DEF Clean, Backed, SameBackup
  <2>2. WayBack(rec') BY <1>3 DEF Clean, WayBack, SameBackup
  <2>3. ASSUME rec.len # 0 PROVE Ok(rec', v5f, header)
    <3>1. Ok(rec, v5f, header) BY <1>1, <2>3 DEF Clean, Vouched
    <3>2. ASSUME CheckSignature PROVE header.ver >= rec'.min
      <4>1. ~AdoptBlank BY <3>2 DEF Levels
      <4>2. rec.pkg \in Packages /\ rec.ver = rec.pkg.ver
            BY <1>1, <4>1 DEF Acceptable, AboveMinimum
      <4>3. rec.pkg.min <= rec.pkg.ver /\ rec.pkg.min \in Nat /\ rec.pkg.ver \in Nat
            BY <4>2, SizeFacts
      <4>4. header.ver = rec.ver /\ header.ver >= rec.min BY <3>1, <3>2 DEF Ok
      <4> QED BY <1>3, <4>2, <4>3, <4>4
    <3> QED BY <1>3, <3>1, <3>2 DEF Ok
  <2> QED BY <1>3, <2>1, <2>2, <2>3 DEF Clean, Vouched
<1> QED BY <1>2, <1>3, ConfirmEffect

(* What recovery leaves: the record it found, a new one, or the image in
   flash adopted. *)
LEMMA RecoveryClean ==
    ASSUME Levels, UpdateInv, CleanInv, NoFaults, faults' = 0,
           (\E p \in Packages : Receive(p)) \/ Adopt \/ Enroll,
           rec' # NoRecord
    PROVE  Clean(rec', v5f, header, backup)
<1>1. WorldOK /\ ~forced /\ ~(forced \/ faults' > 0) BY InvFacts DEF CleanInv
<1>2. CASE rec' = rec BY <1>2 DEF CleanInv, Known
<1>3. CASE rec' = NewRecord BY <1>1, <1>3, NewClean
<1>4. CASE /\ rec # NoRecord /\ rec'.state = "IDLE" /\ SameBackup(rec', rec) /\ AdoptBlank
           /\ rec'.ver = 0 /\ rec'.len = installed_length(SlotBlocks)
           /\ rec'.mac = image_mac(0, mac_length(installed_length(SlotBlocks)))
  <2>1. Ok(rec', v5f, header) BY <1>4, AdoptedOk
  <2>2. Clean(rec, v5f, header, backup) BY <1>4 DEF CleanInv, Known
  <2>3. Backed(rec', backup) BY <1>4, <2>2 DEF Clean, Backed, SameBackup
  <2> QED BY <1>4, <2>1, <2>3 DEF Clean, Vouched, WayBack
<1> QED BY <1>1, <1>2, <1>3, <1>4, RecoveryEffect

(* The steps of a rollback: the backup is there until the last of them. *)
LEMMA RollBackClean ==
    ASSUME UpdateInv, InStep, SafeInv, CleanInv, [Next]_vars, NoFaults, faults' = 0,
           BeginRestore \/ RestoreBlock \/ RestoreHeader \/ StoreProgress
    PROVE  CleanInv'
<1>1. pc \in Awake /\ pc # "error"
      BY DEF BeginRestore, RestoreBlock, RestoreHeader, StoreProgress, Awake
<1>2. /\ RecordOK(r) /\ r = rec /\ Known /\ Fits(r, pc) /\ WorldOK
      /\ card /\ ~again /\ ~forced /\ Clean(rec, v5f, header, backup)
      BY <1>1, CleanFacts
<1>3. UNCHANGED <<card, again, forced, backup>>
      BY DEF BeginRestore, RestoreBlock, RestoreHeader, StoreProgress, mode, files
<1>4. CASE StoreProgress
  <2>1. /\ Stored /\ SameImage(r', r) /\ SameBackup(r', r) /\ r'.state = r.state
        /\ pc' \in {IF r.state = "INSTALLING" THEN "program" ELSE "restore", "error"}
        BY <1>4, ProgressEffect
  <2>2. rec' = r' BY <2>1, StoredClean
  <2>3. Clean(rec', v5f, header, backup) BY <1>2, <2>1, <2>2, SameClean
  <2>4. UNCHANGED <<v5f, header>> /\ pc = "progress" BY <1>4 DEF StoreProgress
  <2>5. Rolling' /\ pc' = "restore" => rec'.blen # 0
    <3>1. Rolling' => Rolling /\ rec'.blen = rec.blen
          BY <1>2, <2>1, <2>2 DEF Rolling, SameBackup
    <3> QED BY <2>4, <3>1 DEF CleanInv
  <2> QED BY <1>3, <2>1, <2>3, <2>4, <2>5 DEF CleanInv
<1>5. CASE BeginRestore
  <2>1. UNCHANGED <<v5f, header, rec>> /\ pc' = "restore" BY <1>5 DEF BeginRestore, flash
  <2>2. rec.blen # 0 BY <1>2, <1>5 DEF BeginRestore, CanRollBack, backup_good
  <2> QED BY <1>2, <1>3, <2>1, <2>2 DEF CleanInv
<1>6. CASE RestoreBlock
  <2>1. /\ UNCHANGED <<header, rec>> /\ pc = "restore" /\ r.state = "ROLLING_BACK"
        /\ pc' \notin {"kept", "restored"}
        BY <1>2, <1>6 DEF RestoreBlock, Programmed, NoCard, Fits
  <2>2. rec.blen # 0 BY <1>2, <2>1 DEF CleanInv, Rolling
  <2>3. Clean(rec, v5f', header, backup) BY <1>2, <2>1, WrittenClean
  <2> QED BY <1>2, <1>3, <2>1, <2>2, <2>3 DEF CleanInv
<1>7. CASE RestoreHeader
  <2>1. /\ UNCHANGED <<v5f, rec>> /\ pc = "restore" /\ r.state = "ROLLING_BACK"
        /\ pc' \notin {"kept"}
        BY <1>2, <1>7 DEF RestoreHeader, StoredHeader, Fits
  <2>2. rec.blen # 0 BY <1>2, <2>1 DEF CleanInv, Rolling
  <2>3. Clean(rec, v5f, header', backup) BY <1>2, <2>1, WrittenClean
  <2>4. ASSUME pc' = "restored", CheckSignature PROVE header' = rec.bmac.b0
    <3>1. header' = backup.b0 BY <1>7, <2>4 DEF RestoreHeader, StoredHeader
    <3>2. BackupMac(backup) = rec.bmac BY <1>2, <2>2 DEF Clean, Backed
    <3>3. BackupMac(backup).b0 = backup.b0 BY <2>4 DEF BackupMac
    <3> QED BY <3>1, <3>2, <3>3
  <2> QED BY <1>2, <1>3, <2>1, <2>2, <2>3, <2>4 DEF CleanInv
<1> QED BY <1>4, <1>5, <1>6, <1>7

(* Starting an update: what is in flash is backed up, or there is none. *)
LEMMA StartClean ==
    ASSUME UpdateInv, InStep, SafeInv, CleanInv, [Next]_vars, NoFaults, faults' = 0,
           Refuse \/ NoRoom \/ BeginUpdate
    PROVE  CleanInv'
<1>1. pc = "start" /\ pc \in Awake /\ pc # "error" BY DEF Refuse, NoRoom, BeginUpdate, Awake
<1>2. /\ r = rec /\ Known /\ card /\ ~again /\ ~forced
      /\ Clean(r, v5f, header, backup) /\ r.state \in {"IDLE", "BACKING_UP"}
      BY <1>1, CleanFacts DEF InStep
<1>3. UNCHANGED <<card, again, forced, v5f, header, backup>>
      BY DEF Refuse, NoRoom, BeginUpdate, mode, files
<1>4. CASE Refuse \/ NoRoom
  <2>1. /\ Stored /\ SameImage(r', r) /\ SameBackup(r', r) /\ r'.state = "IDLE"
        /\ pc' \in {"check", "error"}
        BY <1>4, RefuseEffect
  <2>2. rec' = r' BY <2>1, StoredClean
  <2>3. Clean(rec', v5f, header, backup) BY <1>2, <2>1, <2>2, SameClean
  <2> QED BY <1>2, <1>3, <2>1, <2>3, ToClean
<1>5. CASE BeginUpdate
  <2>1. /\ Stored /\ SameImage(r', r) /\ r'.state = "BACKING_UP"
        /\ r'.bver = r.bver /\ r'.bmac = r.bmac
        /\ r'.blen = IF Keep THEN 0 ELSE r.blen
        /\ pc' \in {IF Keep THEN "backup" ELSE "kept", "error"}
        BY <1>5, BeginEffect
  <2>2. rec' = r' BY <2>1, StoredClean
  <2>3. Keep <=> r.len # 0 BY <1>1, KeepIsClean
  <2>4. Vouched(rec', v5f, header)
    <3>1. Vouched(r, v5f, header) BY <1>2 DEF Clean
    <3> QED BY <1>2, <2>1, <2>2, <3>1, OkOfImage DEF Vouched, SameImage
  <2>5. Backed(rec', backup) BY <1>2, <2>1, <2>2 DEF Clean, Backed
  <2>6. WayBack(rec')
    <3>1. WayBack(r) /\ rec'.len = r.len BY <1>2, <2>1, <2>2 DEF Clean, SameImage
    <3> QED BY <2>1, <2>2, <3>1 DEF WayBack
  <2>7. pc' = "kept" => rec'.len = 0 BY <2>1, <2>2, <2>3 DEF SameImage
  <2>8. pc' \in {"backup", "kept", "error"} BY <2>1
  <2> QED BY <1>3, <2>4, <2>5, <2>6, <2>7, <2>8 DEF CleanInv, Clean
<1> QED BY <1>4, <1>5

(* Making the backup: what the record will say of it is what is on the card. *)
LEMMA BackupClean ==
    ASSUME UpdateInv, InStep, SafeInv, CleanInv, [Next]_vars, NoFaults, faults' = 0,
           BackupBlock \/ BackupDone
    PROVE  CleanInv'
<1>1. pc \in {"backup", "kept"} /\ pc \in Awake /\ pc # "error"
      BY DEF BackupBlock, BackupDone, Awake
<1>2. /\ r = rec /\ Known /\ card /\ ~again /\ ~forced /\ RecordOK(r) /\ WorldOK
      /\ Clean(r, v5f, header, backup) /\ r.state = "BACKING_UP" /\ Acceptable(r)
      BY <1>1, CleanFacts, InvFacts DEF Fits
<1>3. CASE BackupBlock
  <2>1. UNCHANGED <<v5f, header, rec, card, again, forced>> /\ pc' \in {pc, "error"} /\ pc = "backup"
        BY <1>3 DEF BackupBlock, flash, mode
  <2>2. r.blen = 0 BY <2>1 DEF SafeInv, BackingUp
  <2>3. Clean(rec, v5f, header, backup') BY <1>2, <2>2, NoneBacked
  <2> QED BY <1>2, <2>1, <2>3, ToClean
<1>4. CASE BackupDone
  <2>1. card' /\ ~again' /\ ~forced' /\ UNCHANGED <<v5f, header, backup>>
        BY <1>2, <1>4 DEF BackupDone, mode, files
  <2>2. CASE pc' = "error" /\ UNCHANGED <<r, rec>> BY <1>2, <2>1, <2>2, ToClean
  <2>3. CASE Stored /\ pc = "kept" /\ SameImage(r', r) /\ SameBackup(r', r)
             /\ r'.state = "INSTALLING" /\ pc' \in {"install", "error"}
    <3>1. rec' = r' BY <2>3, StoredClean
    <3>2. Backed(rec', backup) BY <1>2, <2>3, <3>1 DEF Clean, Backed, SameBackup
    <3>3. r.len = 0 BY <1>2, <2>3 DEF CleanInv
    <3>4. WayBack(rec')
      <4>1. ~AdoptBlank => r.blen = 0 BY <1>2, <3>3 DEF Clean, WayBack
      <4> QED BY <2>3, <3>1, <4>1 DEF WayBack, SameBackup
    <3>5. Vouched(rec', v5f, header) BY <2>3, <3>1 DEF Vouched
    <3> QED BY <2>1, <2>3, <3>2, <3>4, <3>5, ToClean DEF Clean
  <2>4. CASE /\ Stored /\ pc = "backup" /\ SameImage(r', r) /\ r'.state = "INSTALLING"
             /\ r'.bver = r.ver /\ r'.blen = r.len /\ r'.bmac = backup_mac
             /\ pc' \in {"install", "error"}
    <3>1. rec' = r' BY <2>4, StoredClean
    <3>2. BackingUp BY <2>4 DEF SafeInv
    <3>3. blk > 0 /\ r.len # 0
      <4>1. r.len \in Nat BY <1>2, SizeFacts DEF RecordOK, Record
      <4>2. blk = NeededBlocks BY <1>4, <2>4 DEF BackupDone
      <4>3. NeededBlocks \in Nat /\ NeededBlocks > 0 BY <4>1 DEF NeededBlocks
      <4> QED BY <3>2, <4>2, <4>3 DEF BackingUp
    <3>4. backup.ver = r.ver /\ backup.len = r.len BY <3>2, <3>3 DEF BackingUp
    <3>5. Backed(rec', backup) BY <2>4, <3>1, <3>4, BackupMacIs DEF Backed
    <3>6. WayBack(rec')
      <4>1. ~AdoptBlank => r.ver >= r.min BY <1>2, <3>3 DEF Acceptable, AboveMinimum
      <4>2. rec'.len = r.len /\ rec'.min = r.min /\ rec'.bver = r.ver
            BY <2>4, <3>1 DEF SameImage
      <4> QED BY <3>3, <4>1, <4>2 DEF WayBack
    <3>7. Vouched(rec', v5f, header) BY <2>4, <3>1 DEF Vouched
    <3> QED BY <2>1, <2>4, <3>5, <3>6, <3>7, ToClean DEF Clean
  <2> QED BY <1>4, <2>2, <2>3, <2>4, BackupDoneEffect
<1> QED BY <1>3, <1>4

(* The install: the record claims nothing of the flash until it is done. *)
LEMMA InstallClean ==
    ASSUME UpdateInv, InStep, SafeInv, CleanInv, [Next]_vars, NoFaults, faults' = 0,
           Install \/ ProgramBlock \/ Verify \/ StoreHeader \/ Installed
    PROVE  CleanInv'
<1>1. pc \in Awake /\ pc # "error"
      BY DEF Install, ProgramBlock, Verify, StoreHeader, Installed, Awake
<1>2. /\ r = rec /\ Known /\ card /\ ~again /\ ~forced /\ RecordOK(r) /\ WorldOK
      /\ Clean(r, v5f, header, backup) /\ r.state = "INSTALLING"
      BY <1>1, CleanFacts DEF Fits, Install, ProgramBlock, Verify, StoreHeader, Installed
<1>3. UNCHANGED <<card, again, forced, backup>>
      BY DEF Install, ProgramBlock, Verify, StoreHeader, Installed, mode, files
<1>4. ASSUME TurnedBack, UNCHANGED <<v5f, header>> PROVE CleanInv'
  <2>1. rec' = r' BY <1>4, StoredClean DEF TurnedBack
  <2>2. Clean(rec', v5f, header, backup) BY <1>2, <1>4, <2>1, SameClean DEF TurnedBack
  <2>3. pc' \in {"rollback", "error"} BY <1>4 DEF TurnedBack
  <2> QED BY <1>2, <1>3, <1>4, <2>2, <2>3, ToClean
<1>5. ASSUME rec' = rec, pc' \notin {"kept", "restored"} PROVE CleanInv'
  <2>1. Clean(rec, v5f', header', backup) BY <1>2, WrittenClean
  <2>2. ~Rolling' BY <1>2, <1>5 DEF Rolling
  <2> QED BY <1>2, <1>3, <1>5, <2>1, <2>2 DEF CleanInv
<1>6. CASE Install \/ Verify
  <2>1. UNCHANGED <<v5f, header>> BY <1>6 DEF Install, Verify
  <2>2. \/ record_store(ToRollBack(r), "rollback")
        \/ r' = ToRollBack(r) /\ rec' = ToRollBack(r) /\ pc' = "rollback"
        \/ rec' = rec /\ pc' \notin {"kept", "restored"}
        BY <1>6 DEF Install, Verify
  <2> QED BY <1>2, <1>4, <1>5, <2>1, <2>2, TurnEffect
<1>7. CASE ProgramBlock
  <2>1. CASE r' = ToRollBack(r) /\ rec' = ToRollBack(r) /\ pc' = "rollback" /\ UNCHANGED v5f
    <3>1. TurnedBack BY <1>2, <2>1, TurnEffect
    <3>2. UNCHANGED header BY <1>7 DEF ProgramBlock
    <3> QED BY <1>4, <2>1, <3>1, <3>2
  <2>2. CASE rec' = rec /\ pc' \in {"program", "progress", "error"} BY <1>5, <2>2
  <2> QED BY <1>7, <2>1, <2>2 DEF ProgramBlock, Programmed, NoCard
<1>8. CASE StoreHeader
  <2>1. rec' = rec /\ pc' \notin {"kept", "restored"} BY <1>8 DEF StoreHeader, StoredHeader
  <2> QED BY <1>5, <2>1
<1>9. CASE Installed
  <2> DEFINE len == installed_length(r.pkg.len)
  <2>1. UNCHANGED <<v5f, header>> BY <1>9 DEF Installed
  <2>2. CASE TurnedBack BY <1>4, <2>1, <2>2
  <2>3. CASE /\ CheckSignature => signed_ok(r, r.pkg.ver, len)
             /\ Stored /\ SameBackup(r', r) /\ r'.state = "TRIAL" /\ r'.min = r.min
             /\ r'.ver = r.pkg.ver /\ r'.len = len
             /\ r'.mac = image_mac(r.pkg.ver, mac_length(len))
             /\ pc' \in {"check", "error"}
    <3>1. rec' = r' BY <2>3, StoredClean
    <3>2. Ok(rec', v5f, header) BY <2>3, <3>1 DEF Ok, signed_ok, image_mac, Holds
    <3>3. Backed(rec', backup) BY <1>2, <2>3, <3>1 DEF Clean, Backed, SameBackup
    <3>4. len # 0
      <4>1. r.pkg.len > 0 /\ r.pkg.len \in Lengths BY <1>2, SizeFacts DEF RecordOK
      <4>2. r.pkg.len \in Nat BY <4>1, SizeFacts
      <4> QED BY <4>1, <4>2, SizesAssumption DEF installed_length
    <3>5. WayBack(rec')
      <4>1. ~AdoptBlank /\ r.blen # 0 => r.bver >= r.min BY <1>2 DEF Clean, WayBack
      <4>2. rec'.len # 0 /\ rec'.blen = r.blen /\ rec'.bver = r.bver /\ rec'.min = r.min
            BY <2>3, <3>1, <3>4 DEF SameBackup
      <4> QED BY <4>1, <4>2 DEF WayBack
    <3> QED BY <1>2, <1>3, <2>1, <2>3, <3>2, <3>3, <3>5, ToClean DEF Clean, Vouched
  <2> QED BY <1>9, <2>2, <2>3, InstalledEffect
<1> QED BY <1>6, <1>7, <1>8, <1>9

(* The trial's boots, and the end of a rollback. *)
LEMMA TrialClean ==
    ASSUME Levels, UpdateInv, InStep, SafeInv, RestoreInv, CleanInv, [Next]_vars,
           NoFaults, faults' = 0, TrialBoot \/ CannotRollBack \/ Restored
    PROVE  CleanInv'
<1>1. pc \in Awake /\ pc # "error" BY DEF TrialBoot, CannotRollBack, Restored, Awake
<1>2. /\ r = rec /\ Known /\ card /\ ~again /\ ~forced
      /\ Clean(r, v5f, header, backup) /\ (pc = "trial" => r.state = "TRIAL")
      BY <1>1, CleanFacts DEF Fits
<1>3. UNCHANGED <<card, again, forced, v5f, header, backup>>
      BY DEF TrialBoot, CannotRollBack, Restored, mode, files
<1>4. ASSUME Stored, Clean(r', v5f, header, backup), pc' \in {"check", "rollback", "error"}
      PROVE  CleanInv'
  <2>1. rec' = r' BY <1>4, StoredClean
  <2>2. Clean(rec', v5f, header, backup) BY <1>4, <2>1
  <2> QED BY <1>2, <1>3, <1>4, <2>2, ToClean
<1>5. ASSUME SameBackup(r', r), r'.len = 0, r'.state = "IDLE", ~AdoptBlank => r.blen = 0
      PROVE  Clean(r', v5f, header, backup)
  <2>1. Backed(r', backup) BY <1>2, <1>5 DEF Clean, Backed, SameBackup
  <2> QED BY <1>5, <2>1 DEF Clean, Vouched, WayBack, SameBackup
<1>6. CASE TrialBoot
  <2>1. pc = "trial" BY <1>6 DEF TrialBoot
  <2>2. CASE /\ Stored /\ SameImage(r', r) /\ SameBackup(r', r)
             /\ r'.state \in {"TRIAL", "ROLLING_BACK"} /\ pc' \in {"check", "rollback", "error"}
    <3>1. Clean(r', v5f, header, backup) BY <1>2, <2>1, <2>2, SameClean
    <3> QED BY <1>4, <2>2, <3>1
  <2>3. CASE /\ Stored /\ SameBackup(r', r) /\ r.blen = 0 /\ r'.len = 0 /\ r'.state = "IDLE"
             /\ pc' \in {"check", "rollback", "error"}
        BY <1>4, <1>5, <2>3
  <2> QED BY <1>6, <2>2, <2>3, TrialEffect DEF TurnedBack
<1>7. CASE CannotRollBack
  <2>1. pc = "rollback" /\ ~CanRollBack BY <1>7 DEF CannotRollBack
  <2>2. ~AdoptBlank => r.blen = 0 BY <2>1, RollBackIsClean
  <2>3. Stored /\ SameBackup(r', r) /\ r'.len = 0 /\ r'.state = "IDLE" /\ pc' \in {"check", "error"}
        BY <1>7, CannotEffect
  <2> QED BY <1>4, <1>5, <2>2, <2>3
<1>8. CASE Restored
  <2>1. /\ Stored /\ SameBackup(r', r) /\ r'.state = "IDLE" /\ r'.min = r.min
        /\ r'.ver = r.bver /\ r'.len = r.blen
        /\ r'.mac = image_mac(r.bver, mac_length(r.blen))
        /\ pc' \in {"check", "error"}
        BY <1>8, RestoredEffect
  <2>2. rec' = r' BY <2>1, StoredClean
  <2>3. pc = "restored" BY <1>8 DEF Restored
  <2>4. Ok(r', v5f, header) /\ r.blen # 0 BY <2>1, <2>3, RestoredOk
  <2>5. Backed(r', backup) BY <1>2, <2>1 DEF Clean, Backed, SameBackup
  <2>6. WayBack(r') BY <2>1, <2>4 DEF WayBack
  <2>7. Clean(r', v5f, header, backup) BY <2>4, <2>5, <2>6 DEF Clean, Vouched
  <2> QED BY <1>4, <2>1, <2>7
<1> QED BY <1>6, <1>7, <1>8

(* A cut tears the flash while nothing is vouched for, and the backup while
   none counts. *)
LEMMA CutClean ==
    ASSUME UpdateInv, InStep, SafeInv, CleanInv, NoFaults, Cut PROVE CleanInv'
<1>1. UNCHANGED <<rec, card>> /\ pc' = "off" /\ again' = FALSE /\ (forced' => forced)
      BY DEF Cut, Leave
<1>2. card /\ ~again /\ ~forced BY DEF CleanInv
<1>3. ASSUME Known PROVE Clean(rec, v5f', header', backup')
  <2>1. Clean(rec, v5f, header, backup) BY <1>3 DEF CleanInv
  <2>2. CASE UNCHANGED <<v5f, header, backup>> BY <2>1, <2>2
  <2>3. CASE pc \in {"program", "restore", "header"}
    <3>1. UNCHANGED backup BY <2>3 DEF Cut
    <3>2. pc \in Awake /\ pc # "error" BY <2>3 DEF Awake
    <3>3. rec.state \in {"INSTALLING", "ROLLING_BACK"} BY <2>3, <3>2, CleanFacts DEF Fits
    <3> QED BY <2>1, <3>1, <3>3, WrittenClean
  <2>4. CASE pc = "backup"
    <3>1. UNCHANGED <<v5f, header>> BY <2>4 DEF Cut
    <3>2. pc \in Awake /\ pc # "error" BY <2>4 DEF Awake
    <3>3. rec.blen = 0 BY <2>4, <3>2, CleanFacts DEF SafeInv, BackingUp
    <3> QED BY <2>1, <3>1, <3>3, NoneBacked
  <2> QED BY <2>2, <2>3, <2>4 DEF Cut
<1>4. Known' => Clean(rec', v5f', header', backup') BY <1>1, <1>3 DEF Known
<1> QED BY <1>1, <1>2, <1>4, ToClean

LEMMA StepClean ==
    ASSUME Levels, UpdateInv, InStep, SafeInv, RestoreInv, CleanInv, [Next]_vars
    PROVE  CleanInv'
<1>1. SUFFICES ASSUME NoFaults' PROVE CleanInv' BY DEF CleanInv
<1>2. NoFaults /\ faults = 0 /\ faults' = 0 BY <1>1, StaysFaultless
<1>3. card /\ ~again /\ ~forced /\ (Known => Clean(rec, v5f, header, backup)) /\ WorldOK
      BY <1>2, InvFacts DEF CleanInv
<1>4. ASSUME NEW kind, Fault(kind) PROVE FALSE BY <1>2, <1>4 DEF Fault
<1>5. CASE \E waiting \in BOOLEAN : Boot(waiting)
  <2>1. PICK waiting \in BOOLEAN : Boot(waiting) BY <1>5
  <2>2. ASSUME NEW q, RecordOK(q)
        PROVE  Switch(q, waiting) \notin {"kept", "restore", "progress", "restored"}
        BY <2>2 DEF RecordOK, Record, Switch
  <2>3. UNCHANGED <<v5f, header, backup, card, again, forced>> BY <2>1 DEF Boot, files, mode
  <2>4. CASE rec # NoRecord
    <3>1. RecordOK(rec) /\ rec' = rec /\ pc' = Switch(rec, waiting)
          BY <2>1, <2>4, InvFacts DEF Boot
    <3>2. Known' => Clean(rec', v5f', header', backup') BY <1>3, <2>3, <3>1 DEF Known
    <3> QED BY <1>3, <2>2, <2>3, <3>1, <3>2, ToClean
  <2>5. CASE rec = NoRecord
    <3> DEFINE q == NewRecord
    <3>1. RecordOK(q) /\ Clean(q, v5f, header, backup) BY <1>3, NewKeeps, NewClean
    <3>2. record_store(q, Switch(q, waiting)) BY <2>1, <2>5 DEF Boot
    <3> HIDE DEF q
    <3>3. rec' = q /\ pc' = Switch(q, waiting) BY <1>4, <3>2 DEF record_store
    <3>4. Known' => Clean(rec', v5f', header', backup') BY <2>3, <3>1, <3>3
    <3> QED BY <1>3, <2>2, <2>3, <3>1, <3>3, <3>4, ToClean
  <2> QED BY <2>4, <2>5
<1>6. CASE \/ \E waiting \in BOOLEAN : NeverUpdated(waiting)
           \/ Start \/ NoImage \/ StoppedByError \/ DoesNotStart
  <2>1. /\ UNCHANGED <<rec, v5f, header, backup, card>>
        /\ again' = FALSE /\ (forced' => forced)
        /\ pc' \in {"off", "run", "unchecked", "recovery"}
        BY <1>6 DEF NeverUpdated, Start, NoImage, StoppedByError, DoesNotStart, Leave, flash, files
  <2>2. Known' => Clean(rec', v5f', header', backup') BY <1>3, <2>1 DEF Known
  <2> QED BY <1>3, <2>1, <2>2, ToClean
<1>7. CASE AdoptChanged \/ RestoreChanged \/ MarkedBroken
  <2>1. pc = "check" /\ ~CheckPasses BY <1>7 DEF AdoptChanged, RestoreChanged, MarkedBroken
  <2>2. r.len # 0 BY <1>3, <1>7 DEF AdoptChanged, RestoreChanged, MarkedBroken
  <2> QED BY <1>2, <2>1, <2>2, CheckIsClean
<1>8. CASE Confirm
  <2>1. Known /\ UNCHANGED <<v5f, header, backup, card, again, forced, pc>>
        /\ pc \in {"run", "unchecked"}
        BY <1>8 DEF Confirm, OnTrial, Known, Running, files, ram, mode
  <2>2. Clean(rec', v5f, header, backup) BY <1>3, <1>8, <2>1, ConfirmClean
  <2> QED BY <1>3, <2>1, <2>2, ToClean
<1>9. CASE (\E p \in Packages : Receive(p)) \/ Adopt \/ Enroll
  <2>1. UNCHANGED <<v5f, header, backup, card>> /\ pc' \in {"received", "off", "recovery"}
    <3>1. CASE \E p \in Packages : Receive(p) BY <3>1 DEF Receive
    <3>2. CASE Adopt BY <3>2 DEF Adopt, Leave, files, ram
    <3>3. CASE Enroll BY <3>3 DEF Enroll, files, ram
    <3> QED BY <1>9, <3>1, <3>2, <3>3
  <2>3. again' = FALSE /\ forced' = FALSE
    <3>1. again = FALSE /\ forced = FALSE BY <1>3 DEF WorldOK
    <3>2. CASE \E p \in Packages : Receive(p) BY <3>1, <3>2 DEF Receive
    <3>3. CASE Adopt BY <3>1, <3>3 DEF Adopt, Leave, ram, mode
    <3>4. CASE Enroll BY <3>1, <3>4 DEF Enroll, ram, mode
    <3> QED BY <1>9, <3>2, <3>3, <3>4
  <2>2. Known' => Clean(rec', v5f, header, backup)
        BY <1>2, <1>9, RecoveryClean DEF Known
  <2> QED BY <1>3, <2>1, <2>2, <2>3, ToClean
<1>10. CASE \/ \E p \in Packages \cup {NoPackage} : Fetch(p)
            \/ UNCHANGED vars
  <2>1. UNCHANGED <<rec, v5f, header, backup, card, again, forced, pc>>
        BY <1>10 DEF Fetch, vars, flash, files, ram, mode
  <2> QED BY <1>2, <2>1 DEF CleanInv, Known, Rolling
<1>11. CASE \E b \in Block : PagesWritten(b)
  <2>1. PICK b \in Block : PagesWritten(b) BY <1>11
  <2>2. UNCHANGED <<rec, header, backup, card, again, forced, pc>> /\ pc \in {"run", "unchecked"}
        BY <2>1 DEF PagesWritten, Running, files, ram, mode
  <2>3. Known' => Clean(rec', v5f', header', backup') BY <1>3, <2>1, <2>2, PagesClean DEF Known
  <2> QED BY <1>3, <2>2, <2>3, ToClean
<1>12. CASE \/ \E b \in Block : Corrupt(b)
            \/ LoseBackup \/ PullCard \/ ForceRecovery \/ CardBack
       BY <1>3, <1>4, <1>12 DEF Corrupt, LoseBackup, PullCard, ForceRecovery, CardBack
<1> QED BY <1>2, <1>5, <1>6, <1>7, <1>8, <1>9, <1>10, <1>11, <1>12,
           StartClean, BackupClean, InstallClean, RollBackClean, TrialClean, CutClean
        DEF Next, BootStep, Environment

LEMMA InitClean == ASSUME Init PROVE CleanInv
BY DEF Init, CleanInv, Known, Rolling

THEOREM UpdateCleanInv == ASSUME Levels PROVE Spec => []CleanInv
<1>1. UpdateInv /\ InStep /\ SafeInv /\ RestoreInv /\ CleanInv /\ [Next]_vars => CleanInv'
      BY StepClean
<1> QED BY <1>1, InitClean, UpdateInvariant, UpdateInStep, UpdateSafeInv, UpdateRestoreInv,
           PTL DEF Spec

(* Without a fault no boot's check ever fails, whatever was cut when: power
   cuts alone never send a board to a rollback, to recovery or to an adopt
   (update.c:766-813). *)
THEOREM UpdateNoFalseAlarm == ASSUME Levels PROVE Spec => []NoFalseAlarm
<1>1. UpdateInv /\ InStep /\ SafeInv /\ CleanInv => NoFalseAlarm
      BY CheckIsClean DEF NoFalseAlarm
<1> QED BY <1>1, UpdateInvariant, UpdateInStep, UpdateSafeInv, UpdateCleanInv, PTL

(* Above level 0, a fault-free record's backup is the one on the card, whole
   and of a version the board takes, whatever was cut when (update.c:664-676,
   511, 833). *)
THEOREM UpdateRollbackPossible ==
    ASSUME Levels, ~AdoptBlank PROVE Spec => []RollbackPossible
<1>1. ASSUME SafeInv, CleanInv, NoFaults, Known, rec.blen # 0
      PROVE  /\ backup_good(rec)
             /\ rec.state \in {"INSTALLING", "TRIAL", "ROLLING_BACK"} => rec.bver >= rec.min
  <2>1. card /\ Sound(rec) /\ Backed(rec, backup) /\ WayBack(rec)
        BY <1>1 DEF SafeInv, CleanInv, Clean
  <2>2. CheckPages => rec.blen = SpanBlocks BY <1>1, <2>1 DEF Sound
  <2>3. backup.ver = rec.bver /\ backup.len = rec.blen /\ backup_mac = rec.bmac
        BY <1>1, <2>1, BackupMacIs DEF Backed
  <2>4. backup_good(rec) BY <1>1, <2>1, <2>2, <2>3 DEF backup_good
  <2> QED BY <1>1, <2>1, <2>4 DEF WayBack
<1>2. SafeInv /\ CleanInv => RollbackPossible BY <1>1 DEF RollbackPossible
<1> QED BY <1>2, UpdateSafeInv, UpdateCleanInv, PTL
=============================================================================
