------------------------------- MODULE Update -------------------------------
(***************************************************************************)
(* Installing firmware updates: src/src/update.c, and what stage 1 does    *)
(* with upd_boot's outcome (V3F/User/stage1.c:503-523).  A boot is a run   *)
(* of small steps, each a flash or card write, between which the power can *)
(* go.  The security record is stored in one step (UpdateRecord shows why  *)
(* that is right); an image is a function from blocks to contents, and a   *)
(* MAC or a hash is the contents it was made of.                           *)
(***************************************************************************)
EXTENDS Naturals

CONSTANTS
    Images,         \* image contents: a block of image i holds i
    Packages,       \* records [img, ver, min, len, app]: sealed packages
    NoPackage,      \* lfstage.bin holds no package that mounts
    NoRecord,       \* a blank security record, or none in RAM
    Erased, Spoilt, \* a flash block erased; one torn, changed, or a page the V5F wrote
    SlotBlocks,     \* blocks in the V5F slot (UPD_V5F_SLOT)
    SpanBlocks,     \* blocks in the slot and the flash pages (UPD_APP_SPAN)
    BackupBlocks,   \* blocks lfbackup.bin has room for
    SectorBlocks,   \* blocks per erase sector (UPD_SECTOR / UPD_BLOCK)
    TrialBoots,     \* UPD_TRIAL_BOOTS
    FactoryImage,   \* what the debugger left in the flash
    Works,          \* the images whose V5F confirms them
    AdoptBlank, CheckPages, CheckSignature,     \* upd_io's switches
    FaultKinds,     \* which faults may happen (see Faults below)
    MaxFaults       \* bound: faults in a behaviour

Block == 0..SpanBlocks - 1
Contents == Images \cup {Erased, Spoilt}

ASSUME SizesAssumption == /\ SlotBlocks \in Nat \ {0}
                          /\ SpanBlocks \in Nat
                          /\ SlotBlocks <= SpanBlocks
                          /\ BackupBlocks \in Nat
                          /\ SectorBlocks \in Nat \ {0}
                          /\ SpanBlocks % SectorBlocks = 0
                          /\ TrialBoots \in Nat
                          /\ MaxFaults \in Nat
ASSUME SwitchesAssumption == {AdoptBlank, CheckPages, CheckSignature} \subseteq BOOLEAN
ASSUME ImagesAssumption == /\ FactoryImage \in Images
                           /\ Works \subseteq Images
                           /\ Erased \notin Images
                           /\ Spoilt \notin Images
                           /\ Erased # Spoilt
(* Packages as sealblocks.py makes them; a package whose new minimum is above
   its own version would refuse itself once confirmed. *)
ASSUME PackagesAssumption ==
    /\ NoPackage \notin Packages
    /\ Packages \subseteq [img : Images, ver : Nat, min : Nat, len : 1..SpanBlocks, app : BOOLEAN]
    /\ \A p \in Packages : p.min <= p.ver

VARIABLES
    v5f,        \* the V5F slot and the flash pages
    header,     \* the installed package's block 0, at UPD_HEADER
    rec,        \* the security record in flash
    stage,      \* the package in lfstage.bin
    backup,     \* lfbackup.bin: its block 0, the image's blocks, the image's package block 0
    card,       \* whether the card is in
    r,          \* the record in RAM, as upd_boot changes it
    pc, blk,    \* where stage 1 is, and the block it is at
    again,      \* upd_boot's second roll_back, after the check, is under way
    recovering, \* this is recovery: upd_boot ran from receive(), not from a reset
    forced,     \* Ctrl+X x3 twice asked for recovery
    faults,     \* faults so far
    tries       \* starts of the image on trial so far (history)

flash == <<v5f, header, rec>>
files == <<stage, backup, card>>
mode == <<recovering, forced>>
ram == <<r, pc, blk, again, mode>>
vars == <<flash, files, ram, faults, tries>>

-----------------------------------------------------------------------------
(* MACs and hashes: what they were made of. *)
Minimum(a, b) == IF a <= b THEN a ELSE b

mac_lengthWhole(len) == IF CheckPages THEN SpanBlocks ELSE len      \* mutant: the pages too
(* How much of an installed image its MAC covers, and the length it counts as *)
mac_length(len) == IF CheckPages THEN SpanBlocks ELSE Minimum(len, SlotBlocks)
installed_length(len) == IF CheckPages THEN SpanBlocks ELSE len

image_mac(ver, len) == [ver |-> ver, data |-> [b \in 0..len - 1 |-> v5f[b]]]
installed_mac(q) == image_mac(q.ver, mac_length(q.len))

Holds(img, len) == \A b \in 0..len - 1 : v5f[b] = img

(* The signed block 0 at UPD_HEADER is this image's, and flash holds it. *)
signed_ok(q, ver, len) == /\ header \in Packages
                          /\ header.app
                          /\ header.ver = ver /\ header.len = len
                          /\ header.ver >= q.min
                          /\ Holds(header.img, header.len)

installed_okMacOnly(q) == q.mac = installed_mac(q)      \* mutant: no signature
(* The boot check. *)
installed_ok(q) == /\ q.mac = installed_mac(q)
                   /\ CheckSignature => signed_ok(q, q.ver, q.len)

(* lfstage.bin holds a package this board takes: no older than the minimum,
   and an app package where the pages must be signed too. *)
Mountable(q) == /\ card
                /\ stage # NoPackage
                /\ stage.ver >= q.min
                /\ CheckSignature => stage.app
                /\ IF stage.app THEN stage.len = SpanBlocks ELSE stage.len <= SlotBlocks

(* What lfbackup.bin's MAC is made of, and whether it is the record's. *)
backup_mac == [ver |-> backup.ver, len |-> backup.len,
               data |-> [b \in 0..backup.len - 1 |-> backup.data[b]],
               b0 |-> IF CheckSignature THEN backup.b0 ELSE NoPackage]
backup_good(q) == /\ card
                  /\ q.blen # 0
                  /\ CheckPages => q.blen = SpanBlocks
                  /\ backup.ver = q.bver /\ backup.len = q.blen
                  /\ backup_mac = q.bmac

sector_done(b, blocks) == (b + 1) % SectorBlocks = 0 \/ b + 1 = blocks
Sector(b) == {x \in Block : x \div SectorBlocks = b \div SectorBlocks}

-----------------------------------------------------------------------------
(* Steps that writes are built from. *)
Fault(kind) == kind \in FaultKinds /\ faults < MaxFaults /\ faults' = faults + 1

(* record_store: all or nothing; a refused store returns its error. *)
record_store(q, next) ==
    /\ r' = q
    /\ \/ rec' = q /\ pc' = next /\ UNCHANGED faults
       \/ Fault("flash") /\ rec' \in {rec, q} /\ pc' = "error"

BlankRecord == [state |-> "IDLE", result |-> "NONE", ver |-> 0, len |-> 0,
                mac |-> image_mac(0, 0), min |-> 0, progress |-> 0, pkg |-> NoPackage,
                bver |-> 0, blen |-> 0,
                bmac |-> [ver |-> 0, len |-> 0, data |-> image_mac(0, 0).data, b0 |-> NoPackage]]

AsInstalled(q, ver, len) ==
    [q EXCEPT !.ver = ver, !.len = len, !.mac = image_mac(ver, mac_length(len))]
Adopted(q) == AsInstalled(q, 0, installed_length(SlotBlocks))
Broken(q) == [q EXCEPT !.result = "BROKEN", !.len = 0]
ToRollBack(q) == [q EXCEPT !.state = "ROLLING_BACK", !.progress = 0]

(* program_block: flash only takes what it holds as erased. *)
ErasedFor(b) == IF b % SectorBlocks = 0
                  THEN [x \in Block |-> IF x \in Sector(b) THEN Erased ELSE v5f[x]]
                  ELSE v5f
program_block(b, c) ==
    [ErasedFor(b) EXCEPT ![b] = IF ErasedFor(b)[b] = Erased THEN c ELSE Spoilt]
TornBlock(b) == {v5f, ErasedFor(b), [ErasedFor(b) EXCEPT ![b] = Spoilt],
                 [x \in Block |-> IF b % SectorBlocks = 0 /\ x \in Sector(b) THEN Spoilt ELSE v5f[x]]}

-----------------------------------------------------------------------------
(* Stage 1 done: on to `next`, its RAM dead. *)
Leave(next) == /\ pc' = next
               /\ r' = NoRecord /\ blk' = 0 /\ again' = FALSE
               /\ recovering' = (next = "recovery")
               /\ forced' = (forced /\ next # "off")

(* upd_boot, to the switch on the record's state.  With no record, one is
   made first, below level 2 with the image in flash as installed; at level 2
   there is no key yet (CheckSignature stands for the level), so only enroll
   makes one.  receive() calls upd_boot with a package waiting. *)
Switch(q, waiting) ==
    IF q.state = "IDLE" /\ ~waiting THEN "check"
    ELSE [IDLE |-> "start", BACKING_UP |-> "start", INSTALLING |-> "install",
          TRIAL |-> "trial", ROLLING_BACK |-> "rollback"][q.state]

NewRecord == IF AdoptBlank THEN Adopted(BlankRecord) ELSE BlankRecord

Boot(waiting) ==
    /\ pc = "off" \/ (pc = "received" /\ waiting)
    /\ \/ /\ rec # NoRecord
          /\ r' = rec
          /\ pc' = Switch(rec, waiting)
          /\ UNCHANGED <<rec, faults>>
       \/ /\ rec = NoRecord /\ waiting /\ ~CheckSignature
          /\ record_store(NewRecord, Switch(NewRecord, waiting))
    /\ UNCHANGED <<v5f, header, files, blk, again, mode, tries>>

(* No record and no package, or no key: nothing to check an image with. *)
NeverUpdated(waiting) ==
    /\ rec = NoRecord
    /\ \/ pc = "off" /\ (waiting => CheckSignature)
       \/ pc = "received" /\ CheckSignature
    /\ Leave(IF CheckSignature \/ forced \/ recovering THEN "recovery" ELSE "unchecked")
    /\ UNCHANGED <<flash, files, faults, tries>>

TrialBootUncounted ==                   \* mutant: the count is not stored
    /\ pc = "trial"
    /\ record_store(r, "check")
    /\ UNCHANGED <<v5f, header, files, blk, again, mode, tries>>
(* UPD_TRIAL: one more boot without a confirm. *)
TrialBoot ==
    /\ pc = "trial"
    /\ LET q == [r EXCEPT !.progress = @ + 1]
       IN  IF q.progress <= TrialBoots THEN record_store(q, "check")
           ELSE IF r.blen = 0 THEN record_store([Broken(q) EXCEPT !.state = "IDLE"], "check")
           ELSE record_store(ToRollBack(q), "rollback")
    /\ UNCHANGED <<v5f, header, files, blk, again, mode, tries>>

-----------------------------------------------------------------------------
KeepUnchecked == r.len # 0              \* mutant: whatever is in flash
(* start_update: checks the package, then backs up and installs. *)
Keep == r.len # 0 /\ installed_ok(r)
NeededBlocks == 1 + r.len + (IF CheckSignature THEN 1 ELSE 0)

(* mount_package fails: by its block 0, or by a content block that can't be
   read or fails its hash. *)
Refuse ==
    /\ pc = "start"
    /\ LET q == [r EXCEPT !.state = "IDLE", !.result = "REFUSED"]
       IN  \/ ~Mountable(r) /\ record_store(q, "check")
          \/ /\ Mountable(r) /\ Fault("read")
             /\ r' = q /\ rec' = q /\ pc' = "check"
    /\ UNCHANGED <<v5f, header, files, blk, again, mode, tries>>

NoRoom ==
    /\ pc = "start"
    /\ Mountable(r) /\ Keep /\ NeededBlocks > BackupBlocks
    /\ record_store([r EXCEPT !.state = "IDLE", !.result = "NO_BACKUP"], "check")
    /\ UNCHANGED <<v5f, header, files, blk, again, mode, tries>>

BeginUpdateWithout(q) ==
    /\ pc = "start"
    /\ Mountable(r)
    /\ Keep => NeededBlocks <= BackupBlocks
    /\ record_store(q, IF Keep THEN "backup" ELSE "kept")
    /\ blk' = 0
    /\ UNCHANGED <<v5f, header, files, again, mode, tries>>
BeginUpdateNoPackage ==                 \* mutant: the package isn't recorded
    BeginUpdateWithout([r EXCEPT !.state = "BACKING_UP", !.progress = 0, !.result = "NONE",
                                 !.blen = IF Keep THEN 0 ELSE @])
BeginUpdateKeepsOld ==                  \* mutant: the old backup still trusted
    BeginUpdateWithout([r EXCEPT !.state = "BACKING_UP", !.progress = 0, !.result = "NONE",
                                 !.pkg = stage])
BeginUpdate ==
    /\ pc = "start"
    /\ Mountable(r)
    /\ Keep => NeededBlocks <= BackupBlocks
    /\ record_store([r EXCEPT !.state = "BACKING_UP", !.progress = 0, !.result = "NONE",
                              !.pkg = stage, !.blen = IF Keep THEN 0 ELSE @],
                    IF Keep THEN "backup" ELSE "kept")
    /\ blk' = 0
    /\ UNCHANGED <<v5f, header, files, again, mode, tries>>

(* make_backup: block 0, the image, the image's own package block 0. *)
BackupWith(b) == IF b = 0 THEN [backup EXCEPT !.ver = r.ver, !.len = r.len]
                 ELSE IF b <= r.len THEN [backup EXCEPT !.data[b - 1] = v5f[b - 1]]
                 ELSE [backup EXCEPT !.b0 = header]
TornBackup(b) == IF b = 0 THEN [backup EXCEPT !.ver = 0, !.len = 0]
                 ELSE IF b <= r.len THEN [backup EXCEPT !.data[b - 1] = Spoilt]
                 ELSE [backup EXCEPT !.b0 = NoPackage]

BackupBlock ==
    /\ pc = "backup" /\ blk < NeededBlocks
    /\ \/ /\ card
          /\ backup' = BackupWith(blk)
          /\ blk' = blk + 1
          /\ UNCHANGED <<pc, faults>>
       \/ /\ IF card THEN Fault("read") ELSE UNCHANGED faults
          /\ backup' \in IF card THEN {backup, TornBackup(blk)} ELSE {backup}
          /\ pc' = "error"
          /\ UNCHANGED blk
    /\ UNCHANGED <<flash, stage, card, r, again, mode, tries>>

(* The backup, read back, must decrypt to the image (or there is none to make). *)
BackupReadsBack == card /\ \A b \in 0..r.len - 1 : backup.data[b] = v5f[b]

BackupDone ==
    /\ \/ pc = "kept"
       \/ pc = "backup" /\ blk = NeededBlocks
    /\ IF pc = "backup" /\ ~BackupReadsBack
         THEN pc' = "error" /\ UNCHANGED <<rec, r, faults>>
         ELSE record_store(IF pc = "kept" THEN [r EXCEPT !.state = "INSTALLING"]
                           ELSE [r EXCEPT !.state = "INSTALLING", !.bver = r.ver,
                                          !.blen = r.len, !.bmac = backup_mac],
                           "install")
    /\ UNCHANGED <<v5f, header, files, blk, again, mode, tries>>

-----------------------------------------------------------------------------
(* install: the package must still be the record's, r.pkg; then from the sector
   `progress` reached, each block opened, programmed and read back. *)
Same(p, q) == p.ver = q.ver /\ p.len = q.len /\ p.img = q.img

InstallWaits ==                         \* mutant: waits for the package to come back
    /\ pc = "install"
    /\ Mountable(r) /\ Same(stage, r.pkg)
    /\ pc' = "program"
    /\ blk' = r.progress
    /\ UNCHANGED <<flash, files, r, again, mode, faults, tries>>
Install ==
    /\ pc = "install"
    /\ IF Mountable(r) /\ Same(stage, r.pkg)
         THEN \/ /\ pc' = "program"
                 /\ blk' = r.progress
                 /\ UNCHANGED <<rec, r, faults>>
              \/ /\ Fault("read")
                 /\ r' = ToRollBack(r) /\ rec' = ToRollBack(r) /\ pc' = "rollback"
                 /\ UNCHANGED blk
         ELSE record_store(ToRollBack(r), "rollback") /\ UNCHANGED blk
    /\ UNCHANGED <<v5f, header, files, again, mode, tries>>

(* One block of `blocks`, from c; at the end of a sector, on to store progress. *)
Programmed(c, blocks) ==
    \/ /\ v5f' = program_block(blk, c)
       /\ pc' = IF v5f'[blk] # c THEN "error"
                ELSE IF sector_done(blk, blocks) THEN "progress" ELSE pc
       /\ blk' = IF pc' = pc THEN blk + 1 ELSE blk
       /\ UNCHANGED faults
    \/ /\ Fault("flash")
       /\ v5f' \in TornBlock(blk)
       /\ pc' = "error"
       /\ UNCHANGED blk

(* The card doesn't answer. *)
NoCard == /\ IF card THEN Fault("read") ELSE UNCHANGED faults
          /\ pc' = "error"
          /\ UNCHANGED <<v5f, blk>>

ProgramBlock ==
    /\ pc = "program" /\ blk < r.pkg.len
    /\ \/ card /\ Programmed(r.pkg.img, r.pkg.len) /\ UNCHANGED <<rec, r>>
       \/ NoCard /\ UNCHANGED <<rec, r>>
       \/ /\ card /\ Fault("tamper")        \* the block fails its hash
          /\ r' = ToRollBack(r) /\ rec' = ToRollBack(r) /\ pc' = "rollback"
          /\ UNCHANGED <<v5f, blk>>
    /\ UNCHANGED <<header, files, again, mode, tries>>

StoreProgressAhead ==                   \* mutant: the next sector's end
    /\ pc = "progress"
    /\ record_store([r EXCEPT !.progress = blk + 1 + SectorBlocks],
                    IF r.state = "INSTALLING" THEN "program" ELSE "restore")
    /\ blk' = blk + 1
    /\ UNCHANGED <<v5f, header, files, again, mode, tries>>
StoreProgress ==
    /\ pc = "progress"
    /\ record_store([r EXCEPT !.progress = blk + 1],
                    IF r.state = "INSTALLING" THEN "program" ELSE "restore")
    /\ blk' = blk + 1
    /\ UNCHANGED <<v5f, header, files, again, mode, tries>>

(* All programmed: the flash must hold the package's image. *)
Verify ==
    /\ pc = "program" /\ blk = r.pkg.len
    /\ IF Holds(r.pkg.img, r.pkg.len)
         THEN /\ pc' = IF CheckSignature THEN "header" ELSE "installed"
              /\ UNCHANGED <<rec, r, faults>>
         ELSE record_store(ToRollBack(r), "rollback")
    /\ UNCHANGED <<v5f, header, files, blk, again, mode, tries>>

(* header_store, of the block 0 that c gives. *)
StoredHeader(c, next) ==
    \/ card /\ header' = c /\ pc' = next /\ UNCHANGED faults
    \/ /\ IF card THEN Fault("flash") ELSE UNCHANGED faults
       /\ header' \in IF card THEN {header, NoPackage} ELSE {header}
       /\ pc' = "error"

StoreHeader ==
    /\ pc = "header"
    /\ StoredHeader(stage, "installed")
    /\ UNCHANGED <<v5f, rec, files, r, blk, again, mode, tries>>

(* Checked as the boot check will, it goes on trial. *)
Installed ==
    /\ pc = "installed"
    /\ LET len == installed_length(r.pkg.len)
       IN  IF CheckSignature => signed_ok(r, r.pkg.ver, len)
             THEN record_store([AsInstalled(r, r.pkg.ver, len) EXCEPT
                                    !.state = "TRIAL", !.progress = 0], "check")
             ELSE record_store(ToRollBack(r), "rollback")
    /\ tries' = 0
    /\ UNCHANGED <<v5f, header, files, blk, again, mode>>

-----------------------------------------------------------------------------
CanRollBackAnyVersion == backup_good(r)             \* mutant: no minimum
(* roll_back *)
CanRollBack == backup_good(r) /\ r.bver >= r.min

CannotRollBack ==
    /\ pc = "rollback" /\ ~CanRollBack
    /\ record_store([Broken(r) EXCEPT !.state = "IDLE"], "check")
    /\ UNCHANGED <<v5f, header, files, blk, again, mode, tries>>

BeginRestore ==
    /\ pc = "rollback" /\ CanRollBack
    /\ pc' = "restore"
    /\ blk' = r.progress
    /\ UNCHANGED <<flash, files, r, again, mode, faults, tries>>

RestoreBlock ==
    /\ pc = "restore" /\ blk < r.blen
    /\ \/ card /\ Programmed(backup.data[blk], r.blen)
       \/ NoCard
    /\ UNCHANGED <<header, rec, files, r, again, mode, tries>>

RestoreHeader ==
    /\ pc = "restore" /\ blk = r.blen
    /\ IF CheckSignature THEN StoredHeader(backup.b0, "restored")
       ELSE pc' = "restored" /\ UNCHANGED <<header, faults>>
    /\ UNCHANGED <<v5f, rec, files, r, blk, again, mode, tries>>

Restored ==
    /\ pc = "restored"
    /\ record_store([AsInstalled(r, r.bver, r.blen) EXCEPT
                         !.state = "IDLE", !.progress = 0, !.result = "ROLLED_BACK"], "check")
    /\ UNCHANGED <<v5f, header, files, blk, again, mode, tries>>

-----------------------------------------------------------------------------
(* The image the V5F would run; after a restore, only one that checks. *)
CheckPasses == installed_ok(r) /\ (again => r.result = "ROLLED_BACK")
TriesLimit == TrialBoots + MaxFaults + 2    \* bound: where the history stops counting
TriesAfter(next) == IF /\ r.state = "TRIAL" /\ next \in {"run", "unchecked"}
                       /\ tries < TriesLimit
                    THEN tries + 1 ELSE tries

(* UPD_START: a reset's boot starts the V5F, recovery's restarts the chip. *)
Start ==
    /\ pc = "check" /\ (r.len # 0 \/ again) /\ CheckPasses
    /\ LET next == IF recovering THEN "off" ELSE IF forced THEN "recovery" ELSE "run"
       IN  Leave(next) /\ tries' = TriesAfter(next)
    /\ UNCHANGED <<flash, files, faults>>

NoImage ==
    /\ pc = "check" /\ r.len = 0 /\ ~again
    /\ Leave("recovery")
    /\ UNCHANGED <<flash, files, faults, tries>>

(* Below level 2: the debugger's image, adopted. *)
AdoptChanged ==
    /\ pc = "check" /\ ~again /\ r.len # 0 /\ ~CheckPasses /\ AdoptBlank
    /\ record_store([Adopted(r) EXCEPT !.state = "IDLE", !.progress = 0, !.result = "NONE"],
                    "check")
    /\ UNCHANGED <<v5f, header, files, blk, again, mode, tries>>

RestoreChanged ==
    /\ pc = "check" /\ ~again /\ r.len # 0 /\ ~CheckPasses /\ ~AdoptBlank
    /\ r.state = "IDLE" /\ r.blen # 0
    /\ record_store(ToRollBack(r), "rollback")
    /\ again' = TRUE
    /\ UNCHANGED <<v5f, header, files, blk, mode, tries>>

MarkedBroken ==
    /\ pc = "check" /\ ~CheckPasses
    /\ \/ again
       \/ r.len # 0 /\ ~AdoptBlank /\ ~(r.state = "IDLE" /\ r.blen # 0)
    /\ \/ rec' = Broken(r) /\ Leave("recovery") /\ UNCHANGED faults
       \/ /\ Fault("flash") /\ rec' \in {rec, Broken(r)}
          /\ r' = Broken(r) /\ pc' = "error" /\ UNCHANGED <<blk, again, mode>>
    /\ UNCHANGED <<v5f, header, files, tries>>

StoppedByErrorStarts ==                 \* mutant: the state isn't looked at
    /\ pc = "error"
    /\ Leave("unchecked") /\ tries' = TriesAfter("unchecked")
    /\ UNCHANGED <<flash, files, faults>>
(* upd_boot returned an error: half programmed, the image stays off; else,
   from a reset, it starts unchecked. *)
StoppedByError ==
    /\ pc = "error"
    /\ LET next == IF recovering \/ forced \/ r.state \in {"INSTALLING", "ROLLING_BACK"}
                     THEN "recovery" ELSE "unchecked"
       IN  Leave(next) /\ tries' = TriesAfter(next)
    /\ UNCHANGED <<flash, files, faults>>

-----------------------------------------------------------------------------
(* What runs meanwhile: the V5F, the card, a person, the power. *)
Running == pc \in {"run", "unchecked"}
OnTrial == rec # NoRecord /\ rec.state = "TRIAL"

(* upd_confirm, when the V5F came up and asked for it. *)
Confirmed == [rec EXCEPT !.state = "IDLE", !.progress = 0, !.result = "INSTALLED",
                         !.min = IF rec.pkg.min > @ THEN rec.pkg.min ELSE @]
Confirm ==
    /\ Running /\ v5f[0] \in Works /\ OnTrial
    /\ \/ rec' = Confirmed /\ UNCHANGED faults
       \/ Fault("flash") /\ rec' \in {rec, Confirmed}
    /\ UNCHANGED <<v5f, header, files, ram, tries>>

(* stage1_wait_v5f: a V5F that doesn't start gets the chip reset. *)
DoesNotStart ==
    /\ Running /\ v5f[0] \notin Works
    /\ Leave("off")
    /\ UNCHANGED <<flash, files, faults, tries>>

(* The running V5F receives a package; or the card comes back with another. *)
Fetch(p) ==
    /\ pc \in {"off", "run", "unchecked"} /\ card
    /\ stage' = p
    /\ UNCHANGED <<flash, backup, card, ram, faults, tries>>

(* Below level 2 the V5F writes the flash pages after the slot. *)
PagesWritten(b) ==
    /\ ~CheckPages /\ Running /\ b >= SlotBlocks
    /\ v5f' = [v5f EXCEPT ![b] = Spoilt]
    /\ UNCHANGED <<header, rec, files, ram, faults, tries>>

(* Recovery: a package over USB (receive, to upd_boot; a forced recovery first
   marks an idle board's image broken), adopt, enroll, and reset. *)
Receive(p) ==
    /\ pc = "recovery" /\ card
    /\ stage' = p
    /\ pc' = "received"
    /\ forced' = (forced /\ rec = NoRecord /\ CheckSignature)
    /\ LET q == IF rec = NoRecord THEN NewRecord ELSE rec
           marks == forced /\ q.state = "IDLE" /\ (rec = NoRecord => ~CheckSignature)
       IN  \/ rec' = (IF marks THEN Broken(q) ELSE rec) /\ UNCHANGED faults
           \/ marks /\ Fault("flash") /\ rec' \in {rec, q, Broken(q)}
    /\ UNCHANGED <<v5f, header, backup, card, r, blk, again, recovering, tries>>

Adopt ==
    /\ AdoptBlank /\ pc = "recovery" /\ rec # NoRecord /\ rec.state = "IDLE"
    /\ LET q == [Adopted(rec) EXCEPT !.result = "NONE"]
       IN  \/ rec' = q /\ Leave("off") /\ UNCHANGED faults
           \/ Fault("flash") /\ rec' \in {rec, q} /\ UNCHANGED ram
    /\ UNCHANGED <<v5f, header, files, tries>>

Enroll ==
    /\ CheckSignature /\ pc = "recovery" /\ rec = NoRecord
    /\ \/ rec' = NewRecord /\ UNCHANGED faults
       \/ Fault("flash") /\ rec' \in {rec, NewRecord}
    /\ UNCHANGED <<v5f, header, files, ram, tries>>

ForceRecovery ==
    /\ pc = "off" /\ ~forced /\ Fault("forced")
    /\ forced' = TRUE
    /\ UNCHANGED <<flash, files, r, pc, blk, again, recovering, tries>>

(* Faults: a flash block changes, the backup file is replaced
   (not during a boot: the card stays in), the card stops answering. *)
Corrupt(b) ==
    /\ pc \in {"off", "run"} /\ Fault("corrupt")
    /\ v5f' = [v5f EXCEPT ![b] = Spoilt]
    /\ UNCHANGED <<header, rec, files, ram, tries>>

NoBackup == [ver |-> 0, len |-> 0, data |-> [b \in Block |-> Erased], b0 |-> NoPackage]

LoseBackup ==
    /\ pc \in {"off", "run"} /\ Fault("lost")
    /\ backup' = NoBackup
    /\ UNCHANGED <<flash, stage, card, ram, tries>>

PullCard ==
    /\ card /\ Fault("pulled")
    /\ card' = FALSE
    /\ UNCHANGED <<flash, stage, backup, ram, tries>>

CardBack ==
    /\ ~card /\ card' = TRUE
    /\ UNCHANGED <<flash, stage, backup, ram, faults, tries>>

(* A reset or a power cut, which tears the write under way. *)
Cut ==
    /\ pc # "off"
    /\ v5f' \in IF \/ pc = "program" /\ card /\ blk < r.pkg.len
                   \/ pc = "restore" /\ card /\ blk < r.blen
                 THEN TornBlock(blk) ELSE {v5f}
    /\ header' \in IF \/ pc = "header" /\ card
                      \/ pc = "restore" /\ card /\ blk = r.blen /\ CheckSignature
                    THEN {header, NoPackage} ELSE {header}
    /\ backup' \in IF pc = "backup" /\ card /\ blk < NeededBlocks
                    THEN {backup, TornBackup(blk)} ELSE {backup}
    /\ Leave("off")
    /\ UNCHANGED <<rec, stage, card, faults, tries>>

-----------------------------------------------------------------------------
Init ==
    /\ v5f = [b \in Block |-> FactoryImage]
    /\ header = NoPackage
    /\ rec = NoRecord
    /\ stage = NoPackage
    /\ backup = NoBackup
    /\ card = TRUE
    /\ r = NoRecord /\ pc = "off" /\ blk = 0 /\ again = FALSE
    /\ recovering = FALSE /\ forced = FALSE
    /\ faults = 0 /\ tries = 0

BootStep ==
    \/ \E waiting \in BOOLEAN : Boot(waiting) \/ NeverUpdated(waiting)
    \/ Refuse \/ NoRoom \/ BeginUpdate \/ BackupBlock \/ BackupDone
    \/ Install \/ ProgramBlock \/ StoreProgress \/ Verify \/ StoreHeader \/ Installed
    \/ TrialBoot
    \/ CannotRollBack \/ BeginRestore \/ RestoreBlock \/ RestoreHeader \/ Restored
    \/ Start \/ NoImage \/ AdoptChanged \/ RestoreChanged \/ MarkedBroken
    \/ StoppedByError

Environment ==
    \/ Confirm \/ DoesNotStart
    \/ \E p \in Packages \cup {NoPackage} : Fetch(p)
    \/ \E b \in Block : PagesWritten(b) \/ Corrupt(b)
    \/ \E p \in Packages : Receive(p)
    \/ Adopt \/ Enroll \/ ForceRecovery \/ LoseBackup \/ PullCard \/ CardBack
    \/ Cut

Next == BootStep \/ Environment

Spec == Init /\ [][Next]_vars

(* Stage 1 runs on its own; a V5F that comes up asks for the confirm, and
   stage 1's timeout resets one that doesn't. *)
LiveSpec == Spec /\ WF_vars(BootStep) /\ WF_vars(Confirm) /\ WF_vars(DoesNotStart)

-----------------------------------------------------------------------------
(* Every variable holds a value the C declarations and the flash map allow;
   an update under way has its package in the record. *)
Lengths == 0..SpanBlocks
Data == UNION {[0..n - 1 -> Contents] : n \in Lengths}
MaybePackage == Packages \cup {NoPackage}
Record == [state : {"IDLE", "BACKING_UP", "INSTALLING", "TRIAL", "ROLLING_BACK"},
           result : {"NONE", "INSTALLED", "REFUSED", "NO_BACKUP", "ROLLED_BACK", "BROKEN"},
           ver : Nat, len : Lengths, mac : [ver : Nat, data : Data], min : Nat,
           progress : Nat, pkg : MaybePackage, bver : Nat, blen : Lengths,
           bmac : [ver : Nat, len : Lengths, data : Data, b0 : MaybePackage]]
RecordOK(q) == /\ q \in Record
               /\ q.state \in {"BACKING_UP", "INSTALLING", "TRIAL"} => q.pkg \in Packages
ASSUME NoRecordAssumption == NoRecord \notin Record

Asleep == {"off", "received", "run", "unchecked", "recovery"}
Awake == {"start", "backup", "kept", "install", "program", "progress", "header", "installed",
          "trial", "rollback", "restore", "restored", "check", "error"}

TypeOK ==
    /\ v5f \in [Block -> Contents]
    /\ {header, stage} \subseteq MaybePackage
    /\ backup \in [ver : Nat, len : Lengths, data : [Block -> Contents], b0 : MaybePackage]
    /\ rec = NoRecord \/ RecordOK(rec)
    /\ pc \in Asleep \cup Awake
    /\ IF pc \in Asleep THEN r = NoRecord ELSE RecordOK(r)
    /\ {card, again, recovering, forced} \subseteq BOOLEAN
    /\ blk \in Nat
    /\ faults \in 0..MaxFaults /\ tries \in Nat

-----------------------------------------------------------------------------
NoFaults == faults = 0
Known == rec # NoRecord

(* A fault-free record's backup is the one on the card, whatever was cut
   when: blen is 0 from before the first block is overwritten until the new
   backup has been read back (update.c:664-676), so a rollback never finds
   half a backup; and while an image may have to be rolled back, the one to
   go back to is one the board still takes (update.c:511, 833). *)
RollbackPossible == NoFaults /\ Known /\ rec.blen # 0 =>
    /\ backup_good(rec)
    /\ rec.state \in {"INSTALLING", "TRIAL", "ROLLING_BACK"} => rec.bver >= rec.min

(* Without a fault no boot's check ever fails, so cuts alone never send a
   board to a rollback, to recovery or (below level 2) to an adopt
   (update.c:766-813): record, MAC, header and flash agree at every boot. *)
NoFalseAlarm == NoFaults /\ pc = "check" /\ r.len # 0 => CheckPasses

(* An image on trial starts once after its install and TrialBoots times
   more, whatever is cut, before the rollback (update.c:727-750); a fault can
   give it one start back. *)
TrialCounted == tries <= TrialBoots + 1 + faults

(* What a rollback left in flash is, block by block, the image that was
   backed up, through any cuts and resumes: the MAC in the record is made
   from the flash (update.c:546-554), so nothing later would notice. *)
RollbackIsExact ==
    [][pc = "restored" /\ rec' # rec => \A b \in 0..rec.blen - 1 : v5f[b] = rec.bmac.data[b]]_vars

(* Level 2: an image the check started is one package's, whole, slot and
   pages, of the version in the record (security.h:61-67). *)
WholePackage == \E p \in Packages : p.ver = rec.ver /\ Holds(p.img, SpanBlocks)
StartsWhole == [][pc = "check" /\ pc' = "run" => WholePackage]_vars

(* Level 2: what the record trusts as a backup is one package's image with
   that package's own block 0, though the flash may have changed since it
   was installed (update.c:642-651). *)
BackupIsAnImage ==
    Known /\ rec.blen # 0 =>
        \E p \in Packages : /\ p.ver = rec.bver
                            /\ rec.bmac.b0 = p
                            /\ \A b \in Block : rec.bmac.data[b] = p.img

(* Level 2: the image the record vouches for is never below the minimum,
   whether it came from a package or from the backup. *)
NoDowngrade == Known /\ rec.len # 0 => rec.ver >= rec.min

(* The minimum never falls and the record is never lost. *)
MinimumOnlyRises == [][Known => rec' # NoRecord /\ rec'.min >= rec.min]_vars

(* Nothing half-programmed is ever started, checked or unchecked
   (stage1.c:506-513): the slot holds one image.  With "corrupt" and "flash"
   among the faults it would not hold. *)
HalfProgrammedNeverRuns ==
    [][~Running /\ Running' => \E i \in Images : Holds(i, SlotBlocks)]_vars

(* When cuts end (a restart by stage 1 itself, or by its timeout, looks like
   one), every boot comes to an end: it starts the V5F or recovery
   (or a forced boot's), through every resume, rollback and second rollback. *)
CutsEnd == <>[][Cut => BootStep \/ DoesNotStart]_vars
BootEnds == CutsEnd => []<>(Running \/ pc = "recovery")

(* When cuts end, a trial ends: by the confirm of an image that comes up, by
   the trial count of one that does not. *)
TrialEnds == CutsEnd => (OnTrial ~> ~OnTrial)
=============================================================================
