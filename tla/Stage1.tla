------------------------------- MODULE Stage1 -------------------------------
(***************************************************************************)
(* The two cores and the words of the shared block that survive a chip     *)
(* reset: stage 1's decisions at boot (V3F/User/stage1.c), the Ctrl+X      *)
(* escape (Common/cdc_bridge.c), the V5F's start-up, standby and reboot    *)
(* (V5F/User/main.c, lftime.c), update.lfu on the card and the recovery    *)
(* terminal.  Security levels 0 and 1 (adopt_blank, no lock-down).         *)
(* upd_boot is cut down to its record's states; Update has it in full.     *)
(***************************************************************************)
EXTENDS Naturals, Sequences, SequencesExt

CONSTANTS
    Images,             \* images, by the versions of their packages
    Factory,            \* the image the debugger left
    Dead, Hangs,        \* images whose V5F never starts; starts, and never reaches LiteForth
    Refused,            \* packages that mount but fail the full check
    OnCard,             \* the package in update.lfu, or None
    Sent,               \* the packages that may be sent
    StartTries,         \* STAGE1_START_TRIES
    TrialBoots,         \* UPD_TRIAL_BOOTS
    Rounds,             \* bridge polls a transfer takes at least
    MaxInputs, MaxCuts, MaxFails    \* bounds: the user's inputs; cuts; card failures

None == 0       \* no package, no backup; a half-programmed slot
X == "x"        \* Ctrl+X; "o" is any other byte
Packets == {<<X>>, <<X, X, X>>, <<"o">>}

ASSUME Stage1Assumption ==
    /\ Images \subseteq Nat \ {None} /\ Factory \in Images
    /\ Dead \cup Hangs \cup Refused \cup Sent \subseteq Images
    /\ OnCard \in Images \cup {None}
    /\ {StartTries, TrialBoots, Rounds, MaxInputs, MaxCuts, MaxFails} \subseteq Nat

VARIABLES
    safe_boot, ctrlx_reset, recover, update, nostart,   \* cdc_shared_t: survive a reset
    binary, standby,            \* cdc_shared_t: cdc_shared_init clears them
    v3f,                        \* where the V3F is
    ctrl_x_run, ctrl_x_armed,   \* cdc_bridge.c's statics
    forced, updating, recovering,   \* stage1.c's; updating is boot()'s waiting || busy
    source, ram,                \* the install source; the package in ram_stage
    usb,                        \* packets from the host not yet polled
    v5f, app, rounds,           \* where the V5F is; it runs an app or commands; polls of a transfer
    flash, rec, backup, stage,  \* the image in the slot, the record, lfbackup.bin, lfstage.bin
    reached, escapes, asked, silent,    \* history (see Properties)
    inputs, cuts, fails

words == <<safe_boot, ctrlx_reset, recover, update, nostart>>
v3locals == <<ctrl_x_run, ctrl_x_armed, forced, updating, recovering, source, ram>>
v5 == <<v5f, app, rounds>>
store == <<flash, rec, backup, stage>>
history == <<reached, escapes, asked, silent>>
bounds == <<inputs, cuts, fails>>
vars == <<words, binary, standby, v3f, v3locals, usb, v5, store, history, bounds>>

Working(img) == img \notin Dead \cup Hangs \cup {None}
Input == inputs < MaxInputs /\ inputs' = inputs + 1

-----------------------------------------------------------------------------
(* NVIC_SystemReset: SRAM keeps the words; .bss, the slots and the rings go. *)
ChipReset ==
    /\ v3f' = "reset" /\ v5f' = "off" /\ app' = FALSE /\ rounds' = 0
    /\ ctrl_x_run' = 0 /\ ctrl_x_armed' = FALSE
    /\ forced' = FALSE /\ updating' = FALSE /\ recovering' = FALSE
    /\ source' = "stage" /\ ram' = None /\ usb' = <<>>
(* The request of this Ctrl+X sequence is over. *)
Unasked == asked' = "no"

CarriedForgotten == [update |-> "none", armed |-> ctrlx_reset]   \* mutant: the update word cleared too
(* What cdc_shared_init takes over from before the reset. *)
Carried == [update |-> update, armed |-> ctrlx_reset]

SharedInit ==
    /\ v3f = "reset" /\ v3f' = "boot"
    /\ binary' = FALSE /\ standby' = FALSE
    /\ ctrl_x_armed' = Carried.armed /\ ctrlx_reset' = FALSE /\ update' = Carried.update
    /\ UNCHANGED <<safe_boot, recover, nostart, ctrl_x_run, forced, updating, recovering,
                   source, ram, usb, v5, store, history, bounds>>

-----------------------------------------------------------------------------
(* boot(), up to upd_boot. *)
FloorInstalled == rec.version           \* mutant: a version rolled back is tried again
Floor == IF rec.result = "ROLLED_BACK" /\ rec.pkg > rec.version THEN rec.pkg ELSE rec.version

enter_recovery ==
    /\ v3f' = "recovery" /\ recovering' = TRUE /\ binary' = TRUE
    /\ asked' = "no"
StartV5F == /\ v3f' = "wait" /\ v5f' = "starting"
            /\ UNCHANGED <<recovering, binary, asked>>

(* start_or_not; ask and u are forced and updating as boot() has them. *)
start_or_not(ask, u) ==
  /\ escapes' = IF ask THEN 0 ELSE escapes
  /\ silent' = IF ~ask /\ ~u /\ nostart >= StartTries THEN 0 ELSE silent
  /\ \/ ask /\ enter_recovery /\ forced' = ask /\ UNCHANGED <<nostart, v5f>>
     \/ ~ask /\ u /\ nostart' = 0 /\ StartV5F /\ forced' = ask
     \/ ~ask /\ ~u /\ nostart >= StartTries
        /\ nostart' = 0 /\ forced' = TRUE /\ enter_recovery /\ UNCHANGED v5f
     \/ ~ask /\ ~u /\ nostart < StartTries
        /\ StartV5F /\ forced' = ask /\ UNCHANGED nostart

RecoverKept == recover                  \* mutant: the request for recovery is not taken back
RecoverTaken == FALSE

(* boot(): recovery on request; a board never updated starts unchecked;
   update.lfu when nothing waits and nothing is under way. *)
Boot ==
    /\ v3f = "boot"
    /\ safe_boot' = (safe_boot /\ ~recover) /\ recover' = RecoverTaken
    /\ IF rec.state = "none" /\ update # "waiting"
       THEN /\ start_or_not(recover, FALSE)
            /\ UNCHANGED <<updating, source>>
       ELSE /\ LET lfu == /\ update # "waiting"
                          /\ rec.state = "IDLE"
                          /\ OnCard > Floor
               IN /\ updating' = (update = "waiting" \/ rec.state \notin {"none", "IDLE"} \/ lfu)
                  /\ source' = IF lfu THEN "lfu" ELSE "stage"
            /\ forced' = recover /\ v3f' = "update"
            /\ UNCHANGED <<nostart, binary, v5f, recovering, escapes, asked, silent>>
    /\ UNCHANGED <<ctrlx_reset, update, standby, ctrl_x_run, ctrl_x_armed, ram, usb, app, rounds,
                   store, reached, bounds>>

-----------------------------------------------------------------------------
(* upd_boot, from boot() or from recovery's receive(): one step for each
   state the record goes through.  A record or card step may be the last
   before a cut. *)
Package == CASE source = "lfu" -> OnCard [] source = "ram" -> ram [] OTHER -> stage

InUpdate(from, to) ==
    /\ v3f = from /\ v3f' = to
    /\ UNCHANGED <<words, binary, standby, v3locals, usb, v5, stage, escapes, asked, silent,
                   inputs, cuts>>

(* A blank record: the image in flash, adopted as version 0. *)
NewRecord ==
    /\ InUpdate("update", "update") /\ rec.state = "none"
    /\ rec' = [rec EXCEPT !.state = "IDLE", !.whole = TRUE]
    /\ UNCHANGED <<flash, backup, reached, fails>>

(* start_update refuses the package. *)
Starting == \/ rec.state = "IDLE" /\ updating
            \/ rec.state = "BACKING_UP"
Refuse ==
    /\ InUpdate("update", "check") /\ Starting
    /\ Package \in Refused \cup {None}
    /\ rec' = [rec EXCEPT !.state = "IDLE", !.result = "REFUSED"]
    /\ UNCHANGED <<flash, backup, reached, fails>>
(* start_update up to UPD_BACKING_UP. *)
StartUpdate ==
    /\ InUpdate("update", "backup") /\ Starting
    /\ Package \notin Refused \cup {None}
    /\ rec' = [rec EXCEPT !.state = "BACKING_UP", !.pkg = Package, !.result = "NONE"]
    /\ backup' = IF rec.whole THEN [img |-> None, version |-> 0] ELSE backup
    /\ UNCHANGED <<flash, reached, fails>>
(* make_backup, of an image that checks out, and UPD_INSTALLING. *)
MakeBackup ==
    /\ InUpdate("backup", "install")
    /\ backup' = IF rec.whole THEN [img |-> flash, version |-> rec.version] ELSE backup
    /\ rec' = [rec EXCEPT !.state = "INSTALLING"]
    /\ UNCHANGED <<flash, reached, fails>>
(* An install, a rollback or a trial carried on at a boot. *)
Resume ==
    /\ \/ InUpdate("update", "install") /\ rec.state = "INSTALLING"
       \/ InUpdate("update", "rollback") /\ rec.state = "ROLLING_BACK"
       \/ InUpdate("update", "check") /\ rec.state = "IDLE" /\ ~updating
    /\ UNCHANGED <<flash, rec, backup, reached, fails>>
(* install(): the package is another one, or none mounts. *)
PackageChanged ==
    /\ InUpdate("install", "rollback") /\ Package # rec.pkg
    /\ rec' = [rec EXCEPT !.state = "ROLLING_BACK"]
    /\ UNCHANGED <<flash, backup, reached, fails>>
Program ==
    /\ InUpdate("install", "program") /\ Package = rec.pkg
    /\ flash' = None
    /\ UNCHANGED <<rec, backup, reached, fails>>
Programmed ==
    /\ InUpdate("program", "check")
    /\ flash' = rec.pkg /\ reached' = FALSE
    /\ rec' = [rec EXCEPT !.state = "TRIAL", !.version = rec.pkg, !.whole = TRUE, !.tries = 0]
    /\ UNCHANGED <<backup, fails>>
(* UPD_TRIAL: counts the boot, or gives up. *)
Trial ==
    /\ rec.state = "TRIAL"
    /\ \/ InUpdate("update", "check") /\ rec.tries < TrialBoots
          /\ rec' = [rec EXCEPT !.tries = @ + 1]
       \/ InUpdate("update", "check") /\ rec.tries >= TrialBoots /\ backup.img = None
          /\ rec' = [rec EXCEPT !.state = "IDLE", !.result = "BROKEN", !.whole = FALSE]
       \/ InUpdate("update", "rollback") /\ rec.tries >= TrialBoots /\ backup.img # None
          /\ rec' = [rec EXCEPT !.state = "ROLLING_BACK"]
    /\ UNCHANGED <<flash, backup, reached, fails>>
RollBack ==
    /\ InUpdate("rollback", "check")
    /\ \/ /\ backup.img = None
          /\ rec' = [rec EXCEPT !.state = "IDLE", !.result = "BROKEN", !.whole = FALSE]
          /\ UNCHANGED <<flash, reached>>
       \/ /\ backup.img # None
          /\ flash' = backup.img /\ reached' = FALSE
          /\ rec' = [rec EXCEPT !.state = "IDLE", !.result = "ROLLED_BACK", !.whole = TRUE,
                                !.version = backup.version]
    /\ UNCHANGED <<backup, fails>>
(* The card fails while backing up, programming or restoring. *)
CardFails ==
    /\ \/ InUpdate("backup", "failed") /\ UNCHANGED flash
       \/ InUpdate("program", "failed") /\ UNCHANGED flash
       \/ InUpdate("rollback", "failed") /\ backup.img # None /\ flash' = None
    /\ fails < MaxFails /\ fails' = fails + 1
    /\ UNCHANGED <<rec, backup, reached>>


RequestLeft == update                   \* mutant: the word is not cleared
RequestDone == "none"
(* upd_boot is done: the update word is, too; the V5F starts if an image is installed. *)
Check ==
    /\ v3f = "check" /\ update' = RequestDone
    /\ IF recovering
       THEN /\ \/ rec.whole /\ ChipReset
               \/ ~rec.whole /\ v3f' = "recovery"
                  /\ UNCHANGED <<v5f, v3locals, usb, app, rounds>>
            /\ UNCHANGED <<nostart, binary, escapes, asked, silent>>
       ELSE /\ \/ rec.whole /\ start_or_not(forced, updating \/ rec.state # "IDLE")
               \/ ~rec.whole /\ enter_recovery /\ UNCHANGED <<nostart, forced, v5f, escapes, silent>>
            /\ UNCHANGED <<ctrl_x_run, ctrl_x_armed, updating, source, ram, usb, app, rounds>>
    /\ UNCHANGED <<safe_boot, ctrlx_reset, recover, standby, store, reached, bounds>>
(* upd_boot stopped by an error: a half-programmed slot is not started. *)
Failed ==
    /\ v3f = "failed" /\ update' = RequestDone
    /\ IF recovering
       THEN v3f' = "recovery" /\ UNCHANGED <<nostart, forced, recovering, binary, v5f, escapes, asked, silent>>
       ELSE IF rec.state \in {"INSTALLING", "ROLLING_BACK"}
       THEN enter_recovery /\ UNCHANGED <<nostart, forced, v5f, escapes, silent>>
       ELSE start_or_not(forced, updating)
    /\ UNCHANGED <<safe_boot, ctrlx_reset, recover, standby, ctrl_x_run, ctrl_x_armed, updating,
                   source, ram, usb, app, rounds, store, reached, bounds>>

-----------------------------------------------------------------------------
(* stage1_wait_v5f: the V5F started, or the chip resets. *)
Started ==
    /\ v3f = "wait" /\ v5f # "starting"
    /\ v3f' = "poll" /\ nostart' = 0 /\ silent' = 0
    /\ UNCHANGED <<safe_boot, ctrlx_reset, recover, update, binary, standby, v3locals, usb, v5,
                   store, reached, escapes, asked, bounds>>
CountStartNot == nostart                \* mutant: the boot is not counted
CountStart == nostart + 1
NotStarted ==
    /\ v3f = "wait" /\ v5f = "starting"
    /\ nostart' = CountStart /\ silent' = IF silent = StartTries THEN silent ELSE silent + 1
    /\ ChipReset
    /\ Unasked
    /\ UNCHANGED <<safe_boot, ctrlx_reset, recover, update, binary, standby, store, reached,
                   escapes, bounds>>

-----------------------------------------------------------------------------
(* The V5F's start-up. *)
V5FStep(from, to) ==
    /\ v5f = from /\ v5f' = to
    /\ UNCHANGED <<ctrlx_reset, recover, nostart, standby, v3f, v3locals, usb, store, escapes,
                   silent, cuts, fails>>
Release == /\ V5FStep("starting", "setup") /\ flash \notin Dead \cup {None}
           /\ UNCHANGED <<safe_boot, update, binary, app, rounds, reached, asked, inputs>>
(* serial_open: a transfer cut short does not leave the escape off. *)
Open == /\ V5FStep("setup", "opened")
        /\ binary' = FALSE
        /\ UNCHANGED <<safe_boot, update, app, rounds, reached, asked, inputs>>
(* lfMapMemory, and whether this is a safe boot. *)
SetUp == /\ V5FStep("opened", "ready") /\ Working(flash)
         /\ app' = (app \/ ~safe_boot) /\ safe_boot' = FALSE
         /\ UNCHANGED <<update, binary, rounds, reached, asked, inputs>>
(* LiteForth is there: the image confirms itself. *)
Confirm == /\ V5FStep("ready", "running")
           /\ update' = IF update = "waiting" THEN update ELSE "confirm"
           /\ reached' = TRUE
           /\ UNCHANGED <<safe_boot, binary, app, rounds, asked, inputs>>

(* What the app, or a command typed, may do: `-2 ymodem` (the bytes come
   through the bridge's polls), a standby, a reboot. *)
Transfer == /\ V5FStep("running", "transfer") /\ app /\ Input
            /\ binary' = TRUE /\ rounds' = 0 /\ Unasked
            /\ UNCHANGED <<safe_boot, update, app, reached>>
TransferFails == /\ V5FStep("transfer", "running")
                 /\ binary' = FALSE
                 /\ UNCHANGED <<safe_boot, update, app, rounds, reached, asked, inputs>>
(* The package checks out: blk_stage_ready. *)
Ready(p) ==
    /\ v5f = "transfer" /\ rounds >= Rounds
    /\ v5f' = "running" /\ binary' = FALSE
    /\ stage' = p /\ update' = "waiting"
    /\ UNCHANGED <<safe_boot, ctrlx_reset, recover, nostart, standby, v3f, v3locals, usb, app,
                   rounds, flash, rec, backup, history, bounds>>
lfStandby == /\ v5f = "running" /\ app /\ v5f' = "asleep"
             /\ standby' = TRUE /\ Unasked
             /\ UNCHANGED <<words, binary, v3f, v3locals, usb, app, rounds, store, reached,
                            escapes, silent, bounds>>
(* The alarm, or `reboot`. *)
V5FResets == /\ v5f = "asleep" \/ (v5f = "running" /\ app)
             /\ ChipReset /\ Unasked
             /\ UNCHANGED <<words, binary, standby, store, reached, escapes, silent, bounds>>

-----------------------------------------------------------------------------
(* The bridge, on the V3F. *)
Disarmed(s) == [s EXCEPT !.run = 0, !.armed = FALSE]
(* One byte: the third Ctrl+X in a row asks for a restart. *)
ctrl_x_seen(s, b) ==
    IF b # X \/ binary THEN Disarmed(s)
    ELSE IF s.run = 2 THEN [s EXCEPT !.run = 0, !.restart = TRUE]
    ELSE [s EXCEPT !.run = @ + 1]

(* cdc_bridge_poll: a standby asked for comes first; then every packet the
   host sent, and only then the restart. *)
Sleep == /\ v3f = "poll" /\ standby
         /\ v3f' = "asleep" /\ usb' = <<>>
         /\ UNCHANGED <<words, binary, standby, v3locals, v5, store, history, bounds>>
Poll ==
    /\ v3f = "poll" /\ ~standby
    /\ LET bytes == FlattenSeq(usb)
           s == FoldLeft(ctrl_x_seen, [run |-> ctrl_x_run, armed |-> ctrl_x_armed, restart |-> FALSE],
                         bytes)
       IN /\ ctrl_x_run' = s.run /\ ctrl_x_armed' = s.armed
          /\ v3f' = IF s.restart THEN "restart" ELSE "look"
          /\ app' = (app \/ (Contains(bytes, "o") /\ v5f \in {"opened", "ready", "running"}))
    /\ usb' = <<>>
    /\ rounds' = IF v5f = "transfer" /\ rounds < Rounds THEN rounds + 1 ELSE rounds
    /\ UNCHANGED <<words, binary, standby, forced, updating, recovering, source, ram, v5f, store,
                   history, bounds>>
(* v5f_safe_restart sets its words ... *)
ToRecoveryWhenStuck == safe_boot        \* mutant: only a stuck V5F
ToRecovery == safe_boot \/ ctrl_x_armed
SafeRestart ==
    /\ v3f = "restart" /\ v3f' = "drain"
    /\ IF ToRecovery
       THEN recover' = TRUE /\ UNCHANGED <<safe_boot, ctrlx_reset>>
       ELSE safe_boot' = TRUE /\ ctrlx_reset' = TRUE /\ UNCHANGED recover
    /\ escapes' = IF escapes = 2 THEN 2 ELSE escapes + 1
    /\ UNCHANGED <<update, nostart, binary, standby, v3locals, usb, v5, store, reached, asked,
                   silent, bounds>>
(* ... and resets the chip once the debug UART has drained; the V5F runs on. *)
Drained ==
    /\ v3f = "drain" /\ ChipReset
    /\ asked' = CASE asked = "once" -> "reset" [] asked = "twice" -> "twice" [] OTHER -> "no"
    /\ UNCHANGED <<words, binary, standby, store, reached, escapes, silent, bounds>>

-----------------------------------------------------------------------------
(* stage1_poll, with the V5F running: a new image's confirm. *)
PollStep(from, to) ==
    /\ v3f = from /\ v3f' = to
    /\ UNCHANGED <<safe_boot, ctrlx_reset, recover, nostart, binary, standby, v3locals, usb, v5,
                   flash, backup, stage, history, inputs, cuts>>
Look == /\ PollStep("look", IF update = "confirm" THEN "clear" ELSE "poll")
        /\ UNCHANGED <<update, rec, fails>>
Clear == /\ PollStep("clear", "confirm") /\ update' = "none"
         /\ UNCHANGED <<rec, fails>>
Confirmed == /\ PollStep("confirm", "poll")
             /\ rec' = IF rec.state = "TRIAL" THEN [rec EXCEPT !.state = "IDLE", !.result = "INSTALLED"]
                       ELSE rec
             /\ UNCHANGED <<update, fails>>
ConfirmRefused == /\ PollStep("confirm", "poll") /\ rec.state = "TRIAL"
                  /\ fails < MaxFails /\ fails' = fails + 1
                  /\ UNCHANGED <<update, rec>>

-----------------------------------------------------------------------------
(* The recovery terminal. *)
CmdReset == /\ v3f = "recovery" /\ Input /\ ChipReset
            /\ UNCHANGED <<words, binary, standby, store, history, cuts, fails>>
CmdAdopt == /\ v3f = "recovery" /\ Input /\ rec.state = "IDLE"
            /\ rec' = [rec EXCEPT !.version = 0, !.whole = TRUE, !.result = "NONE"]
            /\ ChipReset
            /\ UNCHANGED <<words, binary, standby, flash, backup, stage, history, cuts, fails>>
(* `-2 ymodem`: a package into lfstage.bin or, without a card, RAM; a stuck
   image is marked broken unless an update is under way; then upd_boot. *)
Receive(p, where) ==
    /\ v3f = "recovery" /\ Input
    /\ v3f' = "update" /\ updating' = TRUE /\ source' = where
    /\ stage' = IF where = "stage" THEN p ELSE stage
    /\ ram' = IF where = "ram" THEN p ELSE ram
    /\ rec' = IF forced /\ rec.state \in {"none", "IDLE"}
              THEN [rec EXCEPT !.state = "IDLE", !.whole = FALSE, !.result = "BROKEN"] ELSE rec
    /\ forced' = FALSE
    /\ UNCHANGED <<words, binary, standby, ctrl_x_run, ctrl_x_armed, recovering, usb, v5,
                   flash, backup, history, cuts, fails>>

-----------------------------------------------------------------------------
(* The host, and the resets nobody planned. *)
HostSends(p) ==
    /\ v3f \in {"poll", "look", "clear", "confirm", "restart", "drain"} /\ Len(usb) < 2 /\ Input
    /\ usb' = Append(usb, p)
    /\ asked' = CASE p = <<X, X, X>> /\ ~binary /\ usb = <<>> /\ asked = "no" -> "once"
                  [] p = <<X, X, X>> /\ ~binary /\ asked = "reset" -> "twice"
                  [] OTHER -> "no"
    /\ UNCHANGED <<words, binary, standby, v3f, v3locals, v5, store, reached, escapes, silent,
                   cuts, fails>>
(* The reset pin. *)
PinReset == /\ cuts < MaxCuts /\ cuts' = cuts + 1
            /\ ChipReset /\ Unasked
            /\ UNCHANGED <<words, binary, standby, store, reached, escapes, silent, inputs, fails>>
(* A power cut: SRAM's words are gone (no magic number by chance). *)
PowerCut == /\ cuts < MaxCuts /\ cuts' = cuts + 1
            /\ ChipReset /\ Unasked
            /\ safe_boot' = FALSE /\ ctrlx_reset' = FALSE /\ recover' = FALSE
            /\ update' = "none" /\ nostart' = 0 /\ escapes' = 0 /\ silent' = 0
            /\ UNCHANGED <<binary, standby, store, reached, inputs, fails>>

-----------------------------------------------------------------------------
Init ==
    /\ safe_boot = FALSE /\ ctrlx_reset = FALSE /\ recover = FALSE
    /\ update = "none" /\ nostart = 0 /\ binary = FALSE /\ standby = FALSE
    /\ v3f = "reset" /\ ctrl_x_run = 0 /\ ctrl_x_armed = FALSE
    /\ forced = FALSE /\ updating = FALSE /\ recovering = FALSE
    /\ source = "stage" /\ ram = None /\ usb = <<>>
    /\ v5f = "off" /\ app = FALSE /\ rounds = 0
    /\ flash = Factory /\ stage = None
    /\ backup = [img |-> None, version |-> 0]
    /\ rec \in [state : {"none"}, version : {0}, whole : {FALSE}, pkg : {None}, tries : {0},
                 result : {"NONE"}]
            \cup [state : {"IDLE"}, version : {Factory}, whole : {TRUE}, pkg : {Factory}, tries : {0},
                  result : {"INSTALLED"}]
    /\ reached = FALSE /\ escapes = 0 /\ asked = "no" /\ silent = 0
    /\ inputs = 0 /\ cuts = 0 /\ fails = 0

UpdBoot == NewRecord \/ Refuse \/ StartUpdate \/ MakeBackup \/ Resume \/ PackageChanged
           \/ Program \/ Programmed \/ Trial \/ RollBack \/ CardFails
V3F == SharedInit \/ Boot \/ UpdBoot \/ Check \/ Failed \/ Started \/ NotStarted
       \/ Sleep \/ Poll \/ SafeRestart \/ Drained \/ Look \/ Clear \/ Confirmed \/ ConfirmRefused
StartUp == Release \/ Open \/ SetUp \/ Confirm
Next == \/ V3F \/ StartUp
        \/ Transfer \/ TransferFails \/ lfStandby \/ V5FResets
        \/ CmdReset \/ CmdAdopt \/ PinReset \/ PowerCut
        \/ \E p \in Packets : HostSends(p)
        \/ \E p \in Sent : Ready(p) \/ Receive(p, "stage") \/ Receive(p, "ram")
(* The V3F and the V5F's start-up always go on, and the RTC's alarm comes. *)
Fairness == WF_vars(V3F) /\ WF_vars(StartUp) /\ WF_vars(v5f = "asleep" /\ V5FResets)
Spec == Init /\ [][Next]_vars /\ Fairness

-----------------------------------------------------------------------------
(* Properties.  reached: the image in the slot has reached LiteForth;
   escapes: restarts by Ctrl+X x3 since recovery on request or power-up (2: or more);
   asked: how far a Ctrl+X x3, then Ctrl+X x3 again with no other input, is;
   silent: boots in a row whose V5F did not start (StartTries: or more). *)

(* A package the V5F has received and checked is not forgotten: its word
   leaves only with upd_boot's decision, or with the power (blocks.c:749,
   stage1.c:495, 887-909, cdc_bridge.c:79). *)
RequestKept == [][update = "waiting" /\ update' # "waiting"
                  => v3f \in {"check", "failed"} \/ cuts' # cuts]_vars

(* Only an image that itself reached LiteForth ends its trial: no word
   left by the image before it does (main.c:147-155, stage1.c:495, 896-909). *)
ConfirmIsOwn == [][rec.state = "TRIAL" /\ rec'.state = "IDLE" /\ rec'.result = "INSTALLED"
                   => reached]_vars

(* A board with an image to start is in recovery only after two Ctrl+X
   restarts, StartTries silent boots or an error while programming
   (stage1.c:389-407, 452-458, cdc_bridge.c:152-174). *)
RecoveryHasReason == [][~recovering /\ recovering'
                        => \/ rec.state # "none" /\ ~rec.whole
                           \/ v3f = "failed"
                           \/ escapes = 2 \/ silent = StartTries]_vars

(* Ctrl+X x3, then Ctrl+X x3 again and nothing else, ends in recovery,
   unless the power, the reset pin or the V5F comes between
   (cdc_bridge.c:79-97, 118-174). *)
EscapeWorks == (asked = "twice") ~> (v3f = "recovery" \/ asked # "twice")

(* Whatever is installed, sent, cut or failing, the board comes back: its
   V5F starts or recovery does (stage1.c:389-434). *)
BoardAnswers == []<>(v5f \notin {"off", "starting"} \/ v3f = "recovery")

(* update.lfu, which stays on the card, is not installed again and again,
   nor is anything else (stage1.c:470-491). *)
InstallsSettle == <>[](v3f # "program")

(* What firmware-updates.md:481-485 says of an installed image that stops
   starting: after StartTries such boots in a row, recovery.  start_or_not
   takes a refused update.lfu for an update under way (stage1.c:396-397,
   477-489), and clears the count. *)
SilentGetsRecovery == (silent = StartTries) ~> (v3f = "recovery" \/ silent = 0)

=============================================================================
