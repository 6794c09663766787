------------------------------- MODULE Ymodem -------------------------------
(***************************************************************************)
(* `-2 ymodem`: a package into lfstage.bin, by LiteForth's receiver        *)
(* (src/ymodem.c) or stage 1's (src/ymrecv.c), over a line that loses and  *)
(* damages packets and answers, with cuts and a card that fails.           *)
(* The sender is a program on the host: it sends what the receiver asks    *)
(* for, as the tests' sender.py does, and repeats it on NAK.  The          *)
(* receiver's times (3 s, 10 s) are far above the line's, so it takes a    *)
(* timeout only when nothing is under way on the line, or when the sender  *)
(* itself is slow, which counts as a trouble.                              *)
(***************************************************************************)
EXTENDS Naturals, Sequences

CONSTANTS
    Receivers,          \* subset of {"ymodem", "ymrecv"}
    Blocks,             \* the package's blocks
    PerBlock,           \* packets per block
    Modulus,            \* packet numbers are counted modulo this (256)
    Retries,            \* YMODEM_RETRIES, RETRIES
    Polls,              \* 'C's before the receiver gives up on a header
    Attempts,           \* bound: transfers
    MaxLosses,          \* bound: packets and answers lost or damaged in a behaviour
    MaxTroubles         \* bound: cuts, senders stopped, card writes refused

ASSUME YmodemAssumption ==
    /\ Receivers \subseteq {"ymodem", "ymrecv"}
    /\ {Blocks, PerBlock, Retries, Polls, Attempts} \subseteq Nat \ {0}
    /\ Modulus \in Nat /\ Modulus > 2
    /\ {MaxLosses, MaxTroubles} \subseteq Nat

VARIABLES
    who,            \* which receiver
    rx,             \* where it is
    expected, got, errors, eots, polls,     \* its counters; got counts the packets kept
    ior,            \* the card refused a write: nothing more is written (ymodem.c)
    block0, buf,    \* the block 0 it holds back; the block being filled
    stage,          \* lfstage.bin
    tx, k,          \* where the sender is, and its packet
    toR, toS,       \* the line: packets to the receiver, answers to the sender
    attempt,        \* the transfer, and the version it carries
    losses, troubles,
    deaf            \* an answer to the header was lost (history)

counters == <<expected, got, errors, eots, polls, ior>>
buffers == <<block0, buf>>
sender == <<tx, k>>
line == <<toR, toS>>
bounds == <<losses, troubles, deaf>>
vars == <<who, rx, counters, buffers, stage, sender, line, attempt, bounds>>

Packets == Blocks * PerBlock
Block == 0..Blocks - 1
(* Packet n of version v; a block of the package; a block of zeros. *)
Data(v, n) == [version |-> v, packet |-> n]
Content(v, b) == [i \in 1..PerBlock |-> Data(v, b * PerBlock + i)]
Zeros == <<>>
Number(n) == n % Modulus

Pkt(n) == [kind |-> IF n = 0 THEN "header" ELSE "packet", n |-> n]
Eot == [kind |-> "EOT", n |-> 0]
Cancels == [kind |-> "CAN", n |-> 0]
Fin == [kind |-> "fin", n |-> 0]        \* the empty header that ends the batch
Bad == [kind |-> "bad", n |-> 0]        \* damaged, or cut short
Quiet == toR = <<>> /\ toS = <<>>

-----------------------------------------------------------------------------
(* What the receiver's steps are built from. *)
Comes(kind) == toR # <<>> /\ Head(toR).kind = kind /\ toR' = Tail(toR)
Says(answers) == toS' = toS \o answers
Goes(next) == rx' = next
GiveUp == Goes("failed") /\ Says(<<"CAN">>)
AskForEver == Says(<<"NAK">>) /\ UNCHANGED <<rx, errors>>        \* mutant
(* A bad packet or a timeout: asks again, up to Retries times in a row. *)
AskAgain ==
    /\ errors' = errors + 1
    /\ IF errors' >= Retries THEN GiveUp ELSE Says(<<"NAK">>) /\ UNCHANGED rx
Trouble == troubles < MaxTroubles /\ troubles' = troubles + 1

(* Without the header that is to come: the transfer fails; at the end of
   the batch, the file is there all the same. *)
WithoutHeader == IF rx = "header" THEN "failed" ELSE IF who = "ymodem" THEN "store" ELSE "done"
(* ymrecv.c starts its wait over, ymodem.c has one deadline. *)
PollsLeft == IF who = "ymrecv" THEN 0 ELSE polls

-----------------------------------------------------------------------------
(* readHeader / read_header: 'C' until a packet starts. *)
InHeader == /\ rx \in {"header", "next"}
            /\ UNCHANGED <<who, expected, got, eots, ior, buffers, stage, sender, attempt, bounds>>
PollHeader ==
    /\ InHeader /\ Quiet /\ polls < Polls
    /\ polls' = polls + 1 /\ Says(<<"C">>)
    /\ UNCHANGED <<rx, errors, toR>>
NoSender ==
    /\ InHeader /\ Quiet /\ polls = Polls
    /\ Goes(WithoutHeader)
    /\ UNCHANGED <<errors, polls, line>>
HeaderComes ==
    /\ InHeader /\ rx = "header" /\ Comes("header")
    /\ Says(<<"ACK", "C">>) /\ Goes("data")
    /\ errors' = 0 /\ UNCHANGED polls
(* The batch ends. *)
FinComes ==
    /\ InHeader /\ Comes("fin")
    /\ Says(<<"ACK">>) /\ Goes(WithoutHeader)
    /\ UNCHANGED <<errors, polls>>
(* The EOT of a file already ACKed. *)
HeaderEot ==
    /\ InHeader /\ Comes("EOT")
    /\ Says(<<"ACK">>) /\ polls' = PollsLeft
    /\ UNCHANGED <<rx, errors>>
HeaderBad ==
    /\ InHeader /\ toR # <<>> /\ Head(toR) = Bad
    /\ toR' = <<>> /\ errors' = errors + 1 /\ polls' = PollsLeft
    /\ IF errors' >= Retries THEN Goes(WithoutHeader) /\ UNCHANGED toS
       ELSE Says(<<"NAK">>) /\ UNCHANGED rx
HeaderCancelled ==
    /\ InHeader /\ Comes("CAN")
    /\ Goes(WithoutHeader)
    /\ UNCHANGED <<errors, polls, toS>>

-----------------------------------------------------------------------------
(* The data.  A block is written when its last packet is in; block 0 is
   held back, and -2 ymodem of ymodem.c puts zeros in its place. *)
InData == /\ rx = "data"
          /\ UNCHANGED <<who, polls, sender, attempt, losses, deaf>>
ExpectNext == Number(expected + 1)
Before(n) == Number(n + Modulus - 1)
InBlock == got \div PerBlock
BlockEnds == (got + 1) % PerBlock = 0
NotZeroed == FALSE                      \* mutant: the old block 0 stays
Zeroed == who = "ymodem"
WritesNow == BlockEnds /\ ~ior /\ (InBlock # 0 \/ Zeroed)
Written(full) == IF InBlock = 0 THEN Zeros ELSE full

Keep ==
    /\ InData /\ toR # <<>> /\ Head(toR).kind = "packet" /\ toR' = Tail(toR)
    /\ LET d == Data(attempt, Head(toR).n) IN
       /\ Number(Head(toR).n) = expected
       /\ block0' = IF InBlock = 0 THEN Append(block0, d) ELSE block0
       /\ buf' = IF InBlock = 0 \/ BlockEnds THEN <<>> ELSE Append(buf, d)
       /\ \/ /\ stage' = IF WritesNow THEN [stage EXCEPT ![InBlock] = Written(Append(buf, d))] ELSE stage
             /\ Says(<<"ACK">>) /\ UNCHANGED <<rx, ior, troubles>>
          \/ /\ WritesNow /\ Trouble /\ UNCHANGED stage      \* the card refuses the write
             /\ IF who = "ymodem" THEN ior' = TRUE /\ Says(<<"ACK">>) /\ UNCHANGED rx
                ELSE GiveUp /\ UNCHANGED ior
    /\ expected' = ExpectNext /\ got' = got + 1 /\ errors' = 0 /\ eots' = 0

RepeatUnlooked(m) == FALSE              \* mutant: a repeat is out of step
IsRepeat(m) == Number(m.n) = Before(expected)
(* Our answer was lost.  ymodem.c asks for the data again after packet 0;
   ymrecv.c does not. *)
RepeatAnswer(m) == IF who = "ymodem" /\ Number(m.n) = 0 THEN <<"ACK", "C">> ELSE <<"ACK">>
Again ==
    /\ InData /\ toR # <<>> /\ Head(toR).kind \in {"header", "packet"} /\ toR' = Tail(toR)
    /\ IsRepeat(Head(toR)) /\ Number(Head(toR).n) # expected
    /\ Says(RepeatAnswer(Head(toR)))
    /\ UNCHANGED <<rx, expected, got, errors, eots, ior, buffers, stage, troubles>>
OutOfStep ==
    /\ InData /\ toR # <<>> /\ Head(toR).kind \in {"header", "packet"}
    /\ Number(Head(toR).n) # expected /\ ~IsRepeat(Head(toR))
    /\ GiveUp /\ toR' = <<>>
    /\ UNCHANGED <<expected, got, errors, eots, ior, buffers, stage, troubles>>
DataBad ==
    /\ InData /\ toR # <<>> /\ Head(toR) = Bad
    /\ toR' = <<>> /\ AskAgain
    /\ UNCHANGED <<expected, got, eots, ior, buffers, stage, troubles>>
(* Nothing for 3 s; or the answer is still to be read by a sender that is
   slow, which then sends twice, and has two packets on the way from then on. *)
DataTimeout ==
    /\ InData /\ toR = <<>> /\ AskAgain
    /\ \/ toS = <<>> /\ UNCHANGED troubles
       \/ toS # <<>> /\ Trouble
    /\ UNCHANGED <<expected, got, eots, ior, buffers, stage, toR>>
DataCancelled ==
    /\ InData /\ Comes("CAN") /\ Goes("failed")
    /\ UNCHANGED <<expected, got, errors, eots, ior, buffers, stage, troubles, toS>>

ShortUnlooked == FALSE                  \* mutant: any EOT ends the file
Short == got < Packets
(* The first EOT is NAKed, the second ACKed; ymrecv.c counts here what came. *)
FirstEot ==
    /\ InData /\ Comes("EOT")
    /\ IF who = "ymodem"
       THEN eots = 0 /\ eots' = 1 /\ Says(<<"NAK">>) /\ UNCHANGED <<rx, errors>>
       ELSE /\ UNCHANGED <<eots, errors>>
            /\ IF Short THEN GiveUp ELSE Says(<<"NAK">>) /\ Goes("eot")
    /\ UNCHANGED <<expected, got, ior, buffers, stage, troubles>>
SecondEot ==
    /\ InData /\ who = "ymodem" /\ eots # 0 /\ Comes("EOT")
    /\ Says(<<"ACK">>) /\ Goes("next") /\ errors' = 0
    /\ UNCHANGED <<expected, got, eots, ior, buffers, stage, troubles>>
(* ymrecv.c waits for it once, and goes on without it. *)
EotEnds ==
    /\ rx = "eot" /\ Goes("store")
    /\ \/ Comes("EOT") /\ Says(<<"ACK">>)
       \/ toR # <<>> /\ Head(toR) # Eot /\ toR' = Tail(toR) /\ UNCHANGED toS
       \/ Quiet /\ UNCHANGED line
    /\ UNCHANGED <<who, counters, buffers, stage, sender, attempt, bounds>>

-----------------------------------------------------------------------------
(* Block 0 goes in last; ymodem.c looks whether every block came and was
   written, ymrecv.c has seen to that. *)
AllCame == who = "ymrecv" \/ (got = Packets /\ ~ior)
Store ==
    /\ rx = "store"
    /\ \/ /\ AllCame /\ stage' = [stage EXCEPT ![0] = block0]
          /\ Goes(IF who = "ymodem" THEN "check" ELSE "next")
          /\ UNCHANGED <<troubles, toS>>
       \/ /\ UNCHANGED stage
          /\ \/ AllCame /\ Trouble
             \/ ~AllCame /\ UNCHANGED troubles
          /\ IF who = "ymodem" THEN Goes("failed") /\ UNCHANGED toS ELSE GiveUp
    /\ errors' = 0 /\ polls' = 0
    /\ UNCHANGED <<who, expected, got, eots, ior, buffers, sender, toR, attempt, losses, deaf>>

Whole(v) == \A b \in Block : stage[b] = Content(v, b)
(* instFinish's reading back and blk_stage_check; then blk_stage_ready. *)
Check ==
    /\ rx = "check"
    /\ Goes(IF Whole(attempt) THEN "done" ELSE "failed")
    /\ UNCHANGED <<who, counters, buffers, stage, sender, line, attempt, bounds>>

-----------------------------------------------------------------------------
(* The sender, on the host. *)
Hears(c) == toS # <<>> /\ Head(toS) = c /\ toS' = Tail(toS)
Sends(m) == toR' = Append(toR, m)
Sender == UNCHANGED <<who, rx, counters, buffers, stage, attempt, bounds>>

SendHeader ==
    /\ Sender /\ tx \in {"idle", "header"} /\ (Hears("C") \/ (tx = "header" /\ Hears("NAK")))
    /\ Sends(Pkt(0)) /\ tx' = "header" /\ UNCHANGED k
HeaderTaken == /\ Sender /\ tx = "header" /\ Hears("ACK")
               /\ tx' = "c" /\ UNCHANGED <<k, toR>>
(* The data, when asked for; a NAK instead repeats the header or, in other
   senders, counts as being asked. *)
StartData == /\ Sender /\ tx = "c" /\ (Hears("C") \/ Hears("NAK"))
             /\ Sends(Pkt(1)) /\ tx' = "data" /\ k' = 1
HeaderAgain == /\ Sender /\ tx = "c" /\ Hears("NAK")
               /\ Sends(Pkt(0)) /\ tx' = "header" /\ UNCHANGED k
NextPacket ==
    /\ Sender /\ tx = "data" /\ Hears("ACK")
    /\ IF k < Packets THEN Sends(Pkt(k + 1)) /\ k' = k + 1 /\ UNCHANGED tx
       ELSE Sends(Eot) /\ tx' = "eot" /\ UNCHANGED k
SameAgain ==
    /\ Sender /\ tx \in {"data", "eot", "end"} /\ Hears("NAK")
    /\ Sends(CASE tx = "data" -> Pkt(k) [] tx = "eot" -> Eot [] tx = "end" -> Fin)
    /\ UNCHANGED sender
(* Its last answer was lost: the next file is asked for. *)
EotAgain == /\ Sender /\ tx = "eot" /\ Hears("C")
            /\ Sends(Eot) /\ UNCHANGED sender
EotTaken == /\ Sender /\ tx = "eot" /\ Hears("ACK")
            /\ tx' = "batch" /\ UNCHANGED <<k, toR>>
EndBatch == /\ Sender /\ tx \in {"batch", "end"} /\ Hears("C")
            /\ Sends(Fin) /\ tx' = "end" /\ UNCHANGED k
Finished == /\ Sender /\ tx = "end" /\ Hears("ACK")
            /\ tx' = "over" /\ UNCHANGED <<k, toR>>
Stopped == /\ Sender /\ tx # "over" /\ Hears("CAN")
           /\ tx' = "over" /\ UNCHANGED <<k, toR>>
(* Answers nobody waits for. *)
Ignore ==
    /\ Sender
    /\ \/ tx = "data" /\ Hears("C")
       \/ tx \in {"idle", "batch"} /\ (Hears("NAK") \/ Hears("ACK"))
       \/ tx = "c" /\ Hears("ACK")
       \/ tx = "over" /\ toS # <<>> /\ toS' = Tail(toS)
    /\ UNCHANGED <<sender, toR>>

-----------------------------------------------------------------------------
(* The line, and what stops a transfer. *)
Loss == /\ losses < MaxLosses /\ losses' = losses + 1
        /\ UNCHANGED <<who, rx, counters, buffers, stage, sender, attempt, troubles>>
LosePacket == /\ Loss /\ toR # <<>>
              /\ toR' \in {Tail(toR), <<Bad>> \o Tail(toR)}
              /\ UNCHANGED <<toS, deaf>>
LoseAnswer == /\ Loss /\ toS # <<>> /\ toS' = Tail(toS)
              /\ deaf' = (deaf \/ (rx = "data" /\ tx \in {"header", "c"}))
              /\ UNCHANGED toR
(* The user stops the sender, which may still say so. *)
SenderStops == /\ tx \notin {"over"} /\ Trouble
               /\ tx' = "over" /\ toR' \in {toR, Append(toR, Cancels)}
               /\ UNCHANGED <<who, rx, counters, buffers, stage, k, toS, attempt, losses, deaf>>
(* A power cut; block 0 half written is not a package. *)
Cut == /\ rx \notin {"off", "done", "failed"} /\ Trouble
       /\ rx' = "off" /\ toR' = <<>> /\ toS' = <<>>
       /\ stage' \in {stage} \cup (IF rx = "store" THEN {[stage EXCEPT ![0] = Zeros]} ELSE {})
       /\ UNCHANGED <<who, counters, buffers, sender, attempt, losses, deaf>>

Clear == /\ expected' = 1 /\ got' = 0 /\ errors' = 0 /\ eots' = 0 /\ polls' = 0 /\ ior' = FALSE
         /\ block0' = <<>> /\ buf' = <<>> /\ tx' = "idle" /\ k' = 0
         /\ toR' = <<>> /\ toS' = <<>>
(* `-2 ymodem` again, for the next version. *)
Restart == /\ rx \in {"off", "done", "failed"} /\ attempt < Attempts
           /\ attempt' = attempt + 1 /\ rx' = "header" /\ Clear
           /\ UNCHANGED <<who, stage, bounds>>

Init == /\ who \in Receivers /\ rx = "off"
        /\ expected = 1 /\ got = 0 /\ errors = 0 /\ eots = 0 /\ polls = 0 /\ ior = FALSE
        /\ block0 = <<>> /\ buf = <<>> /\ tx = "over" /\ k = 0 /\ toR = <<>> /\ toS = <<>>
        /\ stage = [b \in Block |-> Content(0, b)] /\ attempt = 0
        /\ losses = 0 /\ troubles = 0 /\ deaf = FALSE

Receiver == \/ PollHeader \/ NoSender \/ HeaderComes \/ FinComes \/ HeaderEot \/ HeaderBad
            \/ HeaderCancelled \/ Keep \/ Again \/ OutOfStep \/ DataBad \/ DataTimeout
            \/ DataCancelled \/ FirstEot \/ SecondEot \/ EotEnds \/ Store \/ Check
SenderStep == SendHeader \/ HeaderTaken \/ StartData \/ HeaderAgain \/ NextPacket \/ SameAgain
              \/ EotAgain \/ EotTaken \/ EndBatch \/ Finished \/ Stopped \/ Ignore
Next == Receiver \/ SenderStep \/ LosePacket \/ LoseAnswer \/ SenderStops \/ Cut \/ Restart
Fairness == WF_vars(Receiver) /\ WF_vars(SenderStep)
Spec == Init /\ [][Next]_vars /\ Fairness

-----------------------------------------------------------------------------
(* Properties. *)

(* What lfstage.bin's block 0 names is all there: the package that is being
   sent goes in whole or not at all, and with ymodem.c a half-replaced one
   never keeps its block 0 (ymodem.c:415-498, ymrecv.c:223-251). *)
TakenIsWhole == \A v \in 0..Attempts : (v = attempt \/ who = "ymodem") =>
                    (stage[0] = Content(v, 0) => Whole(v))

(* What the receiver reports as taken is what was sent (ymodem.c:941-946, ymrecv.c:251-263). *)
DoneIsWhole == rx = "done" => Whole(attempt)

(* The receiver always comes to an end, whatever the sender and the line do:
   the Ctrl+X escape is off until it does (ymodem.c:709-725, 826-936). *)
Ends == (rx # "off") ~> (rx \in {"off", "done", "failed"})

(* Fewer losses than the receiver's patience, and the package gets there;
   ymrecv.c's answer to a repeated header has no 'C', and is left out. *)
Completes == (rx = "header") ~> (rx = "done" \/ troubles # 0 \/ (who = "ymrecv" /\ deaf))

=============================================================================
