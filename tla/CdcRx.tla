------------------------------- MODULE CdcRx --------------------------------
(***************************************************************************)
(* Terminal input, from the host through endpoint 2 and the USB            *)
(* interrupt's packet slots (Common/ch32h417_usbfs_device.c), the V3F's    *)
(* host_to_ring (Common/cdc_bridge.c) and the rx ring to the V5F's         *)
(* serial_getc (V5F/User/serial_io.c).  The host's bytes are numbered from *)
(* 1 in the order it sends them; a packet is its first byte and length.    *)
(***************************************************************************)
EXTENDS CdcRing

CONSTANTS PacketSize,   \* DEF_USB_FS_PACK_LEN
          Slots,        \* DEF_UARTx_TX_BUF_NUM_MAX
          Drops,        \* bound: SET_LINE_CODINGs and bus resets
          MaxByte       \* bound: bytes the host sends

ASSUME RxAssumption == /\ PacketSize \in Nat \ {0}
                       /\ Slots \in Nat /\ Slots > 2
                       /\ {Drops, MaxByte} \subseteq Nat

VARIABLES
    head, tail, data,       \* the rx ring
    slot,                   \* UART_Tx_Buf and Tx_PackLen
    load, deal, remain,     \* Tx_LoadNum, Tx_DealNum, Tx_RemainNum
    pos,                    \* Tx_CurPackPtr
    nak, stop,              \* endpoint 2 NAKs; USB_Down_StopFlag
    bridge, n,              \* where host_to_ring is, with the USB interrupt off unless "poll"
    v5f, seen,              \* where the V5F is; the head serial_open read
    sent, read,             \* the last byte the host sent, the V5F took (history)
    gone,                   \* bytes dropped on purpose (history)
    drops

ring == <<head, tail, data>>
slots == <<slot, load, deal, remain, pos, nak, stop>>
work == <<bridge, n>>
reader == <<v5f, seen, read>>
vars == <<ring, slots, work, reader, sent, gone, drops>>

Waiting == Count(head, tail)
Bytes(p) == {p.first + i : i \in 0..p.len - 1}
NextSlot(s) == (s + 1) % Slots
Freed == [first |-> 0, len |-> 0]
(* The slots still to be dealt with, and what is left in them. *)
Held == {(deal + i) % Slots : i \in 0..remain - 1}
Left == (UNION {Bytes(slot[s]) : s \in Held}) \
            (IF remain = 0 THEN {} ELSE {slot[deal].first + i : i \in 0..pos - 1})
InRing == {data[At(Advance(tail, i))] : i \in 0..Waiting - 1}

-----------------------------------------------------------------------------
(* The USB interrupt: a packet the host sent, of 0 bytes or more.  Endpoint 2
   NAKs with two slots left. *)
ReceiveUpToFull(len) ==                 \* mutant: no NAK until the slots are full, and one more
    /\ bridge = "poll" /\ ~nak
    /\ sent + len <= MaxByte
    /\ slot' = [slot EXCEPT ![load] = [first |-> sent + 1, len |-> len]]
    /\ load' = NextSlot(load) /\ remain' = remain + 1
    /\ nak' = (remain' > Slots) /\ stop' = nak'
    /\ sent' = sent + len
    /\ UNCHANGED <<ring, deal, pos, work, reader, gone, drops>>
Receive(len) ==
    /\ bridge = "poll" /\ ~nak
    /\ sent + len <= MaxByte
    /\ slot' = [slot EXCEPT ![load] = [first |-> sent + 1, len |-> len]]
    /\ load' = NextSlot(load) /\ remain' = remain + 1
    /\ nak' = (remain' >= Slots - 2) /\ stop' = (stop \/ nak')
    /\ sent' = sent + len
    /\ UNCHANGED <<ring, deal, pos, work, reader, gone, drops>>

ParaInitKeepsPlace ==                   \* mutant: the copy position as it was
    /\ bridge = "poll" /\ drops < Drops
    /\ drops' = drops + 1
    /\ load' = 0 /\ deal' = 0 /\ remain' = 0
    /\ nak' = FALSE /\ stop' = FALSE
    /\ slot' = [s \in 0..Slots - 1 |-> Freed]
    /\ gone' = gone \cup Left
    /\ UNCHANGED <<ring, pos, work, reader, sent>>
(* SET_LINE_CODING, a bus reset: the slots start afresh. *)
ParaInit ==
    /\ bridge = "poll" /\ drops < Drops
    /\ drops' = drops + 1
    /\ load' = 0 /\ deal' = 0 /\ remain' = 0 /\ pos' = 0
    /\ nak' = FALSE /\ stop' = FALSE
    /\ slot' = [s \in 0..Slots - 1 |-> Freed]
    /\ gone' = gone \cup Left
    /\ UNCHANGED <<ring, work, reader, sent>>

-----------------------------------------------------------------------------
(* The V3F: host_to_ring. *)
Begin == /\ bridge = "poll" /\ remain # 0
         /\ bridge' = "loop"
         /\ UNCHANGED <<ring, slots, n, reader, sent, gone, drops>>

(* slot_release *)
Release == /\ deal' = NextSlot(deal) /\ remain' = remain - 1 /\ pos' = 0
           /\ slot' = [slot EXCEPT ![deal] = Freed]
           /\ IF stop /\ remain' < 2
              THEN nak' = FALSE /\ stop' = FALSE
              ELSE UNCHANGED <<nak, stop>>

Uncopied == slot[deal].len - pos
Smaller(a, b) == IF a <= b THEN a ELSE b

(* Bytes of the slot to the ring, as many as there is room for. *)
Copy == /\ bridge = "loop" /\ remain # 0 /\ Uncopied > 0
        /\ Space(head, tail) # 0
        /\ n' = Smaller(Uncopied, Space(head, tail))
        /\ data' = [p \in Place |->
                       IF \E i \in 0..n' - 1 : p = At(Advance(head, i))
                       THEN slot[deal].first + pos +
                            (CHOOSE i \in 0..n' - 1 : p = At(Advance(head, i)))
                       ELSE data[p]]
        /\ bridge' = "publish"
        /\ UNCHANGED <<head, tail, slots, reader, sent, gone, drops>>

(* A slot the ring has room for only part of keeps its place and ends the loop. *)
PublishReleases ==                      \* mutant: frees the slot all the same
    /\ bridge = "publish"
    /\ head' = Advance(head, n) /\ n' = 0
    /\ Release /\ bridge' = "loop"
    /\ UNCHANGED <<tail, data, load, reader, sent, gone, drops>>
Publish == /\ bridge = "publish"
           /\ head' = Advance(head, n) /\ n' = 0
           /\ IF n < Uncopied
              THEN /\ pos' = pos + n /\ bridge' = "poll"
                   /\ UNCHANGED <<slot, deal, remain, nak, stop>>
              ELSE Release /\ bridge' = "loop"
           /\ UNCHANGED <<tail, data, load, reader, sent, gone, drops>>

SkipKeepsSlot ==                        \* mutant: only a copied packet frees its slot
    /\ bridge = "loop" /\ remain # 0 /\ Uncopied = 0
    /\ bridge' = "poll"
    /\ UNCHANGED <<ring, slots, n, reader, sent, gone, drops>>
(* A zero-length packet. *)
Skip == /\ bridge = "loop" /\ remain # 0 /\ Uncopied = 0
        /\ Release
        /\ UNCHANGED <<ring, load, work, reader, sent, gone, drops>>

End == /\ bridge = "loop"
       /\ remain = 0 \/ (Uncopied > 0 /\ Space(head, tail) = 0)
       /\ bridge' = "poll"
       /\ UNCHANGED <<ring, slots, n, reader, sent, gone, drops>>

Poll == Begin \/ Copy \/ Publish \/ Skip \/ End

-----------------------------------------------------------------------------
(* The V5F: serial_open drops what came before this start. *)
OpenReads == /\ v5f = "open"
             /\ seen' = head /\ v5f' = "drop"
             /\ UNCHANGED <<ring, slots, work, read, sent, gone, drops>>
OpenDrops == /\ v5f = "drop"
             /\ tail' = seen /\ seen' = 0 /\ v5f' = "idle"
             /\ gone' = gone \cup {data[At(Advance(tail, i))] : i \in 0..Count(seen, tail) - 1}
             /\ UNCHANGED <<head, data, slots, work, read, sent, drops>>

(* serial_getc: the byte, then the new tail. *)
Get == /\ v5f = "idle" /\ Waiting # 0
       /\ seen' = tail /\ read' = data[At(tail)]
       /\ v5f' = "free"
       /\ UNCHANGED <<ring, slots, work, sent, gone, drops>>
Free == /\ v5f = "free"
        /\ tail' = Advance(seen, 1)
        /\ seen' = 0 /\ v5f' = "idle"
        /\ UNCHANGED <<head, data, slots, work, read, sent, gone, drops>>

Serial == OpenReads \/ OpenDrops \/ Get \/ Free

-----------------------------------------------------------------------------
Init == /\ head = 0 /\ tail = 0 /\ data = [p \in Place |-> 0]
        /\ slot = [s \in 0..Slots - 1 |-> Freed]
        /\ load = 0 /\ deal = 0 /\ remain = 0 /\ pos = 0
        /\ nak = FALSE /\ stop = FALSE
        /\ bridge = "poll" /\ n = 0
        /\ v5f = "open" /\ seen = 0
        /\ sent = 0 /\ read = 0 /\ gone = {} /\ drops = 0

Next == \/ \E len \in 0..PacketSize : Receive(len)
        \/ ParaInit \/ Poll \/ Serial

Spec == Init /\ [][Next]_vars

(* The V3F's loop never stops, and the V5F goes on reading. *)
LiveSpec == Spec /\ WF_vars(Poll) /\ WF_vars(Serial)

-----------------------------------------------------------------------------
(* Every variable holds a value the C declarations allow, the ring never holds
   more than its size, and the slots never overflow: the interrupt counts no
   more packets than there are slots (ch32h417_usbfs_device.c:261-279). *)
TypeOK ==
    /\ {head, tail, seen} \subseteq Index
    /\ data \in [Place -> Nat]
    /\ slot \in [0..Slots - 1 -> [first : Nat, len : 0..PacketSize]]
    /\ {load, deal} \subseteq 0..Slots - 1 /\ remain \in 0..Slots
    /\ pos \in 0..PacketSize
    /\ {nak, stop} \subseteq BOOLEAN
    /\ bridge \in {"poll", "loop", "publish"} /\ n \in 0..PacketSize
    /\ v5f \in {"open", "drop", "idle", "free"}
    /\ {sent, read} \subseteq Nat /\ gone \subseteq Nat
    /\ Waiting <= RingSize

(* "When the V5F stops reading, the ring fills, then the slots, then the host
   waits: nothing is lost" (cdc_bridge.c:14-21): a byte the host sent is in the
   ring, in a slot, or read, unless it was dropped with the slots. *)
NothingLost == \A b \in 1..sent : b <= read \/ b \in gone \cup InRing \cup Left

(* The V5F reads the host's bytes in the order they were sent, each once, and
   none is missing but those dropped: through ring and slot wrap-arounds, a
   packet copied in parts, and a driver reset part-way through one. *)
InOrder == [][read' # read => /\ read' > read
                              /\ (read + 1)..(read' - 1) \subseteq gone]_vars

(* Every byte sent is read, or dropped with the slots. *)
Arrives == \A b \in 1..MaxByte : (sent >= b) ~> (read >= b \/ b \in gone)
=============================================================================
