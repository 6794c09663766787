------------------------------- MODULE CdcTx --------------------------------
(***************************************************************************)
(* Terminal output, from the V5F's serial_putc (V5F/User/serial_io.c)      *)
(* through the tx ring and the V3F's ring_to_host (Common/cdc_bridge.c) to *)
(* endpoint 3 and the host, with what the USB interrupt does to the        *)
(* bridge's flags meanwhile (Common/ch32h417_usbfs_device.c).  Bytes are   *)
(* numbered in the order the V5F puts them in the ring, from 1.            *)
(***************************************************************************)
EXTENDS CdcRing

CONSTANTS PacketSize,   \* CDC_PACKET
          Codings,      \* bound: SET_LINE_CODINGs while configured
          Resets,       \* bound: bus resets
          Closes,       \* bound: times the port closes
          MaxByte       \* bound: bytes the V5F puts in the ring

ASSUME PacketAssumption == PacketSize \in 1..RingSize
ASSUME BoundsAssumption == {Codings, Resets, Closes, MaxByte} \subseteq Nat

VARIABLES
    head, tail, data,   \* the tx ring
    v5f,                \* where serial_putc is
    next,               \* the byte it puts next (history)
    bridge, n, last,    \* where ring_to_host is; the bytes it moves; the head it discards to
    stalled, was_open,  \* its statics: the host stopped reading; host_open last time
    buf, len, armed,    \* USBFS_EP3_Buf, endpoint 3's length, and whether it answers
    ing, pack0, late,   \* USB_Up_IngFlag, USB_Up_Pack0_Flag; USB_Up_TimeOut is past the limit
    host_open, configured,
    got,                \* the last byte the host took (history)
    reading,            \* the host's read waits: its last packet was full (history)
    gone,               \* bytes given up on purpose (history)
    recoded,            \* a SET_LINE_CODING came while endpoint 3 held a packet (history)
    codings, resets, closes

ring == <<head, tail, data>>
work == <<bridge, n, last, stalled, was_open>>
endpoint == <<buf, len, armed>>
flags == <<ing, pack0, late>>
host == <<host_open, configured, got, reading, gone>>
bounds == <<codings, recoded, resets, closes>>
vars == <<ring, v5f, next, work, endpoint, flags, host, bounds>>

Waiting == Count(head, tail)
Bytes(from, count) == {data[At(Advance(from, i))] : i \in 0..count - 1}

-----------------------------------------------------------------------------
(* The V5F: serial_putc. *)
Put == /\ v5f = "idle" /\ next <= MaxByte
       /\ v5f' = "wait"
       /\ UNCHANGED <<ring, next, work, endpoint, flags, host, bounds>>

(* Full, and nobody has the port open: the byte is dropped. *)
PutDrops == /\ v5f = "wait"
            /\ Space(head, tail) = 0 /\ ~host_open
            /\ v5f' = "idle"
            /\ UNCHANGED <<ring, next, work, endpoint, flags, host, bounds>>

PutWritesFull ==                        \* mutant: doesn't wait for room
    /\ v5f = "wait"
    /\ data' = [data EXCEPT ![At(head)] = next]
    /\ v5f' = "publish"
    /\ UNCHANGED <<head, tail, next, work, endpoint, flags, host, bounds>>
PutWrites == /\ v5f = "wait"
             /\ Space(head, tail) # 0
             /\ data' = [data EXCEPT ![At(head)] = next]
             /\ v5f' = "publish"
             /\ UNCHANGED <<head, tail, next, work, endpoint, flags, host, bounds>>

PutPublishes == /\ v5f = "publish"
                /\ head' = Advance(head, 1)
                /\ next' = next + 1
                /\ v5f' = "idle"
                /\ UNCHANGED <<tail, data, work, endpoint, flags, host, bounds>>

-----------------------------------------------------------------------------
(* The V3F: ring_to_host, called over and over.  What it reads first, and
   what it decides to do. *)
Open == configured /\ host_open
Smaller(a, b) == IF a <= b THEN a ELSE b

(* A terminal that just opened the port gives a waiting packet a fresh
   timeout. *)
Opened == Open /\ ~was_open
StallsNever == FALSE                                    \* mutant: no 100 ms timeout
Stalls == ing /\ ~Opened /\ (stalled \/ late)

ToDoNoZeroPacket ==                                     \* mutant: no zero-length packet
    IF ~Open \/ Waiting = 0 THEN "poll"
    ELSE IF ~ing THEN "copy" ELSE IF Stalls THEN "discard" ELSE "poll"
(* Nobody there: the output is held. *)
ToDo == CASE Open /\ ing /\ Stalls /\ Waiting # 0 -> "discard"
          [] Open /\ ~ing /\ Waiting # 0 -> "copy"
          [] Open /\ ~ing /\ Waiting = 0 /\ pack0 -> "arm"
          [] OTHER -> "poll"

Look == /\ bridge = "poll"
        /\ bridge' = ToDo
        /\ was_open' = Open
        /\ late' = (late /\ ~Opened)
        /\ stalled' = IF Open THEN Stalls ELSE stalled
        /\ n' = IF ToDo = "copy" THEN Smaller(Waiting, PacketSize) ELSE 0
        /\ last' = IF ToDo = "discard" THEN head ELSE 0
        /\ UNCHANGED <<ring, v5f, next, endpoint, ing, pack0, host, bounds>>

(* ring_discard *)
Discard == /\ bridge = "discard"
           /\ tail' = last
           /\ gone' = gone \cup Bytes(tail, Count(last, tail))
           /\ bridge' = "poll" /\ last' = 0
           /\ UNCHANGED <<head, data, v5f, next, n, stalled, was_open, endpoint, flags,
                          host_open, configured, got, reading, bounds>>

Copy == /\ bridge = "copy"
        /\ buf' = [i \in 0..PacketSize - 1 |->
                       IF i < n THEN data[At(Advance(tail, i))] ELSE buf[i]]
        /\ bridge' = "free"
        /\ UNCHANGED <<ring, v5f, next, n, last, stalled, was_open, len, armed, flags, host,
                       bounds>>

FreeAll ==                              \* mutant: frees what came in meanwhile too
    /\ bridge = "free"
    /\ tail' = head
    /\ bridge' = "arm"
    /\ UNCHANGED <<head, data, v5f, next, n, last, stalled, was_open, endpoint, flags, host,
                   bounds>>
Free == /\ bridge = "free"
        /\ tail' = Advance(tail, n)
        /\ bridge' = "arm"
        /\ UNCHANGED <<head, data, v5f, next, n, last, stalled, was_open, endpoint, flags, host,
                       bounds>>

(* ep3_arm, with the USB interrupt off *)
Arm == /\ bridge = "arm"
       /\ ing' = TRUE /\ late' = FALSE
       /\ pack0' = (n = PacketSize)
       /\ len' = n /\ armed' = TRUE
       /\ bridge' = "poll" /\ n' = 0
       /\ UNCHANGED <<ring, v5f, next, last, stalled, was_open, buf, host, bounds>>

Poll == Look \/ Discard \/ Copy \/ Free \/ Arm

-----------------------------------------------------------------------------
(* The host and the USB interrupt. *)
Take == /\ armed
        /\ got' = IF len = 0 THEN got ELSE buf[len - 1]
        /\ reading' = (len = PacketSize)
        /\ armed' = FALSE /\ ing' = FALSE
        /\ UNCHANGED <<ring, v5f, next, work, buf, len, pack0, late, host_open, configured, gone,
                       bounds>>

Configure == /\ ~configured /\ configured' = TRUE
             /\ UNCHANGED <<ring, v5f, next, work, endpoint, flags, host_open, got, reading,
                            gone, bounds>>

(* SET_CONTROL_LINE_STATE: DTR *)
SetLineState(dtr) ==
    /\ configured /\ host_open # dtr
    /\ closes' = IF dtr THEN closes ELSE closes + 1
    /\ closes' <= Closes
    /\ host_open' = dtr
    /\ UNCHANGED <<ring, v5f, next, work, endpoint, flags, configured, got, reading, gone,
                   codings, recoded, resets>>

(* UART_ParaInit's part of this; endpoint 3 stays as it is. *)
ParaInit == ing' = FALSE /\ pack0' = FALSE /\ late' = FALSE

SetLineCoding == /\ configured /\ codings < Codings
                 /\ codings' = codings + 1 /\ recoded' = (recoded \/ armed)
                 /\ ParaInit
                 /\ UNCHANGED <<ring, v5f, next, work, endpoint, host, resets, closes>>

(* A bus reset takes the packet that waits with it. *)
BusReset == /\ resets < Resets
            /\ resets' = resets + 1
            /\ ParaInit
            /\ armed' = FALSE /\ len' = 0
            /\ host_open' = FALSE /\ reading' = FALSE
            /\ gone' = IF armed THEN gone \cup {buf[i] : i \in 0..len - 1} ELSE gone
            /\ UNCHANGED <<ring, v5f, next, work, buf, configured, got, codings, recoded,
                           closes>>

(* TIM7 *)
TimeOut == /\ ~late /\ late' = TRUE
           /\ UNCHANGED <<ring, v5f, next, work, endpoint, ing, pack0, host, bounds>>

-----------------------------------------------------------------------------
Init ==
    /\ head = 0 /\ tail = 0 /\ data = [p \in Place |-> 0]
    /\ v5f = "idle" /\ next = 1
    /\ bridge = "poll" /\ n = 0 /\ last = 0 /\ stalled = FALSE /\ was_open = FALSE
    /\ buf = [i \in 0..PacketSize - 1 |-> 0] /\ len = 0 /\ armed = FALSE
    /\ ing = FALSE /\ pack0 = FALSE /\ late = FALSE
    /\ host_open = FALSE /\ configured = FALSE
    /\ got = 0 /\ reading = FALSE /\ gone = {}
    /\ codings = 0 /\ recoded = FALSE /\ resets = 0 /\ closes = 0

Putc == PutDrops \/ PutWrites \/ PutPublishes

Next == \/ Put \/ Putc
        \/ Poll
        \/ Take \/ Configure \/ SetLineCoding \/ BusReset \/ TimeOut
        \/ \E dtr \in BOOLEAN : SetLineState(dtr)

Spec == Init /\ [][Next]_vars

(* The V5F runs inside serial_putc, the V3F's loop and timer never stop; the
   host reads only if HostReads says so. *)
Scheduling == WF_vars(Putc) /\ WF_vars(Poll) /\ WF_vars(TimeOut)
LiveSpec == Spec /\ Scheduling
HostReads == WF_vars(Take)

-----------------------------------------------------------------------------
(* The packet endpoint 3 holds out is what the host should read next: the
   bytes after the last it took, in order, once, and none missing but those
   given up on purpose.  It holds through every interleaving of the cores,
   closes, stalls and bus resets (cdc_shared.h:20-26, cdc_bridge.c:248-262),
   until a SET_LINE_CODING finds a packet waiting. *)
Before(i) == IF i = 0 THEN got ELSE buf[i - 1]
PacketIsNext ==
    armed /\ ~recoded => \A i \in 0..len - 1 :
                            /\ buf[i] > Before(i)
                            /\ (Before(i) + 1)..(buf[i] - 1) \subseteq gone

(* Every byte written and not yet read is in the packet that waits, between
   the ring and the packet, or in the ring, unless given up on purpose: "the
   tx ring is held, so what the V5F writes meanwhile ... appears when a
   terminal opens the port" (cdc_bridge.c:33-37). *)
InRing == Bytes(tail, Waiting)
InPacket == {buf[i] : i \in 0..(IF armed THEN len ELSE 0) - 1}
BeingSent == {buf[i] : i \in 0..(IF bridge \in {"free", "arm"} THEN n ELSE 0) - 1}
HeldAppears == (got + 1)..(next - 1) \subseteq gone \cup InRing \cup InPacket \cup BeingSent

(* The same, until a SET_LINE_CODING finds a packet waiting. *)
NothingLost == ~recoded => HeldAppears

(* serial_putc always returns, whatever the host does or fails to do: "the
   V5F never waits forever" (cdc_bridge.c:39-43). *)
PutReturns == v5f = "wait" ~> v5f = "idle"

(* With the port open for good and a host that reads, without SET_LINE_CODING:
   when the V5F pauses, all its output arrives, to the last byte, but what was
   given up while the host stalled; and a read that a full
   packet left waiting returns (cdc_bridge.c:29-31, 39-43). *)
Served == HostReads /\ <>[](configured /\ host_open) /\ [](codings = 0)
Due == next - 1 \notin gone \cup {got}
Arrives == Served /\ <>[](v5f = "idle") => (Due ~> ~Due)
ReadReturns == Served => (reading ~> ~reading)
=============================================================================
