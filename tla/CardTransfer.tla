---------------------------- MODULE CardTransfer ----------------------------
(***************************************************************************)
(* Transfers between the microSD card and memory on the V5F                *)
(* (V5F/User/blocks.c, gdma.c): started and then stepped by each call of   *)
(* blk_status, while the card goes on by itself.  A run of blocks goes in  *)
(* chunks, each with its own command; here a chunk is one block.  Contents *)
(* are a block's and a version of it; version 0 is half of one.            *)
(***************************************************************************)
EXTENDS Naturals, Sequences

CONSTANTS
    Blocks,             \* the card's blocks
    Places,             \* where a block may be in memory,
    Buffers,            \* the block buffers among them; the others are cells
                        \* of a program's, looked at while a run needs them
    MaxFaults           \* bound: commands refused, data errors

VARIABLES
    card, ram,          \* what each block, each place in memory holds
    step, status,       \* the transfer's step; what blk_status tells
    writing, chunk, left,   \* run_write, the chunk moving, those after it
    dma_buf,            \* machine mode's buffer
    hw,                 \* external: what the card and the DMA are at
    late,               \* more than BLK_TIMEOUT_US since `started`
    stalled,            \* the card itself has been at this that long (history)
    asked,              \* the whole run (history)
    faults

transfer == <<step, status, writing, chunk, left, dma_buf, hw, late, stalled, asked>>
cardvars == <<card, ram, transfer, faults>>

Content(b, v) == [blk |-> b, ver |-> v]
Half(b) == Content(b, 0)
Burned == Content(0, 0)
Chunk(b, p) == [blk |-> b, at |-> p]
NoChunk == Chunk(0, 0)
Moved(c) == IF writing THEN card[c.blk] = ram[c.at] ELSE ram[c.at] = card[c.blk]

Fault == faults < MaxFaults /\ faults' = faults + 1
Settled == step = "idle"
Starts == late' = FALSE /\ stalled' = FALSE

-----------------------------------------------------------------------------
(* next_chunk: start_read, start_write; a write's data is copied now. *)
NextChunk(w, c, rest, mem) ==
    /\ step' = "moving" /\ status' = (IF w THEN "writing" ELSE "reading")
    /\ writing' = w /\ chunk' = c /\ left' = rest
    /\ dma_buf' = IF w THEN mem[c.at] ELSE Burned
    /\ hw' = "going" /\ Starts
Idle(s, mem) ==
    /\ step' = "idle" /\ status' = s /\ hw' = "off" /\ left' = <<>> /\ dma_buf' = Burned
    /\ writing' = FALSE /\ chunk' = NoChunk /\ asked' = <<>> /\ Starts
    /\ ram' = [p \in Places |-> IF p \in Buffers THEN mem[p] ELSE Burned]
(* start, once nothing is in progress: the run's first chunk.  A command
   that is refused is the caller's ior, and not the status. *)
Start(w, run, mem) ==
    /\ Settled /\ asked' = run
    /\ NextChunk(w, Head(run), Tail(run), mem)
    /\ UNCHANGED faults
StartRefused == /\ Settled /\ Fault
                /\ UNCHANGED transfer

-----------------------------------------------------------------------------
(* The card and the DMA (external). *)
CardStep(from, to) ==
    /\ hw = from /\ hw' = to
    /\ UNCHANGED <<ram, step, status, writing, chunk, left, late, stalled, asked>>
Moves == /\ CardStep("going", "through")
         /\ IF writing THEN card' = [card EXCEPT ![chunk.blk] = dma_buf] /\ UNCHANGED dma_buf
            ELSE dma_buf' = card[chunk.blk] /\ UNCHANGED card
         /\ UNCHANGED faults
(* A write that stops half-way leaves half a block. *)
Torn == IF writing THEN {card, [card EXCEPT ![chunk.blk] = Half(@.blk)]} ELSE {card}
Breaks == /\ CardStep("going", "broken") /\ Fault
          /\ card' \in Torn /\ UNCHANGED dma_buf
Settles == CardStep("busy", "ready") /\ UNCHANGED <<card, dma_buf, faults>>
(* A second passes. *)
Second == /\ ~Settled /\ ~late
          /\ late' = TRUE /\ stalled' = (hw \in {"going", "busy"})
          /\ UNCHANGED <<card, ram, step, status, writing, chunk, left, dma_buf, hw, asked, faults>>

-----------------------------------------------------------------------------
(* advance, as blk_status or a wait calls it; it changes nothing while the
   card is at it and has time left.  CMD13 comes with the call after CMD12:
   a card asked at once and found busy is the same. *)
StartedThen == UNCHANGED <<late, stalled>>  \* mutant: the busy time counted from the start
StartedNow == Starts
PollThrough ==
    /\ step = "moving" /\ hw = "through"
    /\ LET mem == IF writing THEN ram ELSE [ram EXCEPT ![chunk.at] = dma_buf] IN
       \/ /\ step' = "settling" /\ hw' = "busy" /\ StartedNow        \* CMD12
          /\ ram' = mem /\ dma_buf' = Burned
          /\ UNCHANGED <<status, writing, chunk, left, asked, faults>>
       \/ Fault /\ \E m \in {mem, ram} : Idle("failed", m)
    /\ UNCHANGED card
(* fail() *)
PollBroken == /\ step = "moving" /\ hw = "broken" /\ Idle("failed", ram)
              /\ UNCHANGED <<card, faults>>
PollLate == /\ late /\ hw \in {"going", "busy"} /\ Idle("timeout", ram)
            /\ card' \in (IF hw = "going" THEN Torn ELSE {card})
            /\ UNCHANGED faults
Over == left = <<>>
PollReady ==
    /\ step = "settling" /\ hw = "ready"
    /\ \/ Over /\ Idle("ok", ram) /\ UNCHANGED faults
       \/ /\ ~Over /\ NextChunk(writing, Head(left), Tail(left), ram)
          /\ UNCHANGED <<ram, asked, faults>>
       \/ ~Over /\ Fault /\ Idle("failed", ram)
    /\ UNCHANGED card
(* CMD13 fails. *)
PollLost == /\ step = "settling" /\ Fault /\ Idle("failed", ram)
            /\ UNCHANGED card

Poll == PollThrough \/ PollBroken \/ PollLate \/ PollReady \/ PollLost
Card == Moves \/ Breaks \/ Settles

InitTransfer ==
    /\ card = [b \in Blocks |-> Content(b, 1)]
    /\ ram = [p \in Places |-> Burned]
    /\ step = "idle" /\ status = "ok" /\ writing = FALSE
    /\ chunk = NoChunk /\ left = <<>> /\ dma_buf = Burned
    /\ hw = "off" /\ late = FALSE /\ stalled = FALSE /\ asked = <<>> /\ faults = 0
=============================================================================
