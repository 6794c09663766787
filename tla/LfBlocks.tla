------------------------------ MODULE LfBlocks ------------------------------
(***************************************************************************)
(* The Forth block words (src/lfblocks.c), LOAD and --> (src/forth.c) and  *)
(* the unwaited read-block and write-block (src/api0.c), over the card's   *)
(* transfers.  A word waits for a transfer in progress before it starts    *)
(* its own.  lru_clock is modelled by the order of use, and BUFFER         *)
(* together with the filling its caller then begins, as ymodem's           *)
(* startBlock does.                                                        *)
(***************************************************************************)
EXTENDS CardTransfer, SequencesExt

CONSTANTS
    Depth,              \* MAX_LOAD_NESTING
    MaxEdits,           \* bound: versions written by programs
    MaxRuns             \* bound: runs started without waiting, by lines
                        \* that have used no block buffer until then

None == 0
Terminal == Chunk(None, None)   \* BLK = 0

ASSUME LfBlocksAssumption ==
    /\ Buffers \subseteq Places /\ Buffers # {}
    /\ Blocks \cup Places \subseteq Nat \ {None}
    /\ {Depth, MaxEdits, MaxRuns, MaxFaults} \subseteq Nat

VARIABLES
    id, dirty,          \* buf_state: block_id, is_dirty
    recent,             \* buf_state: last_used, as the order of use
    active,             \* active_buf_idx
    pc, word,           \* where the word is that runs; what it is about
    source, callers,    \* BLK and the buffer the interpreter reads; LOAD's locals
    ior,                \* an error is on its way to the terminal
    edits, runs

buffers == <<id, dirty, recent, active>>
interpreter == <<source, callers, ior>>
bounds == <<edits, runs>>
vars == <<cardvars, buffers, pc, word, interpreter, bounds>>

Word(why, b, i) == [why |-> why, blk |-> b, at |-> i]
NoWord == Word("none", None, None)
Unassigned == [i \in Buffers |-> None]
Touch(i) == /\ recent' = Append(SelectSeq(recent, LAMBDA j : j # i), i)
            /\ active' = i
(* What the buffers held is no block's any more. *)
EmptyAll == /\ id' = Unassigned /\ dirty' = [i \in Buffers |-> FALSE]
            /\ recent' = <<>> /\ active' = None
            /\ ram' = [p \in Places |-> IF p \in Buffers THEN Burned ELSE ram[p]]
Running == pc = "idle" /\ ~ior

-----------------------------------------------------------------------------
(* The end of a word: with a block in a buffer, or with an error. *)
Done(why, b, i) ==
    /\ pc' = "idle" /\ word' = NoWord
    /\ ram' = IF why = "buffer" THEN [ram EXCEPT ![i] = Half(b)] ELSE ram
    /\ callers' = CASE why = "load" -> Append(callers, source.blk)
                    [] why = "return" -> Front(callers)
                    [] OTHER -> callers
    /\ source' = CASE why \in {"load", "next", "return"} -> Chunk(b, i)
                   [] OTHER -> source
    /\ UNCHANGED ior
Fails == /\ pc' = "idle" /\ word' = NoWord /\ ior' = TRUE
         /\ IF word.why = "return" THEN callers' = Front(callers) /\ source' = Chunk(word.blk, source.at)
            ELSE UNCHANGED <<callers, source>>

Holding(b) == {i \in Buffers : id[i] = b}
Marked == {i \in Buffers : id[i] # None /\ dirty[i]}
First(S) == {i \in S : \A j \in S : i <= j}
(* find_or_allocate_buffer: an unassigned one, or the least recently used. *)
Victim == IF Holding(None) # {} THEN First(Holding(None))
          ELSE {i \in Buffers : i = Head(recent)}

(* lfAssignBlock and assignBuffer: the block's own buffer, or another, which
   is written first if it is marked. *)
Assign(why, b) ==
    \/ \E i \in Holding(b) :
          /\ Touch(i) /\ Done(why, b, i)
          /\ UNCHANGED <<card, transfer, faults, id, dirty, bounds>>
    \/ /\ Holding(b) = {}
       /\ \E i \in Victim :
             /\ word' = Word(why, b, i)
             /\ pc' = IF i \in Marked THEN "sync" ELSE "vacant"
       /\ UNCHANGED <<cardvars, buffers, interpreter, bounds>>

(* sync_buffer: blk_write, from the wait before it to the one after it. *)
Sync ==
    /\ pc = "sync"
    /\ \/ Start(TRUE, <<Chunk(id[word.at], word.at)>>, ram) /\ pc' = "syncing"
          /\ UNCHANGED <<word, interpreter>>
       \/ StartRefused /\ Fails
    /\ UNCHANGED <<card, ram, buffers, bounds>>
UnmarkedAnyway == status # "timeout"            \* mutant: an error counts as written
Written == status = "ok"
Synced ==
    /\ pc = "syncing" /\ Settled
    /\ \/ /\ Written /\ dirty' = [dirty EXCEPT ![word.at] = FALSE]
          /\ pc' = IF word.why \in {"save", "flush"} THEN "save" ELSE "vacant"
          /\ UNCHANGED <<word, interpreter>>
       \/ /\ ~Written /\ Fails /\ UNCHANGED dirty
    /\ UNCHANGED <<cardvars, id, recent, active, bounds>>

(* The buffer is free: BUFFER takes it as it is, BLOCK reads into it. *)
StillClaimed == UNCHANGED id                    \* mutant: the old block's until the read is done
Vacated == id' = [id EXCEPT ![word.at] = None]
TakeBuffer ==
    /\ pc = "vacant" /\ word.why = "buffer"
    /\ id' = [id EXCEPT ![word.at] = word.blk] /\ Touch(word.at)
    /\ Done(word.why, word.blk, word.at)
    /\ UNCHANGED <<card, transfer, faults, dirty, bounds>>
Fill ==
    /\ pc = "vacant" /\ word.why # "buffer"
    /\ Vacated
    /\ \/ Start(FALSE, <<Chunk(word.blk, word.at)>>, ram) /\ pc' = "filling"
          /\ UNCHANGED <<word, interpreter>>
       \/ StartRefused /\ Fails
    /\ UNCHANGED <<card, ram, dirty, recent, active, bounds>>
Filled ==
    /\ pc = "filling" /\ Settled
    /\ \/ /\ status = "ok"
          /\ id' = [id EXCEPT ![word.at] = word.blk] /\ Touch(word.at)
          /\ Done(word.why, word.blk, word.at)
       \/ /\ status # "ok" /\ Fails /\ UNCHANGED <<id, recent, active, ram>>
    /\ UNCHANGED <<card, transfer, faults, dirty, bounds>>

(* lfAPI_saveBuffers, from buffer to buffer; FLUSH empties them then. *)
Save ==
    /\ pc = "save"
    /\ \/ /\ \E i \in First(Marked) : word' = Word(word.why, word.blk, i)
          /\ pc' = "sync"
          /\ UNCHANGED <<buffers, ram>>
       \/ /\ Marked = {}
          /\ word' = NoWord /\ pc' = "idle"
          /\ IF word.why = "flush" THEN EmptyAll ELSE UNCHANGED <<buffers, ram>>
    /\ UNCHANGED <<card, transfer, faults, interpreter, bounds>>

-----------------------------------------------------------------------------
(* The words. *)
Block(b) == Running /\ Assign("block", b)
Buffer(b) == Running /\ Assign("buffer", b)
Load(b) == Running /\ Len(callers) < Depth /\ Assign("load", b)
NextBlock == Running /\ source.blk # None /\ source.blk + 1 \in Blocks /\ Assign("next", source.blk + 1)
(* Cells of the active buffer changed, and UPDATE. *)
Update ==
    /\ Running /\ active # None /\ id[active] # None
    /\ edits < MaxEdits /\ edits' = edits + 1
    /\ ram' = [ram EXCEPT ![active] = Content(id[active], edits + 2)]
    /\ dirty' = [dirty EXCEPT ![active] = TRUE]
    /\ UNCHANGED <<card, transfer, faults, id, recent, active, pc, word, interpreter, runs>>
SaveBuffers(why) == /\ Running /\ pc' = "save" /\ word' = Word(why, None, None)
                    /\ UNCHANGED <<cardvars, buffers, interpreter, bounds>>
EmptyBuffers == /\ Running /\ EmptyAll
                /\ UNCHANGED <<card, transfer, faults, pc, word, interpreter, bounds>>

(* read-block and write-block: a run between the card and a program's own
   cells, no waiting. *)
Areas == Places \ Buffers
Runs == {<<Chunk(b, p), Chunk(b + 1, p + 1)>> : b \in {x \in Blocks : x + 1 \in Blocks},
                                                p \in {x \in Areas : x + 1 \in Areas}}
MayRun == /\ Running /\ callers = <<>> /\ id = Unassigned
          /\ runs < MaxRuns /\ runs' = runs + 1
ReadBlock(run) ==
    /\ MayRun
    /\ Start(FALSE, run, ram)
    /\ UNCHANGED <<card, ram, buffers, pc, word, interpreter, edits>>
WriteBlock(run) ==
    /\ MayRun
    /\ edits < MaxEdits /\ edits' = edits + 1
    /\ ram' = [p \in Places |->
                   IF \E c \in ToSet(run) : c.at = p
                     THEN Content((CHOOSE c \in ToSet(run) : c.at = p).blk, edits + 2)
                     ELSE ram[p]]
    /\ Start(TRUE, run, ram')
    /\ UNCHANGED <<card, buffers, pc, word, interpreter>>
(* Any other error: of the Forth, a LOAD too deep, a block past the end, a
   transfer while another is in progress or that the card refuses. *)
Throw == /\ Running /\ ior' = TRUE
         /\ UNCHANGED <<cardvars, buffers, pc, word, source, callers, bounds>>

(* A block's end, or an error in it: LOAD goes back to its caller, whose
   buffer it assigns again. *)
LeftAsIs(b) ==                                  \* mutant: only BLK and the pointer go back
    /\ source' = Chunk(b, source.at) /\ callers' = Front(callers)
    /\ UNCHANGED <<cardvars, buffers, pc, word, ior, bounds>>
CallerAgain(b) == Assign("return", b)
Return ==
    /\ pc = "idle" /\ callers # <<>>
    /\ LET caller == Last(callers) IN
       \/ /\ caller = None
          /\ source' = Terminal /\ callers' = Front(callers)
          /\ UNCHANGED <<cardvars, buffers, pc, word, ior, bounds>>
       \/ caller # None /\ CallerAgain(caller)
(* The line's end: lfInterpret empties the buffers, but not after an error. *)
LineEnds ==
    /\ pc = "idle" /\ callers = <<>>
    /\ \/ ~ior /\ EmptyAll /\ UNCHANGED ior
       \/ ior /\ ior' = FALSE /\ UNCHANGED <<buffers, ram>>
    /\ UNCHANGED <<card, transfer, faults, pc, word, source, callers, bounds>>

-----------------------------------------------------------------------------
Init ==
    /\ InitTransfer
    /\ id = Unassigned /\ dirty = [i \in Buffers |-> FALSE] /\ recent = <<>> /\ active = None
    /\ pc = "idle" /\ word = NoWord
    /\ source = Terminal /\ callers = <<>> /\ ior = FALSE /\ edits = 0 /\ runs = 0

WordStep == Sync \/ Synced \/ TakeBuffer \/ Fill \/ Filled \/ Save
Words == \/ \E b \in Blocks : Block(b) \/ Buffer(b) \/ Load(b)
         \/ NextBlock \/ Update \/ EmptyBuffers
         \/ \E why \in {"save", "flush"} : SaveBuffers(why)
         \/ \E run \in Runs : ReadBlock(run) \/ WriteBlock(run)
         \/ Throw \/ Return \/ LineEnds
Above == <<buffers, pc, word, interpreter, bounds>>
Next == \/ WordStep \/ Words
        \/ (Poll \/ Card \/ Second) /\ UNCHANGED Above
Spec == Init /\ [][Next]_vars

-----------------------------------------------------------------------------
(* Properties. *)

(* UPDATE's mark is kept until the card has the contents, whatever fails: only
   EMPTY-BUFFERS and the end of a line drop it (lfblocks.c:37-46, 82-88,
   198-231; blocks.md:158-167). *)
UpdateKept ==
    [][\A i \in Buffers :
          dirty[i] /\ id[i] # None /\ (~dirty'[i] \/ id'[i] # id[i])
          => \/ card[id[i]] = ram[i]
             \/ pc = "idle" /\ id' = Unassigned]_vars

(* No block ever holds another one's contents, in its buffer or on the card:
   not after a read that failed, an eviction, or a run cut short
   (lfblocks.c:79-124, blocks.c:327-375). *)
OwnData == /\ \A b \in Blocks : card[b].blk = b
           /\ \A i \in Buffers : id[i] # None => ram[i].blk = id[i]

(* The interpreter starts reading, or goes back to, a buffer that holds its
   block, though nested loads and --> reuse buffers: "every level therefore
   finds its own block resident" (forth.c:1215-1222). *)
CallerResident ==
    [][source' # source /\ source'.blk # None /\ ~ior'
       => source'.at \in Buffers /\ id'[source'.at] = source'.blk]_vars

(* What blk_status tells is so: 0 after the whole run went through, and a
   timeout only when the card itself took longer than a step may, however
   late it was asked (blocks.c:213-229, 284-301; blocks.md:223-227). *)
StatusTrue ==
    [][/\ status # "ok" /\ status' = "ok" => \A c \in ToSet(asked) : Moved(c)
       /\ status # "timeout" /\ status' = "timeout" => stalled]_vars

=============================================================================
