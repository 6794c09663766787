--------------------------- MODULE LfBlocksProofs ---------------------------
(***************************************************************************)
(* The properties of LfBlocks for any blocks, buffers, depth of loads,     *)
(* edits, runs and faults.  OwnInv carries whose contents are where; with  *)
(* SyncFits it gives UpdateKept, with Goes what blk_status tells.          *)
(***************************************************************************)
EXTENDS LfBlocks, TLAPS

Known == Blocks \cup {None}
Chunks == [blk : Blocks, at : Places]
Owned == pc \in {"syncing", "filling"}          \* the word's own transfer

(* What the variables hold, as far as the contents depend on it. *)
Shape ==
    /\ DOMAIN card = Blocks /\ DOMAIN ram = Places
    /\ id \in [Buffers -> Known] /\ active \in Buffers \cup {None}
    /\ source.blk \in Known /\ callers \in Seq(Known)

(* A word that has a buffer has it for a block; while it fills it, the buffer
   is nobody's. *)
WordFits ==
    /\ pc \in {"idle", "sync", "syncing", "vacant", "filling", "save"}
    /\ pc = "save" => word.why \in {"save", "flush"}
    /\ pc \notin {"idle", "save"} => word.at \in Buffers
    /\ pc \in {"sync", "syncing"} => word.why \in {"save", "flush"} \/ word.blk \in Blocks
    /\ pc \in {"vacant", "filling"} => word.blk \in Blocks
    /\ pc = "sync" => id[word.at] \in Blocks
    /\ pc = "filling" => id[word.at] = None

(* A transfer is between a block and its own place: the buffer of the word
   that waits for it, or no buffer at all. *)
RunFits ==
    /\ step \in {"idle", "moving", "settling"}
    /\ hw = "going" => step = "moving"
    /\ step # "idle" =>
          /\ chunk \in Chunks /\ left \in Seq(Chunks) /\ writing \in BOOLEAN
          /\ Owned => left = <<>>
          /\ pc = "syncing" => writing
          /\ pc = "filling" => ~writing /\ chunk = Chunk(word.blk, word.at)
          /\ ~Owned => chunk.at \notin Buffers /\ \A k \in DOMAIN left : left[k].at \notin Buffers

(* What is on its way is the right block's. *)
DataFits ==
    /\ step # "idle" /\ writing => \A k \in DOMAIN left : ram[left[k].at].blk = left[k].blk
    /\ step = "moving" /\ (writing \/ hw = "through") => dma_buf.blk = chunk.blk
    /\ pc = "filling" /\ (step = "settling" \/ (step = "idle" /\ status = "ok"))
          => ram[word.at].blk = word.blk

OwnInv == Shape /\ WordFits /\ RunFits /\ DataFits /\ OwnData

-----------------------------------------------------------------------------
LEMMA ConstantFacts ==
    /\ Buffers \subseteq Places /\ None \notin Blocks /\ None \notin Places
    /\ Blocks \subseteq Nat /\ Places \subseteq Nat
BY LfBlocksAssumption

LEMMA FrontType ==
    ASSUME NEW S, NEW s \in Seq(S)
    PROVE  Front(s) \in Seq(S)
BY DEF Front

LEMMA DomainFact ==
    ASSUME NEW S, NEW s \in Seq(S)
    PROVE  DOMAIN s = 1..Len(s)
OBVIOUS

(* The step of a transfer that leaves the words alone. *)
LEMMA SecondKeeps ==
    ASSUME OwnInv, Second, UNCHANGED Above
    PROVE  OwnInv'
BY DEF OwnInv, Shape, WordFits, RunFits, DataFits, OwnData, Owned, Second, Settled,
       Above, buffers, interpreter

(* The end of a transfer. *)
LEMMA IdleKeeps ==
    ASSUME OwnInv, NEW s, NEW mem, Idle(s, mem), UNCHANGED Above,
           DOMAIN card' = Blocks, \A b \in Blocks : card'[b].blk = b,
           \A i \in Buffers : mem[i] = ram[i] \/ id[i] = None,
           s = "ok" => step = "settling" /\ mem = ram
    PROVE  OwnInv'
<1>1. Shape' BY DEF OwnInv, Shape, Idle, Above, buffers, interpreter
<1>2. WordFits' BY DEF OwnInv, WordFits, Above, buffers, interpreter
<1>3. RunFits' BY DEF RunFits, Idle
<1>4. \A i \in Buffers : ram'[i] = mem[i] BY ConstantFacts DEF Idle
<1>5. OwnData' BY <1>4 DEF OwnInv, OwnData, Above, buffers
<1>6. DataFits'
      BY <1>4 DEF OwnInv, WordFits, DataFits, Idle, Above, buffers
<1> QED BY <1>1, <1>2, <1>3, <1>5, <1>6 DEF OwnInv

(* The card's own steps. *)
LEMMA CardKeeps ==
    ASSUME OwnInv, Card, UNCHANGED Above
    PROVE  OwnInv'
<1>1. UNCHANGED <<id, active, source, callers, pc, word, ram, step, status, writing, chunk, left>>
      BY DEF Card, Moves, Breaks, Settles, CardStep, Above, buffers, interpreter
<1>2. CASE Moves
  <2>1. step = "moving" /\ chunk \in Chunks /\ (writing => dma_buf.blk = chunk.blk)
        BY <1>2 DEF Moves, CardStep, OwnInv, RunFits, DataFits
  <2>2. DOMAIN card' = Blocks /\ \A b \in Blocks : card'[b].blk = b
        BY <1>2, <2>1 DEF Moves, OwnInv, OwnData, Shape, Chunks
  <2>3. dma_buf'.blk = chunk.blk
        BY <1>2, <2>1 DEF Moves, OwnInv, OwnData, Chunks
  <2>4. hw' = "through" BY <1>2 DEF Moves, CardStep
  <2> QED BY <1>1, <2>1, <2>2, <2>3, <2>4
          DEF OwnInv, Shape, WordFits, RunFits, DataFits, OwnData, Owned
<1>3. CASE Breaks
  <2>1. DOMAIN card' = Blocks /\ \A b \in Blocks : card'[b].blk = b
        BY <1>3 DEF Breaks, Torn, Half, Content, OwnInv, OwnData, Shape
  <2>2. hw' = "broken" /\ dma_buf' = dma_buf BY <1>3 DEF Breaks, CardStep
  <2> QED BY <1>1, <2>1, <2>2
          DEF OwnInv, Shape, WordFits, RunFits, DataFits, OwnData, Owned
<1>4. CASE Settles
  <2>1. hw' = "ready" /\ UNCHANGED <<card, dma_buf>> BY <1>4 DEF Settles, CardStep
  <2> QED BY <1>1, <2>1 DEF OwnInv, Shape, WordFits, RunFits, DataFits, OwnData, Owned
<1> QED BY <1>2, <1>3, <1>4 DEF Card

(* blk_status, or a word that waits. *)
LEMMA PollKeeps ==
    ASSUME OwnInv, Poll, UNCHANGED Above
    PROVE  OwnInv'
<1>1. UNCHANGED <<id, active, source, callers, pc, word>>
      BY DEF Above, buffers, interpreter
<1>2. DOMAIN card = Blocks /\ \A b \in Blocks : card[b].blk = b
      BY DEF OwnInv, Shape, OwnData
<1>3. CASE PollThrough
  <2> DEFINE mem == IF writing THEN ram ELSE [ram EXCEPT ![chunk.at] = dma_buf]
  <2>1. /\ step = "moving" /\ hw = "through" /\ card' = card
        /\ chunk \in Chunks /\ dma_buf.blk = chunk.blk
        BY <1>3 DEF PollThrough, OwnInv, RunFits, DataFits
  <2>2. \A i \in Buffers : mem[i] = ram[i] \/ id[i] = None
        BY <2>1 DEF OwnInv, RunFits, WordFits, Chunk, Owned
  <2>3. CASE /\ step' = "settling" /\ hw' = "busy" /\ ram' = mem
             /\ UNCHANGED <<status, writing, chunk, left>>
    <3>1. DOMAIN ram' = Places BY <2>3 DEF OwnInv, Shape
    <3>2. Shape' /\ WordFits' /\ OwnData'
          BY <1>1, <2>1, <2>2, <2>3, <3>1 DEF OwnInv, Shape, WordFits, OwnData
    <3>3. RunFits' BY <1>1, <2>1, <2>3 DEF OwnInv, RunFits, Owned
    <3>4. pc = "filling" => ram'[word.at].blk = word.blk
      <4>1. pc = "filling" => ~writing /\ chunk.at = word.at /\ chunk.blk = word.blk
            BY <2>1 DEF OwnInv, RunFits, Chunk
      <4>2. ~writing => ram' = [ram EXCEPT ![chunk.at] = dma_buf] BY <2>3
      <4> QED BY <2>1, <4>1, <4>2 DEF OwnInv, Shape, Chunks
    <3>5. writing => ram' = ram BY <2>3
    <3>6. DataFits'
          BY <1>1, <2>1, <2>3, <3>4, <3>5 DEF OwnInv, DataFits
    <3> QED BY <3>2, <3>3, <3>6 DEF OwnInv
  <2>4. CASE Idle("failed", mem) BY <1>2, <2>1, <2>2, <2>4, IdleKeeps
  <2>5. CASE Idle("failed", ram) BY <1>2, <2>1, <2>5, IdleKeeps
  <2> QED BY <1>3, <2>3, <2>4, <2>5 DEF PollThrough
<1>4. CASE PollBroken BY <1>2, <1>4, IdleKeeps DEF PollBroken
<1>5. CASE PollLate
  <2>1. DOMAIN card' = Blocks /\ \A b \in Blocks : card'[b].blk = b
        BY <1>2, <1>5 DEF PollLate, Torn, Half, Content
  <2> QED BY <1>5, <2>1, IdleKeeps DEF PollLate
<1>6. CASE PollReady
  <2>1. step = "settling" /\ card' = card BY <1>6 DEF PollReady
  <2>2. CASE Over /\ Idle("ok", ram) BY <1>2, <2>1, <2>2, IdleKeeps
  <2>3. CASE ~Over /\ NextChunk(writing, Head(left), Tail(left), ram) /\ ram' = ram
    <3>1. /\ left \in Seq(Chunks) /\ left # <<>> /\ chunk \in Chunks /\ writing \in BOOLEAN
          /\ ~Owned
          BY <2>1, <2>3 DEF OwnInv, RunFits, Over
    <3>2. /\ Head(left) = left[1] /\ left[1] \in Chunks /\ Tail(left) \in Seq(Chunks)
          /\ \A k \in DOMAIN Tail(left) : k + 1 \in DOMAIN left /\ Tail(left)[k] = left[k + 1]
          /\ 1 \in DOMAIN left
          BY <3>1
    <3>3. /\ step' = "moving" /\ writing' = writing /\ chunk' = left[1] /\ left' = Tail(left)
          /\ (writing => dma_buf' = ram[left[1].at]) /\ hw' = "going"
          BY <2>3, <3>2 DEF NextChunk
    <3>4. RunFits'
          BY <1>1, <2>1, <3>1, <3>2, <3>3 DEF OwnInv, RunFits, Owned
    <3>5. DataFits'
          BY <1>1, <2>1, <2>3, <3>1, <3>2, <3>3 DEF OwnInv, DataFits, Owned
    <3>6. Shape' /\ WordFits' /\ OwnData'
          BY <1>1, <2>1, <2>3 DEF OwnInv, Shape, WordFits, OwnData
    <3> QED BY <3>4, <3>5, <3>6 DEF OwnInv
  <2>4. CASE Idle("failed", ram) BY <1>2, <2>1, <2>4, IdleKeeps
  <2> QED BY <1>6, <2>2, <2>3, <2>4 DEF PollReady
<1>7. CASE PollLost BY <1>2, <1>7, IdleKeeps DEF PollLost
<1> QED BY <1>3, <1>4, <1>5, <1>6, <1>7 DEF Poll

-----------------------------------------------------------------------------
(* A transfer goes on while a program's words change the buffers only. *)
LEMMA AreasKeep ==
    ASSUME OwnInv, UNCHANGED transfer, ~Owned \/ step = "idle", pc' \notin {"syncing", "filling"},
           \A p \in Places : p \notin Buffers => ram'[p] = ram[p]
    PROVE  RunFits' /\ DataFits'
<1>1. /\ step' = step /\ hw' = hw /\ chunk' = chunk /\ left' = left /\ writing' = writing
      /\ dma_buf' = dma_buf /\ status' = status
      BY DEF transfer
<1>2. RunFits' BY <1>1 DEF OwnInv, RunFits, Owned
<1>3. ASSUME step # "idle", NEW k \in DOMAIN left
      PROVE  ram'[left[k].at] = ram[left[k].at]
  <2>1. left \in Seq(Chunks) /\ left[k].at \notin Buffers BY <1>3 DEF OwnInv, RunFits
  <2>2. left[k] \in Chunks BY <1>3, <2>1
  <2> QED BY <2>1, <2>2 DEF Chunks
<1>4. DataFits' BY <1>1, <1>3 DEF OwnInv, DataFits
<1> QED BY <1>2, <1>4

(* A word ends with block b in buffer i. *)
LEMMA DoneKeeps ==
    ASSUME OwnInv, NEW why, NEW b \in Blocks, NEW i \in Buffers, Done(why, b, i), Touch(i),
           UNCHANGED <<card, transfer>>, ~Owned \/ step = "idle",
           id' \in [Buffers -> Known],
           \A j \in Buffers : id'[j] = (IF j = i THEN b ELSE id[j]),
           why = "buffer" \/ ram[i].blk = b
    PROVE  OwnInv'
<1>1. /\ step' = step /\ hw' = hw /\ chunk' = chunk /\ left' = left /\ writing' = writing
      /\ dma_buf' = dma_buf /\ status' = status /\ card' = card
      BY DEF transfer
<1>2. pc' = "idle" BY DEF Done
<1>3. \A j \in Places : j \notin Buffers => ram'[j] = ram[j]
      BY DEF Done, OwnInv, Shape
<1>4. ram'[i].blk = b /\ \A j \in Buffers \ {i} : ram'[j] = ram[j]
      BY ConstantFacts DEF Done, OwnInv, Shape, Half, Content
<1>5. Shape'
  <2>1. callers' \in Seq(Known)
        BY FrontType DEF Done, OwnInv, Shape
  <2>2. source'.blk \in Known BY DEF Done, OwnInv, Shape, Known, Chunk
  <2>3. DOMAIN ram' = Places BY DEF Done, OwnInv, Shape
  <2> QED BY <1>1, <2>1, <2>2, <2>3 DEF OwnInv, Shape, Touch
<1>6. WordFits' BY <1>2 DEF WordFits
<1>7. RunFits' /\ DataFits' BY <1>2, <1>3, AreasKeep
<1>8. OwnData' BY <1>1, <1>4 DEF OwnInv, OwnData
<1> QED BY <1>5, <1>6, <1>7, <1>8 DEF OwnInv

(* A word ends with an error, and maybe an emptied buffer. *)
LEMMA FailsKeeps ==
    ASSUME OwnInv, Fails, step = "idle", pc \in {"sync", "syncing", "vacant", "filling"},
           UNCHANGED <<card, ram, transfer, active>>, id' \in [Buffers -> Known],
           \A j \in Buffers : id'[j] \in {id[j], None}
    PROVE  OwnInv'
<1>1. step' = "idle" /\ hw' = hw /\ pc' = "idle" BY DEF transfer, Fails
<1>2. callers' \in Seq(Known) BY FrontType DEF Fails, OwnInv, Shape
<1>3. source'.blk \in Known
      BY DEF Fails, OwnInv, Shape, WordFits, Known, Chunk
<1>4. Shape' BY <1>2, <1>3 DEF OwnInv, Shape
<1>5. WordFits' /\ DataFits' BY <1>1 DEF WordFits, DataFits
<1>6. RunFits' BY <1>1 DEF OwnInv, RunFits
<1>7. OwnData' BY DEF OwnInv, OwnData
<1> QED BY <1>4, <1>5, <1>6, <1>7 DEF OwnInv

LEMMA AssignKeeps ==
    ASSUME OwnInv, NEW why, NEW b \in Blocks, pc = "idle", Assign(why, b)
    PROVE  OwnInv'
<1>1. ASSUME NEW i \in Holding(b), Touch(i), Done(why, b, i), UNCHANGED <<card, transfer, id>>
      PROVE  OwnInv'
  <2>1. i \in Buffers /\ id[i] = b /\ b # None BY <1>1, ConstantFacts DEF Holding
  <2>2. ram[i].blk = b BY <2>1 DEF OwnInv, OwnData
  <2>3. id' \in [Buffers -> Known] /\ \A j \in Buffers : id'[j] = (IF j = i THEN b ELSE id[j])
        BY <1>1, <2>1 DEF OwnInv, Shape
  <2>4. ~Owned BY DEF Owned
  <2> QED BY <1>1, <2>1, <2>2, <2>3, <2>4, DoneKeeps
<1>2. ASSUME NEW i \in Victim, word' = Word(why, b, i),
             pc' = (IF i \in Marked THEN "sync" ELSE "vacant"),
             UNCHANGED <<cardvars, buffers, interpreter>>
      PROVE  OwnInv'
  <2>1. i \in Buffers BY DEF Victim, Holding, First
  <2>2. i \in Marked => id[i] \in Blocks BY <2>1 DEF Marked, OwnInv, Shape, Known
  <2>3. UNCHANGED <<card, ram, id, active, source, callers, step, hw, chunk, left, writing,
                    dma_buf, status>>
        BY <1>2 DEF cardvars, transfer, buffers, interpreter
  <2>4. pc' \in {"sync", "vacant"} /\ word'.at = i /\ word'.blk = b BY <1>2 DEF Word
  <2>5. WordFits' BY <1>2, <2>1, <2>2, <2>3, <2>4 DEF WordFits
  <2>6. Shape' /\ OwnData' BY <2>3 DEF OwnInv, Shape, OwnData
  <2>7. RunFits' /\ DataFits' BY <2>3, <2>4 DEF OwnInv, RunFits, DataFits, Owned
  <2> QED BY <2>5, <2>6, <2>7 DEF OwnInv
<1> QED BY <1>1, <1>2 DEF Assign

(* The buffers emptied, by a word or at a line's end. *)
LEMMA EmptyKeeps ==
    ASSUME OwnInv, EmptyAll, UNCHANGED <<card, transfer, source, callers>>,
           pc \in {"idle", "save"}, pc' = "idle"
    PROVE  OwnInv'
<1>1. id' = Unassigned /\ active' = None BY DEF EmptyAll
<1>2. \A j \in Buffers : id'[j] = None BY <1>1 DEF Unassigned
<1>3. \A p \in Places : p \notin Buffers => ram'[p] = ram[p] BY DEF EmptyAll
<1>4. Shape' BY <1>1 DEF OwnInv, Shape, Unassigned, Known, EmptyAll
<1>5. WordFits' BY DEF WordFits
<1>6. RunFits' /\ DataFits' BY <1>3, AreasKeep DEF Owned
<1>7. OwnData' BY <1>2 DEF OwnInv, OwnData
<1> QED BY <1>4, <1>5, <1>6, <1>7 DEF OwnInv

-----------------------------------------------------------------------------
(* The words' transfers. *)
LEMMA StartShape ==
    ASSUME NEW w \in BOOLEAN, NEW c, NEW mem, Start(w, <<c>>, mem)
    PROVE  /\ step = "idle" /\ step' = "moving" /\ hw' = "going" /\ writing' = w
           /\ chunk' = c /\ left' = <<>>
           /\ w => dma_buf' = mem[c.at]
BY DEF Start, NextChunk, Settled

LEMMA SyncKeeps ==
    ASSUME OwnInv, Sync
    PROVE  OwnInv'
<1>1. /\ pc = "sync" /\ word.at \in Buffers /\ id[word.at] \in Blocks
      /\ UNCHANGED <<card, ram, id, active>>
      BY DEF Sync, OwnInv, WordFits, buffers
<1>2. CASE /\ Start(TRUE, <<Chunk(id[word.at], word.at)>>, ram) /\ pc' = "syncing"
           /\ UNCHANGED <<word, interpreter>>
  <2> DEFINE c == Chunk(id[word.at], word.at)
  <2>1. /\ step' = "moving" /\ hw' = "going" /\ writing' = TRUE /\ chunk' = c /\ left' = <<>>
        /\ dma_buf' = ram[c.at]
        BY <1>2, StartShape
  <2>2. c \in Chunks /\ c.blk = id[word.at] /\ c.at = word.at
        BY <1>1, ConstantFacts DEF Chunk, Chunks
  <2>3. dma_buf'.blk = chunk'.blk
        BY <1>1, <2>1, <2>2, ConstantFacts DEF OwnInv, OwnData
  <2>4. Shape' BY <1>1, <1>2 DEF OwnInv, Shape, interpreter
  <2>5. WordFits' BY <1>1, <1>2 DEF OwnInv, WordFits
  <2>6. RunFits' BY <1>2, <2>1, <2>2 DEF RunFits, Owned
  <2>7. DataFits' BY <1>2, <2>1, <2>3 DEF DataFits
  <2>8. OwnData' BY <1>1 DEF OwnInv, OwnData
  <2> QED BY <2>4, <2>5, <2>6, <2>7, <2>8 DEF OwnInv
<1>3. CASE StartRefused /\ Fails
  <2>1. step = "idle" /\ UNCHANGED transfer BY <1>3 DEF StartRefused, Settled
  <2>2. id' \in [Buffers -> Known] BY <1>1 DEF OwnInv, Shape
  <2> QED BY <1>1, <1>3, <2>1, <2>2, FailsKeeps
<1> QED BY <1>2, <1>3 DEF Sync

LEMMA SyncedKeeps ==
    ASSUME OwnInv, Synced
    PROVE  OwnInv'
<1>1. /\ pc = "syncing" /\ step = "idle" /\ UNCHANGED <<card, ram, transfer, id, active>>
      BY DEF Synced, Settled, cardvars
<1>2. id' \in [Buffers -> Known] BY <1>1 DEF OwnInv, Shape
<1>3. CASE /\ pc' = (IF word.why \in {"save", "flush"} THEN "save" ELSE "vacant")
           /\ UNCHANGED <<word, interpreter>>
  <2>1. WordFits' BY <1>1, <1>3 DEF OwnInv, WordFits
  <2>2. Shape' /\ OwnData' BY <1>1, <1>3 DEF OwnInv, Shape, OwnData, interpreter
  <2>3. RunFits' /\ DataFits' BY <1>1, <1>3, AreasKeep
  <2> QED BY <2>1, <2>2, <2>3 DEF OwnInv
<1>4. CASE Fails BY <1>1, <1>2, <1>4, FailsKeeps
<1> QED BY <1>3, <1>4 DEF Synced

LEMMA TakeBufferKeeps ==
    ASSUME OwnInv, TakeBuffer
    PROVE  OwnInv'
<1>1. /\ pc = "vacant" /\ word.at \in Buffers /\ word.blk \in Blocks
      /\ word.why = "buffer" /\ UNCHANGED <<card, transfer>>
      BY DEF TakeBuffer, OwnInv, WordFits
<1>2. id' = [id EXCEPT ![word.at] = word.blk] /\ Touch(word.at) /\ Done(word.why, word.blk, word.at)
      BY DEF TakeBuffer
<1>3. /\ id' \in [Buffers -> Known]
      /\ \A j \in Buffers : id'[j] = (IF j = word.at THEN word.blk ELSE id[j])
      BY <1>1, <1>2 DEF OwnInv, Shape, Known
<1>4. ~Owned BY <1>1 DEF Owned
<1> QED BY <1>1, <1>2, <1>3, <1>4, DoneKeeps

LEMMA FillKeeps ==
    ASSUME OwnInv, Fill
    PROVE  OwnInv'
<1>1. /\ pc = "vacant" /\ word.at \in Buffers /\ word.blk \in Blocks
      /\ UNCHANGED <<card, ram, active>>
      BY DEF Fill, OwnInv, WordFits
<1>2. /\ id' \in [Buffers -> Known] /\ id'[word.at] = None
      /\ \A j \in Buffers : id'[j] \in {id[j], None}
      BY <1>1 DEF Fill, Vacated, OwnInv, Shape, Known
<1>3. CASE /\ Start(FALSE, <<Chunk(word.blk, word.at)>>, ram) /\ pc' = "filling"
           /\ UNCHANGED <<word, interpreter>>
  <2>1. /\ step' = "moving" /\ hw' = "going" /\ writing' = FALSE /\ left' = <<>>
        /\ chunk' = Chunk(word.blk, word.at)
        BY <1>3, StartShape
  <2>2. Chunk(word.blk, word.at) \in Chunks BY <1>1, ConstantFacts DEF Chunk, Chunks
  <2>3. Shape' BY <1>1, <1>2, <1>3 DEF OwnInv, Shape, interpreter
  <2>4. WordFits' BY <1>1, <1>2, <1>3 DEF OwnInv, WordFits
  <2>5. RunFits'
    <3>1. chunk' \in Chunks /\ left' \in Seq(Chunks) /\ word' = word /\ pc' = "filling"
          BY <1>3, <2>1, <2>2
    <3>2. chunk' = Chunk(word.blk, word.at)' BY <2>1, <3>1
    <3> QED BY <2>1, <3>1, <3>2 DEF RunFits, Owned
  <2>6. DataFits' BY <1>3, <2>1 DEF DataFits
  <2>7. OwnData' BY <1>1, <1>2 DEF OwnInv, OwnData
  <2> QED BY <2>3, <2>4, <2>5, <2>6, <2>7 DEF OwnInv
<1>4. CASE StartRefused /\ Fails
  <2>1. step = "idle" /\ UNCHANGED transfer BY <1>4 DEF StartRefused, Settled
  <2> QED BY <1>1, <1>2, <1>4, <2>1, FailsKeeps
<1> QED BY <1>3, <1>4 DEF Fill

LEMMA FilledKeeps ==
    ASSUME OwnInv, Filled
    PROVE  OwnInv'
<1>1. /\ pc = "filling" /\ step = "idle" /\ word.at \in Buffers /\ word.blk \in Blocks
      /\ UNCHANGED <<card, transfer>>
      BY DEF Filled, Settled, OwnInv, WordFits
<1>2. CASE /\ status = "ok" /\ id' = [id EXCEPT ![word.at] = word.blk] /\ Touch(word.at)
           /\ Done(word.why, word.blk, word.at)
  <2>1. /\ id' \in [Buffers -> Known]
        /\ \A j \in Buffers : id'[j] = (IF j = word.at THEN word.blk ELSE id[j])
        BY <1>1, <1>2 DEF OwnInv, Shape, Known
  <2>2. ram[word.at].blk = word.blk BY <1>1, <1>2 DEF OwnInv, DataFits
  <2> QED BY <1>1, <1>2, <2>1, <2>2, DoneKeeps
<1>3. CASE Fails /\ UNCHANGED <<id, active, ram>>
  <2>1. id' \in [Buffers -> Known] BY <1>3 DEF OwnInv, Shape
  <2> QED BY <1>1, <1>3, <2>1, FailsKeeps
<1> QED BY <1>2, <1>3 DEF Filled

LEMMA SaveKeeps ==
    ASSUME OwnInv, Save
    PROVE  OwnInv'
<1>1. /\ pc = "save" /\ word.why \in {"save", "flush"}
      /\ UNCHANGED <<card, transfer, source, callers>>
      BY DEF Save, OwnInv, WordFits, interpreter
<1>2. ~Owned BY <1>1 DEF Owned
<1>3. ASSUME NEW i \in First(Marked), word' = Word(word.why, word.blk, i), pc' = "sync",
             UNCHANGED <<buffers, ram>>
      PROVE  OwnInv'
  <2>1. i \in Buffers /\ id[i] \in Blocks
        BY DEF First, Marked, OwnInv, Shape, Known
  <2>2. UNCHANGED <<id, active>> BY <1>3 DEF buffers
  <2>3. WordFits' BY <1>1, <1>3, <2>1, <2>2 DEF WordFits, Word
  <2>4. Shape' /\ OwnData' BY <1>1, <1>3, <2>2 DEF OwnInv, Shape, OwnData
  <2>5. RunFits' /\ DataFits' BY <1>1, <1>2, <1>3, AreasKeep
  <2> QED BY <2>3, <2>4, <2>5 DEF OwnInv
<1>4. CASE pc' = "idle" /\ EmptyAll BY <1>1, <1>4, EmptyKeeps
<1>5. CASE pc' = "idle" /\ UNCHANGED <<buffers, ram>>
  <2>1. UNCHANGED <<id, active>> BY <1>5 DEF buffers
  <2>2. WordFits' BY <1>5 DEF WordFits
  <2>3. Shape' /\ OwnData' BY <1>1, <1>5, <2>1 DEF OwnInv, Shape, OwnData
  <2>4. RunFits' /\ DataFits' BY <1>1, <1>2, <1>5, AreasKeep
  <2> QED BY <2>2, <2>3, <2>4 DEF OwnInv
<1> QED BY <1>3, <1>4, <1>5 DEF Save

-----------------------------------------------------------------------------
(* The words themselves. *)
LEMMA UpdateKeeps ==
    ASSUME OwnInv, Update
    PROVE  OwnInv'
<1>1. /\ pc = "idle" /\ active \in Buffers
      /\ UNCHANGED <<card, transfer, id, active, pc, source, callers>>
      BY DEF Update, OwnInv, Shape, Running, interpreter
<1>2. ram' = [ram EXCEPT ![active] = Content(id[active], edits + 2)] BY DEF Update
<1>3. DOMAIN ram' = Places /\ \A p \in Places : p \notin Buffers => ram'[p] = ram[p]
      BY <1>1, <1>2 DEF OwnInv, Shape
<1>4. Shape' BY <1>1, <1>3 DEF OwnInv, Shape
<1>5. WordFits' BY <1>1 DEF WordFits
<1>6. RunFits' /\ DataFits' BY <1>1, <1>3, AreasKeep DEF Owned
<1>7. OwnData' BY <1>1, <1>2, ConstantFacts DEF OwnInv, OwnData, Shape, Content
<1> QED BY <1>4, <1>5, <1>6, <1>7 DEF OwnInv

LEMMA SaveBuffersKeeps ==
    ASSUME OwnInv, NEW why \in {"save", "flush"}, SaveBuffers(why)
    PROVE  OwnInv'
<1>1. /\ pc = "idle" /\ pc' = "save" /\ word' = Word(why, None, None)
      /\ UNCHANGED <<card, ram, transfer, id, active, source, callers>>
      BY DEF SaveBuffers, Running, cardvars, buffers, interpreter
<1>2. WordFits' BY <1>1 DEF WordFits, Word
<1>3. Shape' /\ OwnData' BY <1>1 DEF OwnInv, Shape, OwnData
<1>4. RunFits' /\ DataFits' BY <1>1, AreasKeep DEF Owned
<1> QED BY <1>2, <1>3, <1>4 DEF OwnInv

(* A run is between blocks and the areas of a program. *)
LEMMA RunShape ==
    ASSUME NEW run \in Runs
    PROVE  /\ run \in Seq(Chunks) /\ Len(run) = 2 /\ DOMAIN run = {1, 2}
           /\ \A k \in {1, 2} : run[k].at \in Places \ Buffers
           /\ run[2].at # run[1].at
<1>1. PICK b \in Blocks, p \in Areas :
          b + 1 \in Blocks /\ p + 1 \in Areas /\ run = <<Chunk(b, p), Chunk(b + 1, p + 1)>>
      BY DEF Runs
<1>2. Chunk(b, p) \in Chunks /\ Chunk(b + 1, p + 1) \in Chunks
      BY <1>1 DEF Areas, Chunk, Chunks
<1>3. run \in Seq(Chunks) /\ Len(run) = 2 BY <1>1, <1>2
<1>4. run[1].at = p /\ run[2].at = p + 1 BY <1>1 DEF Chunk
<1>5. p \in Nat BY ConstantFacts DEF Areas
<1> QED BY <1>1, <1>3, <1>4, <1>5 DEF Areas

(* It starts with the contents its blocks are to get. *)
LEMMA RunKeeps ==
    ASSUME OwnInv, NEW w \in BOOLEAN, NEW run \in Runs, NEW mem, Start(w, run, mem), pc = "idle",
           ram' = mem, DOMAIN mem = Places, \A i \in Buffers : mem[i] = ram[i],
           w => \A k \in {1, 2} : mem[run[k].at].blk = run[k].blk,
           UNCHANGED <<card, id, active, pc, source, callers>>
    PROVE  OwnInv'
<1>1. /\ Head(run) = run[1] /\ run[1] \in Chunks
      /\ Tail(run) \in Seq(Chunks) /\ DOMAIN Tail(run) = {1} /\ Tail(run)[1] = run[2]
  <2>1. run \in Seq(Chunks) /\ Len(run) = 2 /\ run # <<>> BY RunShape
  <2>2. Tail(run) \in Seq(Chunks) /\ Len(Tail(run)) = 1 /\ Tail(run)[1] = run[1 + 1] BY <2>1
  <2>3. Head(run) = run[1] /\ run[1] \in Chunks BY <2>1
  <2>4. DOMAIN Tail(run) = 1..1 BY <2>2, DomainFact
  <2>5. 1..1 = {1} OBVIOUS
  <2> QED BY <2>2, <2>3, <2>4, <2>5
<1>2. /\ step' = "moving" /\ hw' = "going" /\ writing' = w /\ chunk' = run[1] /\ left' = Tail(run)
      /\ w => dma_buf' = mem[run[1].at]
      BY <1>1 DEF Start, NextChunk
<1>3. Shape' BY DEF OwnInv, Shape
<1>4. WordFits' BY DEF WordFits
<1>5. RunFits' BY <1>1, <1>2, RunShape DEF RunFits, Owned
<1>6. DataFits' BY <1>1, <1>2 DEF DataFits
<1>7. OwnData' BY DEF OwnInv, OwnData
<1> QED BY <1>3, <1>4, <1>5, <1>6, <1>7 DEF OwnInv

LEMMA ReadBlockKeeps ==
    ASSUME OwnInv, NEW run \in Runs, ReadBlock(run)
    PROVE  OwnInv'
<1>1. pc = "idle" /\ Start(FALSE, run, ram) /\ UNCHANGED <<card, ram, id, active, pc, source, callers>>
      BY DEF ReadBlock, MayRun, Running, buffers, interpreter
<1>2. DOMAIN ram = Places BY DEF OwnInv, Shape
<1> QED BY <1>1, <1>2, RunKeeps

LEMMA WriteBlockKeeps ==
    ASSUME OwnInv, NEW run \in Runs, WriteBlock(run)
    PROVE  OwnInv'
<1>1. /\ pc = "idle" /\ Start(TRUE, run, ram')
      /\ UNCHANGED <<card, id, active, pc, source, callers>>
      BY DEF WriteBlock, MayRun, Running, buffers, interpreter
<1>2. ram' = [p \in Places |->
                IF \E c \in ToSet(run) : c.at = p
                  THEN Content((CHOOSE c \in ToSet(run) : c.at = p).blk, edits + 2)
                  ELSE ram[p]]
      BY DEF WriteBlock
<1>3. ToSet(run) = {run[1], run[2]} BY RunShape DEF ToSet
<1>4. \A i \in Buffers : ram'[i] = ram[i]
      BY <1>2, <1>3, RunShape, ConstantFacts
<1>5. ASSUME NEW k \in {1, 2}
      PROVE  ram'[run[k].at].blk = run[k].blk
  <2>1. run[k] \in ToSet(run) /\ run[k].at \in Places BY <1>3, RunShape
  <2>2. (CHOOSE c \in ToSet(run) : c.at = run[k].at) = run[k]
        BY <1>3, <2>1, RunShape
  <2>3. \E c \in ToSet(run) : c.at = run[k].at BY <2>1
  <2>4. ram'[run[k].at] = Content(run[k].blk, edits + 2) BY <1>2, <2>1, <2>2, <2>3
  <2> QED BY <2>4 DEF Content
<1>6. DOMAIN ram' = Places BY <1>2
<1> QED BY <1>1, <1>4, <1>5, <1>6, RunKeeps

LEMMA ReturnKeeps ==
    ASSUME OwnInv, Return
    PROVE  OwnInv'
<1>1. pc = "idle" /\ callers # <<>> /\ callers \in Seq(Known) BY DEF Return, OwnInv, Shape
<1>2. Last(callers) \in Known BY <1>1 DEF Last
<1>3. CASE Last(callers) # None /\ CallerAgain(Last(callers))
      BY <1>1, <1>2, <1>3, AssignKeeps DEF CallerAgain, Known
<1>4. CASE /\ source' = Terminal /\ callers' = Front(callers)
           /\ UNCHANGED <<cardvars, buffers, pc, word>>
  <2>1. callers' \in Seq(Known) BY <1>1, <1>4, FrontType
  <2>2. source'.blk = None BY <1>4 DEF Terminal, Chunk
  <2>3. UNCHANGED <<card, ram, transfer, id, active, pc>> BY <1>4 DEF cardvars, buffers
  <2>4. Shape' /\ OwnData' BY <2>1, <2>2, <2>3 DEF OwnInv, Shape, OwnData, Known
  <2>5. WordFits' BY <1>1, <2>3 DEF WordFits
  <2>6. RunFits' /\ DataFits' BY <1>1, <2>3, AreasKeep DEF Owned
  <2> QED BY <2>4, <2>5, <2>6 DEF OwnInv
<1> QED BY <1>3, <1>4 DEF Return

(* An error, or a step that changes nothing the contents depend on. *)
LEMMA QuietKeeps ==
    ASSUME OwnInv, UNCHANGED <<cardvars, buffers, pc, word, source, callers>>
    PROVE  OwnInv'
<1>1. UNCHANGED <<card, ram, transfer, id, active, step, status, writing, chunk, left, dma_buf, hw>>
      BY DEF cardvars, buffers, transfer
<1> QED BY <1>1 DEF OwnInv, Shape, WordFits, RunFits, DataFits, OwnData, Owned

LEMMA LineEndsKeeps ==
    ASSUME OwnInv, LineEnds
    PROVE  OwnInv'
<1>1. CASE EmptyAll BY <1>1, EmptyKeeps DEF LineEnds
<1>2. CASE UNCHANGED <<buffers, ram>> BY <1>2, QuietKeeps DEF LineEnds, cardvars
<1> QED BY <1>1, <1>2 DEF LineEnds

-----------------------------------------------------------------------------
LEMMA OwnInit ==
    ASSUME Init
    PROVE  OwnInv
<1>1. /\ card = [b \in Blocks |-> Content(b, 1)] /\ ram = [p \in Places |-> Burned]
      /\ step = "idle" /\ hw = "off" /\ id = Unassigned /\ active = None /\ pc = "idle"
      /\ source = Terminal /\ callers = <<>>
      BY DEF Init, InitTransfer
<1>2. Shape BY <1>1 DEF Shape, Unassigned, Known, Terminal, Chunk
<1>3. WordFits /\ RunFits /\ DataFits BY <1>1 DEF WordFits, RunFits, DataFits, Owned
<1>4. OwnData BY <1>1 DEF OwnData, Unassigned, Content
<1> QED BY <1>2, <1>3, <1>4 DEF OwnInv

LEMMA WordsKeep ==
    ASSUME OwnInv, Words
    PROVE  OwnInv'
<1>1. ASSUME NEW b \in Blocks, Block(b) \/ Buffer(b) \/ Load(b)
      PROVE  OwnInv'
      BY <1>1, AssignKeeps DEF Block, Buffer, Load, Running
<1>2. CASE NextBlock BY <1>2, AssignKeeps DEF NextBlock, Running
<1>3. CASE Update BY <1>3, UpdateKeeps
<1>4. CASE EmptyBuffers BY <1>4, EmptyKeeps DEF EmptyBuffers, Running, interpreter
<1>5. ASSUME NEW why \in {"save", "flush"}, SaveBuffers(why)
      PROVE  OwnInv'
      BY <1>5, SaveBuffersKeeps
<1>6. ASSUME NEW run \in Runs, ReadBlock(run) \/ WriteBlock(run)
      PROVE  OwnInv'
      BY <1>6, ReadBlockKeeps, WriteBlockKeeps
<1>7. CASE Throw BY <1>7, QuietKeeps DEF Throw
<1>8. CASE Return BY <1>8, ReturnKeeps
<1>9. CASE LineEnds BY <1>9, LineEndsKeeps
<1> QED BY <1>1, <1>2, <1>3, <1>4, <1>5, <1>6, <1>7, <1>8, <1>9 DEF Words

LEMMA NextKeeps ==
    ASSUME OwnInv, [Next]_vars
    PROVE  OwnInv'
<1>1. CASE WordStep
      BY <1>1, SyncKeeps, SyncedKeeps, TakeBufferKeeps, FillKeeps, FilledKeeps, SaveKeeps DEF WordStep
<1>2. CASE Words BY <1>2, WordsKeep
<1>3. CASE (Poll \/ Card \/ Second) /\ UNCHANGED Above
      BY <1>3, PollKeeps, CardKeeps, SecondKeeps
<1>4. CASE UNCHANGED vars BY <1>4, QuietKeeps DEF vars, interpreter
<1> QED BY <1>1, <1>2, <1>3, <1>4 DEF Next

(* No step of the words, of a transfer, of the card or of time lets a block
   hold another one's contents (lfblocks.c:79-124, blocks.c:327-375). *)
THEOREM BlocksOwnData == Spec => []OwnData
<1>1. Init => OwnInv BY OwnInit
<1>2. OwnInv /\ [Next]_vars => OwnInv' BY NextKeeps
<1>3. OwnInv => OwnData BY DEF OwnInv
<1> QED BY <1>1, <1>2, <1>3, PTL DEF Spec

-----------------------------------------------------------------------------
(* A buffer that is written has its block's contents on the card as soon as
   the data is through; one that is to be filled is not marked. *)
SyncFits ==
    /\ dirty \in [Buffers -> BOOLEAN]
    /\ pc \in {"vacant", "filling"} => word.at \notin Marked
    /\ pc = "syncing" =>
          /\ id[word.at] \in Blocks
          /\ step # "idle" => chunk.blk = id[word.at]
          /\ step = "moving" => dma_buf = ram[word.at]
          /\ \/ step = "moving" /\ hw = "through"
             \/ step = "settling"
             \/ step = "idle" /\ status = "ok"
             => card[id[word.at]] = ram[word.at]

KeepInv == OwnInv /\ SyncFits
Keeps(i) == dirty[i] /\ id[i] # None /\ (~dirty'[i] \/ id'[i] # id[i])
            => card[id[i]] = ram[i] \/ (pc = "idle" /\ id' = Unassigned)
Kept == SyncFits' /\ \A i \in Buffers : Keeps(i)

(* Steps after which no word waits for a transfer or a free buffer. *)
LEMMA RestKeeps ==
    ASSUME KeepInv, pc' \in {"idle", "save", "sync"}, UNCHANGED <<dirty, id>>
    PROVE  Kept
BY DEF KeepInv, SyncFits, Kept, Keeps

LEMMA EmptyRests ==
    ASSUME KeepInv, pc' = "idle", EmptyAll, pc = "idle" \/ Marked = {}
    PROVE  Kept
BY DEF KeepInv, SyncFits, Kept, Keeps, EmptyAll, Marked

LEMMA CardSyncs ==
    ASSUME KeepInv, Card, UNCHANGED Above
    PROVE  Kept
<1>1. UNCHANGED <<id, dirty, pc, word, ram, step, status, writing, chunk>>
      BY DEF Card, Moves, Breaks, Settles, CardStep, Above, buffers
<1>2. \A i \in Buffers : Keeps(i) BY <1>1 DEF Keeps
<1>3. SUFFICES ASSUME pc = "syncing" PROVE SyncFits'
      BY <1>1, <1>2 DEF KeepInv, SyncFits, Kept, Marked
<1>4. CASE Moves
  <2>1. step = "moving" /\ hw' = "through" /\ writing
        BY <1>3, <1>4 DEF Moves, CardStep, KeepInv, OwnInv, RunFits
  <2>2. card' = [card EXCEPT ![chunk.blk] = dma_buf] /\ dma_buf' = dma_buf
        BY <1>4, <2>1 DEF Moves
  <2>3. card'[id[word.at]] = ram[word.at]
        BY <1>3, <2>1, <2>2 DEF KeepInv, SyncFits, OwnInv, Shape
  <2> QED BY <1>1, <1>3, <2>1, <2>2, <2>3 DEF KeepInv, SyncFits
<1>5. CASE Breaks
  <2>1. step = "moving" /\ hw' = "broken" /\ dma_buf' = dma_buf
        BY <1>5 DEF Breaks, CardStep, KeepInv, OwnInv, RunFits
  <2> QED BY <1>1, <1>3, <2>1 DEF KeepInv, SyncFits
<1>6. CASE Settles
  <2>1. hw' = "ready" /\ UNCHANGED <<card, dma_buf>> BY <1>6 DEF Settles, CardStep
  <2> QED BY <1>1, <1>3, <2>1 DEF KeepInv, SyncFits
<1> QED BY <1>4, <1>5, <1>6 DEF Card

LEMMA PollSyncs ==
    ASSUME KeepInv, Poll, UNCHANGED Above
    PROVE  Kept
<1>1. UNCHANGED <<id, dirty, pc, word>> BY DEF Above, buffers
<1>2. \A i \in Buffers : Keeps(i) BY <1>1 DEF Keeps
<1>3. SUFFICES ASSUME pc = "syncing" PROVE SyncFits'
      BY <1>1, <1>2 DEF KeepInv, SyncFits, Kept, Marked
<1>4. word.at \in Buffers /\ id[word.at] \in Blocks
      BY <1>3 DEF KeepInv, SyncFits, OwnInv, WordFits
<1>5. ASSUME NEW s, NEW mem, s # "ok", Idle(s, mem)
      PROVE  SyncFits'
      BY <1>1, <1>3, <1>5 DEF Idle, KeepInv, SyncFits
<1>6. CASE PollThrough
  <2>1. step = "moving" /\ hw = "through" /\ writing /\ card' = card
        BY <1>3, <1>6 DEF PollThrough, KeepInv, OwnInv, RunFits
  <2>2. CASE step' = "settling" /\ hw' = "busy" /\ ram' = ram /\ UNCHANGED <<status, chunk>>
        BY <1>1, <1>3, <2>1, <2>2 DEF KeepInv, SyncFits
  <2> QED BY <1>5, <1>6, <2>1, <2>2 DEF PollThrough
<1>7. CASE PollReady
  <2>1. step = "settling" /\ card' = card /\ left = <<>>
        BY <1>3, <1>7 DEF PollReady, KeepInv, OwnInv, RunFits, Owned
  <2>2. CASE Idle("ok", ram)
    <3>1. ram'[word.at] = ram[word.at] /\ step' = "idle"
          BY <1>4, <2>2, ConstantFacts DEF Idle
    <3> QED BY <1>1, <1>3, <2>1, <3>1 DEF KeepInv, SyncFits
  <2> QED BY <1>5, <1>7, <2>1, <2>2 DEF PollReady, Over
<1> QED BY <1>5, <1>6, <1>7 DEF Poll, PollBroken, PollLate, PollLost

LEMMA WordStepSyncs ==
    ASSUME KeepInv, WordStep
    PROVE  Kept
<1>1. pc \notin {"idle", "save"} => word.at \in Buffers BY DEF KeepInv, OwnInv, WordFits
<1>2. CASE Sync
  <2>1. pc = "sync" /\ UNCHANGED <<dirty, id, ram, card>> BY <1>2 DEF Sync, buffers
  <2>2. CASE Start(TRUE, <<Chunk(id[word.at], word.at)>>, ram) /\ pc' = "syncing" /\ word' = word
    <3>1. /\ step' = "moving" /\ hw' = "going" /\ chunk' = Chunk(id[word.at], word.at)
          /\ dma_buf' = ram[Chunk(id[word.at], word.at).at]
          BY <2>2, StartShape
    <3>2. chunk'.blk = id[word.at] /\ dma_buf' = ram[word.at] BY <3>1 DEF Chunk
    <3>3. id[word.at] \in Blocks BY <2>1 DEF KeepInv, OwnInv, WordFits
    <3> QED BY <2>1, <2>2, <3>1, <3>2, <3>3 DEF KeepInv, SyncFits, Kept, Keeps
  <2> QED BY <1>2, <2>1, <2>2, RestKeeps DEF Sync, Fails
<1>3. CASE Synced
  <2>1. pc = "syncing" /\ step = "idle" /\ UNCHANGED <<card, ram, id>>
        BY <1>3 DEF Synced, Settled, cardvars
  <2>2. CASE /\ status = "ok" /\ dirty' = [dirty EXCEPT ![word.at] = FALSE]
             /\ pc' \in {"save", "vacant"} /\ word' = word
    <3>1. card[id[word.at]] = ram[word.at] BY <2>1, <2>2 DEF KeepInv, SyncFits
    <3>2. dirty' \in [Buffers -> BOOLEAN] /\ ~dirty'[word.at] BY <1>1, <2>1, <2>2 DEF KeepInv, SyncFits
    <3>3. word'.at \notin Marked' BY <2>2, <3>2 DEF Marked
    <3>4. SyncFits' BY <2>2, <3>2, <3>3 DEF SyncFits
    <3>5. \A i \in Buffers : Keeps(i) BY <2>1, <2>2, <3>1 DEF Keeps, KeepInv, SyncFits
    <3> QED BY <3>4, <3>5 DEF Kept
  <2> QED BY <1>3, <2>1, <2>2, RestKeeps DEF Synced, Written, Fails
<1>4. ASSUME pc \in {"vacant", "filling"}, pc' \in {"idle", "filling"}, dirty' = dirty,
             id' \in [Buffers -> Known], pc' = "filling" => id'[word.at] = None /\ word' = word,
             \A j \in Buffers : j # word.at => id'[j] = id[j]
      PROVE  Kept
      BY <1>1, <1>4 DEF KeepInv, SyncFits, Kept, Keeps, Marked
<1>5. pc = "vacant" => word.at \in Buffers /\ word.blk \in Known
      BY DEF KeepInv, OwnInv, WordFits, Known
<1>6. pc = "filling" => word.at \in Buffers /\ word.blk \in Known
      BY DEF KeepInv, OwnInv, WordFits, Known
<1>7. id \in [Buffers -> Known] /\ None \in Known BY DEF KeepInv, OwnInv, Shape, Known
<1>8. CASE TakeBuffer BY <1>4, <1>5, <1>7, <1>8 DEF TakeBuffer, Done
<1>9. CASE Fill BY <1>4, <1>5, <1>7, <1>9 DEF Fill, Vacated, Fails
<1>10. CASE Filled BY <1>4, <1>6, <1>7, <1>10 DEF Filled, Done, Fails
<1>11. CASE Save
  <2>1. CASE pc' = "sync" /\ UNCHANGED buffers BY <2>1, RestKeeps DEF buffers
  <2>2. CASE Marked = {} /\ pc' = "idle" /\ EmptyAll BY <2>2, EmptyRests
  <2>3. CASE pc' = "idle" /\ UNCHANGED buffers BY <2>3, RestKeeps DEF buffers
  <2> QED BY <1>11, <2>1, <2>2, <2>3 DEF Save
<1> QED BY <1>2, <1>3, <1>8, <1>9, <1>10, <1>11 DEF WordStep

LEMMA WordsSync ==
    ASSUME KeepInv, Words
    PROVE  Kept
<1>1. ASSUME NEW why, NEW b, pc = "idle", Assign(why, b)
      PROVE  Kept
  <2>1. UNCHANGED <<id, dirty>> BY <1>1 DEF Assign, buffers
  <2>2. CASE pc' = "idle" BY <2>1, <2>2, RestKeeps
  <2>3. ASSUME NEW i \in Victim, word' = Word(why, b, i),
               pc' = (IF i \in Marked THEN "sync" ELSE "vacant")
        PROVE  Kept
    <3>1. Marked' = Marked /\ word'.at = i BY <2>1, <2>3 DEF Marked, Word
    <3> QED BY <2>1, <2>3, <3>1 DEF KeepInv, SyncFits, Kept, Keeps
  <2> QED BY <1>1, <2>2, <2>3 DEF Assign, Done
<1>2. CASE Update
      BY <1>2 DEF Update, Running, KeepInv, SyncFits, Kept, Keeps
<1>3. CASE EmptyBuffers BY <1>3, EmptyRests DEF EmptyBuffers, Running
<1>4. ASSUME NEW why \in {"save", "flush"}, SaveBuffers(why)
      PROVE  Kept
      BY <1>4, RestKeeps DEF SaveBuffers, buffers
<1>5. ASSUME NEW run \in Runs, ReadBlock(run) \/ WriteBlock(run)
      PROVE  Kept
      BY <1>5, RestKeeps DEF ReadBlock, WriteBlock, MayRun, Running, buffers
<1>6. CASE Throw BY <1>6, RestKeeps DEF Throw, Running, buffers
<1>7. CASE Return BY <1>1, <1>7, RestKeeps DEF Return, CallerAgain, buffers
<1>8. CASE LineEnds BY <1>8, RestKeeps, EmptyRests DEF LineEnds, buffers
<1> QED BY <1>1, <1>2, <1>3, <1>4, <1>5, <1>6, <1>7, <1>8
        DEF Words, Block, Buffer, Load, NextBlock, Running

LEMMA SyncInit ==
    ASSUME Init
    PROVE  SyncFits
BY DEF Init, SyncFits

LEMMA NextSyncs ==
    ASSUME KeepInv, [Next]_vars
    PROVE  Kept
<1>1. CASE WordStep BY <1>1, WordStepSyncs
<1>2. CASE Words BY <1>2, WordsSync
<1>3. CASE Poll /\ UNCHANGED Above BY <1>3, PollSyncs
<1>4. CASE Card /\ UNCHANGED Above BY <1>4, CardSyncs
<1>5. CASE Second /\ UNCHANGED Above
      BY <1>5 DEF Second, Settled, Above, buffers, KeepInv, SyncFits, Kept, Keeps, Marked
<1>6. CASE UNCHANGED vars
      BY <1>6 DEF vars, cardvars, transfer, buffers, KeepInv, SyncFits, Kept, Keeps, Marked
<1> QED BY <1>1, <1>2, <1>3, <1>4, <1>5, <1>6 DEF Next

(* UPDATE's mark is kept until the card has the buffer's contents, whatever
   commands or transfers fail: only EMPTY-BUFFERS and the end of a line drop
   it (lfblocks.c:37-46, 82-88, 198-231). *)
THEOREM BlocksUpdateKept == Spec => UpdateKept
<1>1. Init => KeepInv BY OwnInit, SyncInit DEF KeepInv
<1>2. KeepInv /\ [Next]_vars => KeepInv' BY NextKeeps, NextSyncs DEF KeepInv, Kept
<1>3. KeepInv /\ [Next]_vars
      => [\A i \in Buffers :
            dirty[i] /\ id[i] # None /\ (~dirty'[i] \/ id'[i] # id[i])
            => \/ card[id[i]] = ram[i]
               \/ pc = "idle" /\ id' = Unassigned]_vars
      BY NextSyncs DEF Kept, Keeps
<1> QED BY <1>1, <1>2, <1>3, PTL DEF Spec, UpdateKept

-----------------------------------------------------------------------------
(* Where the interpreter reads next. *)
Resident == source' # source /\ source'.blk # None /\ ~ior'
            => source'.at \in Buffers /\ id'[source'.at] = source'.blk

LEMMA DoneResides ==
    ASSUME NEW why, NEW b, NEW i \in Buffers, Done(why, b, i), id'[i] = b
    PROVE  Resident
BY DEF Done, Chunk, Resident

LEMMA AssignResides ==
    ASSUME NEW why, NEW b, Assign(why, b)
    PROVE  Resident
<1>1. ASSUME NEW i \in Holding(b), Done(why, b, i), id' = id
      PROVE  Resident
  <2>1. i \in Buffers /\ id'[i] = b BY <1>1 DEF Holding
  <2> QED BY <1>1, <2>1, DoneResides
<1>2. CASE UNCHANGED interpreter BY <1>2 DEF interpreter, Resident
<1> QED BY <1>1, <1>2 DEF Assign

LEMMA NextResides ==
    ASSUME OwnInv, [Next]_vars
    PROVE  Resident
<1>1. CASE UNCHANGED source BY <1>1 DEF Resident
<1>2. CASE Fails BY <1>2 DEF Fails, Resident
<1>3. ASSUME pc \in {"vacant", "filling"}, id' = [id EXCEPT ![word.at] = word.blk],
             Done(word.why, word.blk, word.at)
      PROVE  Resident
  <2>1. word.at \in Buffers /\ id \in [Buffers -> Known] BY <1>3 DEF OwnInv, Shape, WordFits
  <2> QED BY <1>3, <2>1, DoneResides
<1>4. CASE WordStep
      BY <1>1, <1>2, <1>3, <1>4
      DEF WordStep, Sync, Synced, TakeBuffer, Fill, Filled, Save, interpreter
<1>5. CASE Return
  <2>1. CASE source' = Terminal BY <2>1 DEF Terminal, Chunk, Resident
  <2> QED BY <1>5, <2>1, AssignResides DEF Return, CallerAgain
<1>6. CASE Words
      BY <1>1, <1>5, <1>6, AssignResides
      DEF Words, Block, Buffer, Load, NextBlock, Update, EmptyBuffers, SaveBuffers, ReadBlock,
          WriteBlock, Throw, LineEnds, interpreter
<1>7. CASE UNCHANGED Above BY <1>1, <1>7 DEF Above, interpreter
<1>8. CASE UNCHANGED vars BY <1>1, <1>8 DEF vars, interpreter
<1> QED BY <1>4, <1>6, <1>7, <1>8 DEF Next

(* LOAD, --> and the return from a LOAD leave the interpreter reading a buffer
   that holds the block it is in, however many levels reused its buffers
   (forth.c:1215-1222, lfblocks.c:96-124). *)
THEOREM BlocksCallerResident == Spec => CallerResident
<1>1. Init => OwnInv BY OwnInit
<1>2. OwnInv /\ [Next]_vars => OwnInv' BY NextKeeps
<1>3. OwnInv /\ [Next]_vars
      => [source' # source /\ source'.blk # None /\ ~ior'
            => source'.at \in Buffers /\ id'[source'.at] = source'.blk]_vars
      BY NextResides DEF Resident
<1> QED BY <1>1, <1>2, <1>3, PTL DEF Spec, CallerResident

-----------------------------------------------------------------------------
(* A run: its chunks are apart from each other, each is moved, moving or still
   to come, and a second is counted from a step's own start. *)
Apart(c, d) == c.at # d.at /\ c.blk # d.blk
Going ==
    /\ ToSet(asked) \subseteq Chunks /\ chunk \in ToSet(asked)
    /\ \A k \in DOMAIN left : left[k] \in ToSet(asked)
    /\ \A c, d \in ToSet(asked) : c # d => Apart(c, d)
    /\ ~Owned => \A c \in ToSet(asked) : c.at \notin Buffers
    /\ \A c \in ToSet(asked) : c = chunk \/ (\E k \in DOMAIN left : left[k] = c) \/ Moved(c)
    /\ step = "settling" => Moved(chunk)
    /\ step = "moving" /\ writing => dma_buf = ram[chunk.at]
    /\ step = "moving" /\ hw = "through" => dma_buf = card[chunk.blk]
Goes == /\ step # "idle" => Going
        /\ late /\ hw \in {"going", "busy"} => stalled
        /\ hw \in {"off", "going", "through", "broken", "busy", "ready"}
        /\ hw = "busy" => step = "settling"

GoInv == OwnInv /\ Goes
Told == /\ status # "ok" /\ status' = "ok" => \A c \in ToSet(asked) : Moved(c)
        /\ status # "timeout" /\ status' = "timeout" => stalled

(* What a program does while a transfer goes on, and how one starts. *)
Calm == /\ UNCHANGED <<card, transfer>> /\ (~Owned \/ step = "idle")
        /\ pc' \notin {"syncing", "filling"}
        /\ \A p \in Places : p \notin Buffers => ram'[p] = ram[p]
Begins(w, run) ==
    /\ Start(w, run, ram')
    /\ \/ run \in Runs
       \/ /\ pc' \in {"syncing", "filling"}
          /\ \E b \in Blocks, i \in Buffers : run = <<Chunk(b, i)>>

LEMMA CalmGoes ==
    ASSUME GoInv, Calm
    PROVE  Goes' /\ Told
<1>1. /\ step' = step /\ hw' = hw /\ chunk' = chunk /\ left' = left /\ writing' = writing
      /\ dma_buf' = dma_buf /\ status' = status /\ late' = late /\ stalled' = stalled
      /\ asked' = asked /\ card' = card
      BY DEF Calm, transfer
<1>2. ASSUME step # "idle"
      PROVE  Going'
  <2>1. ~Owned /\ ~Owned' BY <1>2 DEF Calm, Owned
  <2>2. \A c \in ToSet(asked) : c.at \in Places /\ ram'[c.at] = ram[c.at]
        BY <1>2, <2>1 DEF GoInv, Goes, Going, Calm, Chunks
  <2> QED BY <1>1, <1>2, <2>1, <2>2 DEF GoInv, Goes, Going, Moved
<1>3. Goes' BY <1>1, <1>2 DEF GoInv, Goes
<1> QED BY <1>1, <1>3 DEF Told

LEMMA BeginGoes ==
    ASSUME GoInv, NEW w \in BOOLEAN, NEW run, Begins(w, run)
    PROVE  Goes' /\ Told
<1>1. /\ asked' = run /\ step' = "moving" /\ hw' = "going" /\ writing' = w /\ late' = FALSE
      /\ chunk' = Head(run) /\ left' = Tail(run) /\ (w => dma_buf' = ram'[Head(run).at])
      /\ status' \in {"reading", "writing"}
      BY DEF Begins, Start, NextChunk, Starts
<1>2. CASE run \in Runs
  <2>1. PICK b \in Blocks, p \in Areas :
            b + 1 \in Blocks /\ p + 1 \in Areas /\ run = <<Chunk(b, p), Chunk(b + 1, p + 1)>>
        BY <1>2 DEF Runs
  <2> DEFINE c1 == Chunk(b, p)
             c2 == Chunk(b + 1, p + 1)
  <2>2. /\ c1 \in Chunks /\ c2 \in Chunks /\ Apart(c1, c2) /\ Apart(c2, c1)
        /\ c1.at \notin Buffers /\ c2.at \notin Buffers
        BY <2>1, ConstantFacts DEF Areas, Chunk, Chunks, Apart
  <2>3. ToSet(run) = {c1, c2} /\ Head(run) = c1 /\ Tail(run) = <<c2>> BY <2>1 DEF ToSet
  <2> HIDE DEF c1, c2
  <2>4. 1 \in DOMAIN Tail(run) /\ \A k \in DOMAIN Tail(run) : Tail(run)[k] = c2
    <3>1. <<c2>> \in Seq(Chunks) /\ Len(<<c2>>) = 1 /\ <<c2>>[1] = c2 BY <2>2
    <3>2. DOMAIN <<c2>> = 1..1 BY <3>1, DomainFact
    <3>3. 1..1 = {1} OBVIOUS
    <3>4. Tail(run) = <<c2>> BY <2>3
    <3> QED BY <3>1, <3>2, <3>3, <3>4
  <2>5. Going' BY <1>1, <2>2, <2>3, <2>4 DEF Going, Moved
  <2> QED BY <1>1, <2>5 DEF Goes, Told
<1>3. ASSUME NEW b \in Blocks, NEW i \in Buffers, run = <<Chunk(b, i)>>,
             pc' \in {"syncing", "filling"}
      PROVE  Goes' /\ Told
  <2> DEFINE c == Chunk(b, i)
  <2>1. c \in Chunks BY <1>3, ConstantFacts DEF Chunk, Chunks
  <2>2. ToSet(run) = {c} /\ Head(run) = c /\ Tail(run) = <<>> BY <1>3 DEF ToSet
  <2> HIDE DEF c
  <2>3. DOMAIN Tail(run) = {} BY <2>2
  <2>4. Going' BY <1>1, <1>3, <2>1, <2>2, <2>3 DEF Going, Moved, Owned
  <2> QED BY <1>1, <2>4 DEF Goes, Told
<1> QED BY <1>2, <1>3 DEF Begins

LEMMA CardGoes ==
    ASSUME GoInv, Card, UNCHANGED Above
    PROVE  Goes' /\ Told
<1>1. UNCHANGED <<pc, ram, step, status, writing, chunk, left, late, stalled, asked>>
      BY DEF Card, Moves, Breaks, Settles, CardStep, Above
<1>2. CASE Moves
  <2>1. step = "moving" /\ hw' = "through" /\ writing \in BOOLEAN
        BY <1>2 DEF Moves, CardStep, GoInv, OwnInv, RunFits
  <2>2. CASE writing
    <3>1. card' = [card EXCEPT ![chunk.blk] = dma_buf] /\ dma_buf' = dma_buf
          BY <1>2, <2>2 DEF Moves
    <3>2. chunk.blk \in DOMAIN card
          BY <2>1 DEF GoInv, Goes, Going, Chunks, OwnInv, Shape
    <3>3. \A c \in ToSet(asked) : c # chunk => card'[c.blk] = card[c.blk]
          BY <2>1, <3>1, <3>2 DEF GoInv, Goes, Going, Apart
    <3>4. Going'
          BY <1>1, <2>1, <2>2, <3>1, <3>2, <3>3 DEF GoInv, Goes, Going, Moved, Owned
    <3> QED BY <1>1, <2>1, <3>4 DEF Goes, Told, GoInv
  <2>3. CASE ~writing
    <3>1. card' = card /\ dma_buf' = card[chunk.blk] BY <1>2, <2>3 DEF Moves
    <3>2. Going' BY <1>1, <2>1, <2>3, <3>1 DEF GoInv, Goes, Going, Moved, Owned
    <3> QED BY <1>1, <2>1, <3>2 DEF Goes, Told, GoInv
  <2> QED BY <2>2, <2>3
<1>3. CASE Breaks
  <2>1. step = "moving" /\ hw' = "broken" /\ dma_buf' = dma_buf
        BY <1>3 DEF Breaks, CardStep, GoInv, OwnInv, RunFits
  <2>2. \A c \in ToSet(asked) : c # chunk => card'[c.blk] = card[c.blk]
    <3>1. Going BY <2>1 DEF GoInv, Goes
    <3>2. card' \in Torn BY <1>3 DEF Breaks
    <3>3. \/ card' = card
          \/ card' = [card EXCEPT ![chunk.blk] = Half(@.blk)]
          BY <3>2 DEF Torn
    <3>4. \A c \in ToSet(asked) : c.blk \in DOMAIN card BY <3>1 DEF Going, Chunks, GoInv, OwnInv, Shape
    <3> QED BY <3>1, <3>3, <3>4 DEF Going, Apart
  <2>3. ~writing => card' = card BY <1>3 DEF Breaks, Torn
  <2>4. Going' BY <1>1, <2>1, <2>2, <2>3 DEF GoInv, Goes, Going, Moved, Owned
  <2> QED BY <1>1, <2>1, <2>4 DEF Goes, Told, GoInv
<1>4. CASE Settles
  <2>1. hw = "busy" /\ hw' = "ready" /\ UNCHANGED <<card, dma_buf>> BY <1>4 DEF Settles, CardStep
  <2>2. step = "settling" BY <2>1 DEF GoInv, Goes
  <2>3. Going' BY <1>1, <2>1, <2>2 DEF GoInv, Goes, Going, Moved, Owned
  <2> QED BY <1>1, <2>1, <2>2, <2>3 DEF Goes, Told, GoInv
<1> QED BY <1>2, <1>3, <1>4 DEF Card

LEMMA PollGoes ==
    ASSUME GoInv, Poll, UNCHANGED Above
    PROVE  Goes' /\ Told
<1>1. pc' = pc BY DEF Above
<1>2. ASSUME NEW s, NEW mem, Idle(s, mem),
             s = "ok" => \A c \in ToSet(asked) : Moved(c),
             s = "timeout" => stalled
      PROVE  Goes' /\ Told
      BY <1>2 DEF Idle, Starts, Goes, Told
<1>3. CASE PollThrough
  <2> DEFINE mem == IF writing THEN ram ELSE [ram EXCEPT ![chunk.at] = dma_buf]
  <2>1. /\ step = "moving" /\ hw = "through" /\ card' = card /\ Going
        /\ writing \in BOOLEAN /\ chunk.at \in DOMAIN ram
        BY <1>3 DEF PollThrough, GoInv, Goes, Going, OwnInv, Shape, RunFits, Chunks
  <2>2. CASE /\ step' = "settling" /\ hw' = "busy" /\ ram' = mem /\ late' = FALSE
             /\ UNCHANGED <<status, writing, chunk, left, asked>>
    <3>1. Moved(chunk)' BY <2>1, <2>2 DEF Moved, Going, GoInv, OwnInv
    <3>2. \A c \in ToSet(asked) : c # chunk => ram'[c.at] = ram[c.at]
          BY <2>1, <2>2 DEF Going, Apart
    <3>3. Going' BY <1>1, <2>1, <2>2, <3>1, <3>2 DEF Going, Moved, Owned
    <3> QED BY <2>2, <3>3 DEF Goes, Told
  <2> QED BY <1>2, <1>3, <2>2 DEF PollThrough, StartedNow, Starts
<1>4. CASE PollBroken BY <1>2, <1>4 DEF PollBroken
<1>5. CASE PollLate BY <1>2, <1>5 DEF PollLate, GoInv, Goes
<1>6. CASE PollReady
  <2>1. step = "settling" /\ card' = card /\ Going BY <1>6 DEF PollReady, GoInv, Goes
  <2>2. CASE Over /\ Idle("ok", ram)
    <3>1. \A c \in ToSet(asked) : Moved(c) BY <2>1, <2>2 DEF Going, Over
    <3> QED BY <1>2, <2>2, <3>1
  <2>3. CASE /\ ~Over /\ NextChunk(writing, Head(left), Tail(left), ram)
             /\ UNCHANGED <<ram, asked>>
    <3>1. left \in Seq(Chunks) /\ left # <<>> /\ writing \in BOOLEAN
          BY <2>1, <2>3 DEF GoInv, OwnInv, RunFits, Over
    <3>2. /\ Head(left) = left[1] /\ 1 \in DOMAIN left
          /\ \A k \in DOMAIN Tail(left) : k + 1 \in DOMAIN left /\ Tail(left)[k] = left[k + 1]
          /\ \A k \in DOMAIN left : k = 1 \/ (k - 1 \in DOMAIN Tail(left) /\ Tail(left)[k - 1] = left[k])
          BY <3>1
    <3>3. /\ step' = "moving" /\ writing' = writing /\ chunk' = left[1] /\ left' = Tail(left)
          /\ (writing => dma_buf' = ram[left[1].at]) /\ hw' = "going" /\ late' = FALSE
          /\ status' \in {"reading", "writing"}
          BY <2>3, <3>2 DEF NextChunk, Starts
    <3>4. \A c \in ToSet(asked) : c = left[1] \/ (\E k \in DOMAIN Tail(left) : Tail(left)[k] = c) \/ Moved(c)
          BY <2>1, <3>2 DEF Going
    <3>5. Going' BY <1>1, <2>1, <2>3, <3>2, <3>3, <3>4 DEF Going, Moved, Owned
    <3> QED BY <3>3, <3>5 DEF Goes, Told
  <2> QED BY <1>2, <1>6, <2>2, <2>3 DEF PollReady
<1>7. CASE PollLost BY <1>2, <1>7 DEF PollLost
<1> QED BY <1>3, <1>4, <1>5, <1>6, <1>7 DEF Poll

LEMMA WordStepGoes ==
    ASSUME GoInv, WordStep
    PROVE  Goes' /\ Told
<1>1. /\ pc \notin {"idle", "save"} => word.at \in Buffers
      /\ pc = "vacant" => word.blk \in Blocks
      /\ pc = "sync" => id[word.at] \in Blocks
      BY DEF GoInv, OwnInv, WordFits
<1>2. CASE Sync
  <2>1. pc = "sync" /\ ram' = ram /\ card' = card BY <1>2 DEF Sync
  <2>2. CASE Start(TRUE, <<Chunk(id[word.at], word.at)>>, ram) /\ pc' = "syncing"
    <3>1. Begins(TRUE, <<Chunk(id[word.at], word.at)>>) BY <1>1, <2>1, <2>2 DEF Begins
    <3> QED BY <3>1, BeginGoes
  <2>3. CASE StartRefused /\ Fails
        BY <2>1, <2>3, CalmGoes DEF StartRefused, Settled, Fails, Calm
  <2> QED BY <1>2, <2>2, <2>3 DEF Sync
<1>3. CASE Fill
  <2>1. pc = "vacant" /\ ram' = ram /\ card' = card BY <1>3 DEF Fill
  <2>2. CASE Start(FALSE, <<Chunk(word.blk, word.at)>>, ram) /\ pc' = "filling"
    <3>1. Begins(FALSE, <<Chunk(word.blk, word.at)>>) BY <1>1, <2>1, <2>2 DEF Begins
    <3> QED BY <3>1, BeginGoes
  <2>3. CASE StartRefused /\ Fails
        BY <2>1, <2>3, CalmGoes DEF StartRefused, Settled, Fails, Calm
  <2> QED BY <1>3, <2>2, <2>3 DEF Fill
<1>4. CASE Synced
      BY <1>4, CalmGoes DEF Synced, Settled, Fails, cardvars, Calm
<1>5. ASSUME NEW why, NEW b, NEW i \in Buffers, Done(why, b, i)
      PROVE  \A p \in Places : p \notin Buffers => ram'[p] = ram[p]
      BY <1>5 DEF Done, GoInv, OwnInv, Shape
<1>6. CASE TakeBuffer
      BY <1>1, <1>5, <1>6, CalmGoes DEF TakeBuffer, Done, Calm, Owned
<1>7. CASE Filled
  <2>1. pc = "filling" /\ step = "idle" /\ UNCHANGED <<card, transfer>> BY <1>7 DEF Filled, Settled
  <2>2. CASE Done(word.why, word.blk, word.at)
        BY <1>1, <1>5, <2>1, <2>2, CalmGoes DEF Done, Calm
  <2>3. CASE Fails /\ ram' = ram BY <2>1, <2>3, CalmGoes DEF Fails, Calm
  <2> QED BY <1>7, <2>2, <2>3 DEF Filled
<1>8. CASE Save
  <2>1. \A p \in Places : p \notin Buffers => ram'[p] = ram[p] BY <1>8 DEF Save, EmptyAll
  <2> QED BY <1>8, <2>1, CalmGoes DEF Save, Calm, Owned
<1> QED BY <1>2, <1>3, <1>4, <1>6, <1>7, <1>8 DEF WordStep

LEMMA WordsGo ==
    ASSUME GoInv, Words
    PROVE  Goes' /\ Told
<1>1. ASSUME NEW why, NEW b, pc = "idle", Assign(why, b)
      PROVE  Goes' /\ Told
  <2>1. ASSUME NEW i \in Holding(b), Done(why, b, i), UNCHANGED <<card, transfer>>
        PROVE  Calm
    <3>1. \A p \in Places : p \notin Buffers => ram'[p] = ram[p]
          BY <2>1 DEF Done, Holding, GoInv, OwnInv, Shape
    <3> QED BY <1>1, <2>1, <3>1 DEF Done, Calm, Owned
  <2>2. CASE UNCHANGED cardvars /\ pc' \in {"sync", "vacant"}
        BY <1>1, <2>2, CalmGoes DEF cardvars, Calm, Owned
  <2> QED BY <1>1, <2>1, <2>2, CalmGoes DEF Assign
<1>2. CASE Update
  <2>1. active \in Buffers BY <1>2 DEF Update, GoInv, OwnInv, Shape
  <2>2. \A p \in Places : p \notin Buffers => ram'[p] = ram[p]
        BY <1>2, <2>1 DEF Update, GoInv, OwnInv, Shape
  <2> QED BY <1>2, <2>2, CalmGoes DEF Update, Running, Calm, Owned
<1>3. ASSUME pc = "idle", pc' = "idle", UNCHANGED <<card, transfer>>, EmptyAll \/ UNCHANGED ram
      PROVE  Goes' /\ Told
  <2>1. \A p \in Places : p \notin Buffers => ram'[p] = ram[p] BY <1>3 DEF EmptyAll
  <2> QED BY <1>3, <2>1, CalmGoes DEF Calm, Owned
<1>4. CASE EmptyBuffers BY <1>3, <1>4 DEF EmptyBuffers, Running
<1>5. CASE LineEnds BY <1>3, <1>5 DEF LineEnds
<1>6. CASE Throw BY <1>3, <1>6 DEF Throw, Running, cardvars
<1>7. ASSUME NEW why \in {"save", "flush"}, SaveBuffers(why)
      PROVE  Goes' /\ Told
      BY <1>7, CalmGoes DEF SaveBuffers, Running, cardvars, Calm, Owned
<1>8. CASE Return BY <1>1, <1>3, <1>8 DEF Return, CallerAgain, cardvars
<1>9. ASSUME NEW run \in Runs, ReadBlock(run)
      PROVE  Goes' /\ Told
  <2>1. Begins(FALSE, run) BY <1>9 DEF ReadBlock, Begins
  <2> QED BY <2>1, BeginGoes
<1>10. ASSUME NEW run \in Runs, WriteBlock(run)
      PROVE  Goes' /\ Told
  <2>1. Begins(TRUE, run) BY <1>10 DEF WriteBlock, Begins
  <2> QED BY <2>1, BeginGoes
<1> QED BY <1>1, <1>2, <1>4, <1>5, <1>6, <1>7, <1>8, <1>9, <1>10
        DEF Words, Block, Buffer, Load, NextBlock, Running

LEMMA NextGoes ==
    ASSUME GoInv, [Next]_vars
    PROVE  Goes' /\ Told
<1>1. CASE WordStep BY <1>1, WordStepGoes
<1>2. CASE Words BY <1>2, WordsGo
<1>3. CASE Poll /\ UNCHANGED Above BY <1>3, PollGoes
<1>4. CASE Card /\ UNCHANGED Above BY <1>4, CardGoes
<1>5. CASE Second /\ UNCHANGED Above
  <2>1. /\ UNCHANGED <<pc, card, ram, step, status, writing, chunk, left, dma_buf, hw, asked>>
        /\ stalled' = (hw \in {"going", "busy"})
        BY <1>5 DEF Second, Above
  <2> QED BY <2>1 DEF GoInv, Goes, Going, Moved, Owned, Told
<1>6. CASE UNCHANGED vars
  <2>1. /\ UNCHANGED <<pc, card, ram, step, status, writing, chunk, left, dma_buf, hw, asked>>
        /\ UNCHANGED <<late, stalled>>
        BY <1>6 DEF vars, cardvars, transfer
  <2> QED BY <2>1 DEF GoInv, Goes, Going, Moved, Owned, Told
<1> QED BY <1>1, <1>2, <1>3, <1>4, <1>5, <1>6 DEF Next

(* blk_status tells 0 only once every chunk of the run is where it was to go,
   and a timeout only if the card itself took longer than a step may
   (blocks.c:213-229, 284-301). *)
THEOREM BlocksStatusTrue == Spec => StatusTrue
<1>1. Init => GoInv
  <2>1. Init => Goes BY DEF Init, InitTransfer, Goes
  <2> QED BY <2>1, OwnInit DEF GoInv
<1>2. GoInv /\ [Next]_vars => GoInv' BY NextKeeps, NextGoes DEF GoInv
<1>3. GoInv /\ [Next]_vars
      => [/\ status # "ok" /\ status' = "ok" => \A c \in ToSet(asked) : Moved(c)
          /\ status # "timeout" /\ status' = "timeout" => stalled]_vars
      BY NextGoes DEF Told
<1> QED BY <1>1, <1>2, <1>3, PTL DEF Spec, StatusTrue

=============================================================================
