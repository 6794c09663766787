------------------------------ MODULE CardLog ------------------------------
(***************************************************************************)
(* Data logs on the card's exFAT volume (src/logfile.c over src/exfat.c    *)
(* and src/datalog.c): making a log, writing its blocks, closing it, and   *)
(* closing after a power cut every log left open, with cuts between any    *)
(* two sector writes, writes that fail, and logs deleted on a PC whose     *)
(* clusters are used again.                                                *)
(* Each operation reads the volume, then writes sectors in a fixed order:  *)
(* it is its plan, the sequence of those writes, done one at a time.  The  *)
(* directory's places each hold the end mark, an unused entry, a file (its *)
(* first entry) or more of one.  A block of a log is its two frames.       *)
(***************************************************************************)
EXTENDS Naturals, Sequences, FiniteSets, FiniteSetsExt

CONSTANTS
    Logs,               \* logs made in a behaviour
    Blocks,             \* a log's blocks as made ("4 GB")
    PerCluster,         \* blocks per cluster
    Clusters,           \* clusters of the volume, from 0
    Bits,               \* clusters per sector of the bitmap
    DirSectors, Slots,  \* the root directory, and entries per sector
    MAX_OPEN,           \* logs gathered in a round of log_recover
    MaxCuts, MaxFails   \* bounds: power cuts, reads and writes that fail

ASSUME CardLogAssumption ==
    /\ {Logs, Blocks, PerCluster, Clusters, Bits, DirSectors, MAX_OPEN} \subseteq Nat \ {0}
    /\ Slots \in Nat /\ Slots > 2
    /\ Blocks =< Clusters * PerCluster     \* the volume has room for the file on it
    /\ {MaxCuts, MaxFails} \subseteq Nat

VARIABLES
    used,               \* the bitmap: clusters marked
    dir, heap,          \* the directory's places; each block's frames
    pc, plan,           \* what the program is doing; the writes to come
    log,                \* the log being made, written or closed: number, place, file
    todo, skip, last,   \* log_recover's round: its candidates, those passed over, the last round
    lo, hi,             \* dl_find_end: blocks 1 to lo - 1 are written, hi and beyond aren't
    made,               \* history: each log's place and whole blocks
    clean,              \* history: nothing failed in this log_recover
    cuts, fails

card == <<used, dir, heap>>
recovery == <<todo, skip, last, lo, hi>>
vars == <<card, pc, plan, log, recovery, made, clean, cuts, fails>>

Places == 1..DirSectors * Slots
SectorOf(p) == (p - 1) \div Slots
End == [type |-> "end"]
Unused == [type |-> "unused"]
More == [type |-> "more"]
File(first, blocks, valid) == [type |-> "file", first |-> first, blocks |-> blocks, valid |-> valid]
InUse(e) == e.type \in {"file", "more"}

(* A frame: whose, and its block number; clear, and what is no log's. *)
Frame(id, n) == [id |-> id, n |-> n]
Clear == Frame(0, 0)
Other == Frame(Logs + 1, 1)
IsMagic(f) == f.n = 0 /\ f.id \in 1..Logs
Foreign == File(0, Blocks, 0)           \* a PC's file that looks like an open log

ClusterCount(blocks) == (blocks + PerCluster - 1) \div PerCluster
EndOf(f) == f.first + ClusterCount(f.blocks)
FileClusters(f) == f.first..EndOf(f) - 1
BlockAt(f, n) == f.first * PerCluster + n

(* What a reader of the directory sees: the files before the end mark. *)
Listed == {p \in Places : dir[p].type = "file" /\ \A q \in 1..p : dir[q] # End}

-----------------------------------------------------------------------------
(* The sector writes. *)
Mark(cs, on) == [do |-> "mark", clusters |-> cs, on |-> on]
ClearFirst(c) == [do |-> "frame", at |-> c * PerCluster, end |-> "head", frame |-> Clear]
HeadOf(f, id, n) == [do |-> "frame", at |-> BlockAt(f, n), end |-> "head", frame |-> Frame(id, n)]
TailOf(f, id, n) == [do |-> "frame", at |-> BlockAt(f, n), end |-> "tail", frame |-> Frame(id, n)]
MoveEnd(s) == [do |-> "end", sector |-> s]
Entry(p, f) == [do |-> "entry", place |-> p, file |-> f]
Unlink(p) == [do |-> "unlink", place |-> p]

Apply(w) ==
    /\ used' = IF w.do # "mark" THEN used
               ELSE IF w.on THEN used \cup w.clusters ELSE used \ w.clusters
    /\ heap' = IF w.do # "frame" THEN heap ELSE [heap EXCEPT ![w.at][w.end] = w.frame]
    /\ dir' = CASE w.do = "end" ->
                       [p \in Places |-> IF SectorOf(p) = w.sector /\ dir[p] = End THEN Unused ELSE dir[p]]
                [] w.do = "entry" -> [dir EXCEPT ![w.place] = w.file, ![w.place + 1] = More, ![w.place + 2] = More]
                [] w.do = "unlink" -> [dir EXCEPT ![w.place] = Unused, ![w.place + 1] = Unused, ![w.place + 2] = Unused]
                [] OTHER -> dir

(* bitmap_mark: the clusters from first to end - 1, sector by sector. *)
BitmapMark(first, end, on) ==
    IF first >= end THEN <<>>
    ELSE [i \in 1..(end - 1) \div Bits - first \div Bits + 1 |->
             Mark({c \in first..end - 1 : c \div Bits = first \div Bits + i - 1}, on)]

(* find_free, and three free entries in one sector of the directory. *)
FreeRuns == {c \in 0..Clusters - ClusterCount(Blocks) : FileClusters(File(c, Blocks, 0)) \cap used = {}}
FreePlaces == {p \in Places : /\ p + 2 \in Places /\ SectorOf(p) = SectorOf(p + 2)
                              /\ \A q \in p..p + 2 : ~InUse(dir[q])}
EndsBefore(p) == {q \in 1..p + 2 : dir[q] = End}
EndMoved(p) == IF EndsBefore(p) # {} /\ SectorOf(Min(EndsBefore(p))) # SectorOf(p)
               THEN <<MoveEnd(SectorOf(Min(EndsBefore(p))))>> ELSE <<>>

NothingCleared(c) == <<>>               \* mutant: the old log's first sector stays
FirstCleared(c) == <<ClearFirst(c)>>
(* exfat_create, exfat_trim, exfat_delete. *)
Create(p, f) == BitmapMark(f.first, EndOf(f), TRUE) \o FirstCleared(f.first) \o EndMoved(p) \o <<Entry(p, f)>>
TrimBitmapFirst(p, f, n) ==             \* mutant
    BitmapMark(f.first + ClusterCount(n), EndOf(f), FALSE) \o <<Entry(p, File(f.first, n, n))>>
Trim(p, f, n) == <<Entry(p, File(f.first, n, n))>> \o BitmapMark(f.first + ClusterCount(n), EndOf(f), FALSE)
Delete(p, f) == <<Unlink(p)>> \o BitmapMark(f.first, EndOf(f), FALSE)

-----------------------------------------------------------------------------
(* A block of a log, by its frames; the candidates of a round of log_recover. *)
WholeAt(f, n, id) == heap[BlockAt(f, n)] = [head |-> Frame(id, n), tail |-> Frame(id, n)]
IsCandidate(f) == f.blocks = Blocks /\ f.valid = 0
Candidates == {p \in Listed : IsCandidate(dir[p])}
Seen(p) == Cardinality({q \in Candidates : q < p})
Gathered == {p \in Candidates : Seen(p) \in skip..skip + MAX_OPEN - 1}

-----------------------------------------------------------------------------
(* The program that logs. *)
Idle == pc \in {"idle", "recovered"} /\ plan = <<>>
Fail == fails < MaxFails /\ fails' = fails + 1

Make ==
    /\ Idle /\ log.id < Logs
    /\ FreeRuns # {} /\ FreePlaces # {}
    /\ LET f == File(Min(FreeRuns), Blocks, 0)
           p == Min(FreePlaces)
       IN  /\ log' = [id |-> log.id + 1, place |-> p, file |-> f]
           /\ plan' = Create(p, f)
           /\ made' = [made EXCEPT ![log.id + 1].place = p]
    /\ pc' = "make"
    /\ UNCHANGED <<card, recovery, clean, cuts, fails>>

Whole == made[log.id].whole
WriteBlock ==
    /\ pc = "log" /\ plan = <<>> /\ Whole < Blocks
    /\ plan' = <<HeadOf(log.file, log.id, Whole), TailOf(log.file, log.id, Whole)>>
    /\ UNCHANGED <<card, pc, log, recovery, made, clean, cuts, fails>>
Close ==
    /\ pc = "log" /\ plan = <<>> /\ Whole > 0
    /\ pc' = "close" /\ plan' = Trim(log.place, log.file, Whole)
    /\ UNCHANGED <<card, log, recovery, made, clean, cuts, fails>>

(* log_recover: round by round, MAX_OPEN candidates at a time. *)
StartRecover ==
    /\ Idle
    /\ pc' = "recover" /\ todo' = {} /\ skip' = 0 /\ last' = FALSE /\ clean' = TRUE
    /\ UNCHANGED <<card, plan, log, lo, hi, made, cuts, fails>>
Gather ==
    /\ pc = "recover" /\ plan = <<>> /\ todo = {} /\ ~last
    /\ todo' = Gathered
    /\ last' = (Cardinality(todo') < MAX_OPEN)
    /\ UNCHANGED <<card, pc, plan, log, skip, lo, hi, made, clean, cuts, fails>>
GatherFails ==                          \* the directory can't be read: log_recover gives up
    /\ pc = "recover" /\ plan = <<>> /\ todo = {} /\ ~last
    /\ Fail
    /\ pc' = "idle" /\ skip' = 0 /\ clean' = FALSE
    /\ UNCHANGED <<card, plan, log, todo, last, lo, hi, made, cuts>>

(* recover_one, dl_find_end in it: block 0, the bisection, what to do. *)
At == Min(todo)
Header == heap[BlockAt(dir[At], 0)].head
Done == todo' = todo \ {At}
NotCounted == UNCHANGED skip            \* mutant: a file left alone comes back for ever
PassOver == skip' = skip + 1
ReadHeader ==
    /\ pc = "recover" /\ plan = <<>> /\ todo # {}
    /\ LET whole == IsMagic(Header) /\ WholeAt(dir[At], 0, Header.id)
       IN  \/ /\ whole
              /\ pc' = "find" /\ lo' = 1 /\ hi' = dir[At].blocks
              /\ UNCHANGED <<plan, todo, skip>>
           \/ /\ ~whole /\ (Header = Clear \/ IsMagic(Header))
              /\ plan' = Delete(At, dir[At])
              /\ UNCHANGED <<pc, lo, hi, todo, skip>>
           \/ /\ Header # Clear /\ ~IsMagic(Header)               \* not a log
              /\ Done /\ PassOver
              /\ UNCHANGED <<pc, lo, hi, plan>>
    /\ UNCHANGED <<card, log, last, made, clean, cuts, fails>>
Probe ==
    /\ pc = "find" /\ lo < hi
    /\ LET mid == lo + (hi - lo) \div 2
       IN  IF WholeAt(dir[At], mid, Header.id) THEN lo' = mid + 1 /\ UNCHANGED hi
           ELSE hi' = mid /\ UNCHANGED lo
    /\ UNCHANGED <<card, pc, plan, log, todo, skip, last, made, clean, cuts, fails>>
Found ==
    /\ pc = "find" /\ lo >= hi
    /\ pc' = "recover" /\ plan' = Trim(At, dir[At], lo)
    /\ lo' = 0 /\ hi' = 0
    /\ UNCHANGED <<card, log, todo, skip, last, made, clean, cuts, fails>>
ReadFails ==
    /\ pc \in {"recover", "find"} /\ plan = <<>> /\ todo # {}
    /\ Fail
    /\ pc' = "recover" /\ lo' = 0 /\ hi' = 0 /\ clean' = FALSE
    /\ Done /\ PassOver
    /\ UNCHANGED <<card, plan, log, last, made, cuts>>
Recovered ==
    /\ pc = "recover" /\ plan = <<>> /\ todo = {} /\ last
    /\ pc' = "recovered"
    /\ UNCHANGED <<card, plan, log, recovery, made, clean, cuts, fails>>

(* One sector written; the last one ends the operation. *)
CardWrites ==
    /\ plan # <<>> /\ Apply(Head(plan)) /\ plan' = Tail(plan)
    /\ IF plan' # <<>> THEN UNCHANGED <<pc, todo, made>>
       ELSE /\ pc' = CASE pc \in {"make", "log"} -> "log" [] pc = "close" -> "idle" [] OTHER -> pc
            /\ IF pc = "recover" THEN Done ELSE UNCHANGED todo
            /\ made' = IF pc = "log" THEN [made EXCEPT ![log.id].whole = @ + 1] ELSE made
    /\ UNCHANGED <<log, skip, last, lo, hi, clean, cuts, fails>>
(* A write that is refused, done or not; the program that logs stops. *)
WriteFails ==
    /\ plan # <<>> /\ Fail
    /\ \/ UNCHANGED <<card, made>>
       \/ /\ Apply(Head(plan))
          /\ made' = IF pc = "log" /\ Len(plan) = 1 THEN [made EXCEPT ![log.id].whole = @ + 1] ELSE made
    /\ plan' = <<>>
    /\ IF pc = "recover" THEN Done /\ PassOver /\ clean' = FALSE /\ UNCHANGED pc
       ELSE pc' = "idle" /\ UNCHANGED <<todo, skip, clean>>
    /\ UNCHANGED <<log, last, lo, hi, cuts>>

Cut ==
    /\ cuts < MaxCuts /\ cuts' = cuts + 1
    /\ pc \notin {"idle", "recovered"}
    /\ pc' = "idle" /\ plan' = <<>> /\ todo' = {} /\ skip' = 0 /\ last' = FALSE /\ lo' = 0 /\ hi' = 0
    /\ UNCHANGED <<card, log, made, clean, fails>>

(* A log taken off on a PC. *)
HostDeletes ==
    /\ Idle
    /\ \E id \in 1..Logs :
          LET p == made[id].place IN
          /\ made[id].whole > 0 /\ p \in Listed
          /\ dir' = [dir EXCEPT ![p] = Unused, ![p + 1] = Unused, ![p + 2] = Unused]
          /\ used' = used \ FileClusters(dir[p])
          /\ made' = [made EXCEPT ![id].whole = 0]
    /\ pc' = "idle"
    /\ UNCHANGED <<heap, plan, log, recovery, clean, cuts, fails>>

Init ==
    /\ used = FileClusters(Foreign)
    /\ dir = [p \in Places |-> IF p = 1 THEN Foreign ELSE IF p \in 2..3 THEN More ELSE End]
    /\ heap = [b \in 0..Clusters * PerCluster - 1 |->
                  IF b \div PerCluster \in FileClusters(Foreign) THEN [head |-> Other, tail |-> Other]
                  ELSE [head |-> Clear, tail |-> Clear]]
    /\ pc = "idle" /\ plan = <<>>
    /\ log = [id |-> 0, place |-> 1, file |-> Foreign]
    /\ todo = {} /\ skip = 0 /\ last = FALSE /\ lo = 0 /\ hi = 0
    /\ made = [id \in 1..Logs |-> [place |-> 1, whole |-> 0]]
    /\ clean = TRUE /\ cuts = 0 /\ fails = 0

Program == \/ WriteBlock \/ Close \/ Gather \/ ReadHeader \/ Probe \/ Found \/ Recovered \/ CardWrites
Next == \/ Program \/ Make \/ StartRecover
        \/ GatherFails \/ ReadFails \/ WriteFails \/ Cut \/ HostDeletes
Spec == Init /\ [][Next]_vars /\ WF_vars(Program)

-----------------------------------------------------------------------------
(* Properties. *)

(* Whatever is cut or fails, no two files share a cluster and every file's
   clusters are marked: what is lost is space, never data
   (exfat.c:698-705, 753-768, 800-850; data-logs.md:328-331). *)
FilesDisjoint ==
    /\ \A p \in Listed : FileClusters(dir[p]) \subseteq used
    /\ \A p, q \in Listed : p # q => FileClusters(dir[p]) \cap FileClusters(dir[q]) = {}

(* When log_recover ends, nothing having failed in it, each log with a whole
   header is a file of just the blocks that were written whole, no log is
   left open, and the PC's file is as it was (logfile.h:36-46). *)
IsLog(p, id) == /\ dir[p].blocks = made[id].whole /\ dir[p].valid = made[id].whole
                /\ \A n \in 0..made[id].whole - 1 : WholeAt(dir[p], n, id)
RecoveredExact == pc = "recovered" /\ clean =>
    /\ \A id \in 1..Logs : made[id].whole > 0 => made[id].place \in Listed /\ IsLog(made[id].place, id)
    /\ \A p \in Listed \ {1} : \E id \in 1..Logs : made[id].whole > 0 /\ made[id].place = p
    /\ 1 \in Listed /\ dir[1] = Foreign

(* log_recover comes to an end: each round passes over what the earlier ones
   left alone (logfile.c:96-118). *)
Recovering == pc \in {"recover", "find"}
RecoverEnds == Recovering ~> ~Recovering

=============================================================================
