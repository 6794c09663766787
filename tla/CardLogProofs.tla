--------------------------- MODULE CardLogProofs ---------------------------
(***************************************************************************)
(* CardLog: FilesDisjoint and RecoveredExact for every volume, number of   *)
(* logs, cuts and failures.  Three invariants, each proved with the help   *)
(* of those before it:                                                     *)
(*   Inv1    the directory, the bitmap and the writes still to come agree; *)
(*   Inv2    each file but the PC's is the file of one log, and its blocks *)
(*           tell how many of that log's blocks were written whole;        *)
(*   Rounds  what a round of log_recover has gathered, and passed over.    *)
(***************************************************************************)
EXTENDS CardLog, Integers, FiniteSetTheorems, TLAPS

Files == {p \in Places : dir[p].type = "file"}
FrameSet == [id : Nat, n : Nat]
FileSet == {f \in [type : {"file"}, first : Nat, blocks : 1..Blocks, valid : 0..Blocks] : EndOf(f) =< Clusters}
Blocks0 == 0..Clusters * PerCluster - 1
WriteSet ==
    [do : {"mark"}, clusters : SUBSET Nat, on : BOOLEAN]
    \cup [do : {"frame"}, at : Blocks0, end : {"head", "tail"}, frame : FrameSet]
    \cup [do : {"end"}, sector : Nat]
    \cup [do : {"entry"}, place : Places, file : FileSet]
    \cup [do : {"unlink"}, place : Places]

(* What the card holds, whatever is being done. *)
CardType == /\ used \in SUBSET Nat
            /\ dir \in [Places -> {End, Unused, More} \cup FileSet]
            /\ heap \in [Blocks0 -> [head : FrameSet, tail : FrameSet]]
Sets == \A p \in Files : p + 2 \in Places /\ dir[p + 1] = More /\ dir[p + 2] = More
EndsLast == \A p, q \in Places : p < q /\ dir[p] = End => dir[q] = End
Marked == \A p \in Files : FileClusters(dir[p]) \subseteq used
Apart == \A p, q \in Files : p # q => FileClusters(dir[p]) \cap FileClusters(dir[q]) = {}
CardOK == CardType /\ Sets /\ EndsLast /\ Marked /\ Apart

StateType == /\ pc \in {"idle", "make", "log", "close", "recover", "find", "recovered"}
             /\ plan \in Seq(WriteSet)
             /\ log \in [id : 0..Logs, place : Places, file : FileSet]
             /\ todo \in SUBSET Places /\ skip \in Nat /\ last \in BOOLEAN
             /\ lo \in Nat /\ hi \in Nat
             /\ made \in [1..Logs -> [place : Places, whole : 0..Blocks]]
             /\ clean \in BOOLEAN

(* The writes to come while a log is made: its entry last, when its
   clusters are marked and no end mark is left before it. *)
MarkOn(f) == {Mark(cs, TRUE) : cs \in SUBSET FileClusters(f)}
MakeWrites(f) == MarkOn(f) \cup {ClearFirst(f.first)} \cup [do : {"end"}, sector : Nat]
MakeReady ==
    /\ log.id > 0 /\ IsCandidate(log.file) /\ log.place + 2 \in Places
    /\ \A q \in log.place..log.place + 2 : ~InUse(dir[q])
    /\ plan # <<>> /\ plan[Len(plan)] = Entry(log.place, log.file)
    /\ \A i \in 1..Len(plan) - 1 : plan[i] \in MakeWrites(log.file)
    /\ \A c \in FileClusters(log.file) :
           c \in used \/ \E i \in 1..Len(plan) - 1 : plan[i].do = "mark" /\ c \in plan[i].clusters
    /\ \A q \in Files : FileClusters(dir[q]) \cap FileClusters(log.file) = {}
    /\ \A q \in Places : q < log.place /\ dir[q] = End =>
           \E i \in 1..Len(plan) - 1 : plan[i] = MoveEnd(SectorOf(q))
    /\ \A i \in 1..Len(plan) - 1 : plan[i].do = "end" =>
           \A q \in Places : SectorOf(q) < plan[i].sector => dir[q] # End
MakeOK == pc = "make" => MakeReady

(* A block of a log: its first sector, then its last. *)
LogReady ==
    /\ log.id > 0 /\ log.place \in Files /\ dir[log.place] = log.file /\ IsCandidate(log.file)
    /\ plan # <<>> => /\ Whole < Blocks
                      /\ plan \in {<<HeadOf(log.file, log.id, Whole), TailOf(log.file, log.id, Whole)>>,
                                   <<TailOf(log.file, log.id, Whole)>>}
LogOK == pc = "log" => LogReady

(* A file shortened or deleted: its entry first, then clusters no file has. *)
Changed == IF pc = "close" THEN log.place ELSE At
Shortens ==
    /\ Changed \in Files /\ IsCandidate(dir[Changed])
    /\ \E n \in 1..Blocks :
          LET g == File(dir[Changed].first, n, n)
          IN  /\ plan[1] = Entry(Changed, g)
              /\ \A i \in 2..Len(plan) : plan[i].clusters \subseteq FileClusters(dir[Changed]) \ FileClusters(g)
Deletes ==
    /\ Changed \in Files /\ IsCandidate(dir[Changed])
    /\ plan[1] = Unlink(Changed)
    /\ \A i \in 2..Len(plan) : plan[i].clusters \subseteq FileClusters(dir[Changed])
Frees ==
    /\ plan[1].do = "mark" /\ plan[1].on = FALSE
    /\ Changed \in Files => ~IsCandidate(dir[Changed])
    /\ \A i \in 1..Len(plan), q \in Files : plan[i].clusters \cap FileClusters(dir[q]) = {}
ChangeReady ==
    /\ Changed \in Places
    /\ \A i \in 2..Len(plan) : plan[i].do = "mark" /\ plan[i].on = FALSE
    /\ Shortens \/ Deletes \/ Frees
ChangeOK == pc \in {"close", "recover"} /\ plan # <<>> => ChangeReady
IdleOK == /\ pc \in {"idle", "recovered", "find"} => plan = <<>>
          /\ pc = "close" => plan # <<>>
TodoOK == /\ pc \notin {"recover", "find"} => todo = {}
          /\ pc = "find" \/ (pc = "recover" /\ plan # <<>>) => todo # {}
          /\ \A p \in todo : (p \in Files /\ IsCandidate(dir[p])) \/ (plan # <<>> /\ p = At)
FindOK == pc = "find" => lo \in 1..hi /\ hi =< Blocks
Inv1 == CardOK /\ StateType /\ MakeOK /\ LogOK /\ ChangeOK /\ IdleOK /\ TodoOK /\ FindOK

(* Log id is the one whose file place p holds: the last one made there. *)
Owner(p, id) == /\ id \in 1..log.id /\ made[id].place = p
                /\ \A j \in 1..log.id : j > id => made[j].place # p
(* The file at p is still open or just as long as log id was written; its
   blocks are whole up to there, and none beyond has the log's second frame. *)
Holds(p, id) ==
    /\ \/ IsCandidate(dir[p])
       \/ made[id].whole > 0 /\ dir[p].blocks = made[id].whole /\ dir[p].valid = made[id].whole
    /\ \A n \in 0..made[id].whole - 1 : WholeAt(dir[p], n, id)
    /\ \A n \in made[id].whole..dir[p].blocks - 1 : heap[BlockAt(dir[p], n)].tail # Frame(id, n)
    /\ made[id].whole = 0 => heap[BlockAt(dir[p], 0)].head \in {Clear, Frame(id, 0)}
(* No block carries the number of a log still to be made. *)
Fresh == \A b \in Blocks0 : {heap[b].head.id, heap[b].tail.id} \subseteq 0..log.id \cup {Logs + 1}
(* The PC's file, which isn't a log's: it is as it was. *)
First == 1 \in Places /\ dir[1] = Foreign /\ heap[BlockAt(Foreign, 0)].head = Other
(* Each other file is a log's, and each log written whole in part has its file. *)
Owned == \A p \in Files \ {1} : \E id \in 1..log.id : Owner(p, id) /\ Holds(p, id)
Kept == \A id \in 1..Logs : made[id].whole > 0 => made[id].place \in Files \ {1} /\ Owner(made[id].place, id)
HeapOK == Fresh /\ First /\ Owned /\ Kept
(* While a log is made nothing has its number; its first block is cleared
   before its entry is written. *)
Making == pc = "make" =>
    /\ Owner(log.place, log.id) /\ made[log.id].whole = 0
    /\ \A b \in Blocks0 : heap[b].head.id # log.id /\ heap[b].tail.id # log.id
    /\ (\A i \in 1..Len(plan) : plan[i].do # "frame") => heap[BlockAt(log.file, 0)].head = Clear
(* The first of a block's two frames is written when only the second is to come. *)
Logging == /\ pc \in {"log", "close"} => Owner(log.place, log.id) /\ log.place # 1
           /\ pc = "log" /\ plan = <<TailOf(log.file, log.id, Whole)>> =>
                 heap[BlockAt(log.file, Whole)].head = Frame(log.id, Whole)
(* A file is shortened to what was written of its log, deleted if nothing was. *)
Changing == pc \in {"close", "recover"} /\ plan # <<>> =>
    /\ Changed # 1
    /\ plan[1].do \in {"entry", "unlink"} =>
           \E id \in 1..log.id : /\ Owner(Changed, id)
                                 /\ plan[1].do = "entry" => plan[1].file.blocks = made[id].whole
                                 /\ plan[1].do = "unlink" => made[id].whole = 0
(* The bisection has the log's length between its ends. *)
Finding == pc = "find" =>
    /\ At # 1
    /\ \E id \in 1..log.id : Owner(At, id) /\ Header = Frame(id, 0) /\ lo =< made[id].whole /\ made[id].whole =< hi
Inv2 == HeapOK /\ Making /\ Logging /\ Changing /\ Finding

(* The PC's file comes first of all candidates: the first round gathers it
   and passes it over; when no round is to follow, all others are gathered. *)
Round == /\ skip \in {0, 1}
         /\ skip = 0 => (todo = {} /\ ~last) \/ 1 \in todo
         /\ skip = 1 => 1 \notin todo
         /\ last => Candidates \subseteq todo \cup {1}
Rounds == /\ Recovering /\ clean => Round
          /\ pc = "recovered" /\ clean => Candidates \subseteq {1}

-----------------------------------------------------------------------------
(* The constants, and whole division. *)
LEMMA Constants ==
    /\ Logs \in Nat /\ Logs > 0 /\ Blocks \in Nat /\ Blocks > 0 /\ PerCluster \in Nat /\ PerCluster > 0
    /\ Clusters \in Nat /\ Clusters > 0 /\ Bits \in Nat /\ Bits > 0 /\ DirSectors \in Nat /\ DirSectors > 0
    /\ MAX_OPEN \in Nat /\ MAX_OPEN > 0 /\ Slots \in Nat /\ Slots > 2
    /\ Blocks =< Clusters * PerCluster
BY CardLogAssumption

LEMMA Quotient ==
    ASSUME NEW a \in Nat, NEW d \in Nat, d > 0
    PROVE  a \div d \in Nat /\ d * (a \div d) =< a /\ a < d * (a \div d) + d
<1>1. a \in Int /\ d \in Int OBVIOUS
<1>2. a \div d \in Nat OBVIOUS
<1>3. a = d * (a \div d) + (a % d) BY <1>1, Z3
<1>4. a % d \in 0..d - 1 OBVIOUS
<1>5. d * (a \div d) \in Int BY <1>2
<1> QED BY <1>2, <1>3, <1>4, <1>5

(* d times a number that is greater by one or more is greater by d or more. *)
LEMMA TimesGrows ==
    ASSUME NEW d \in Nat, NEW p \in Nat, NEW q \in Nat, q > p
    PROVE  d * p \in Nat /\ d * q \in Nat /\ d * q >= d * p + d
<1>1. PICK k \in Nat : q = p + 1 + k
  <2>1. q - (p + 1) \in Nat /\ q = p + 1 + (q - (p + 1)) OBVIOUS
  <2> QED BY <2>1
<1>2. d * q = d * p + d + d * k BY <1>1
<1>3. d * k \in Nat /\ d * p \in Nat /\ d * q \in Nat OBVIOUS
<1> QED BY <1>2, <1>3

LEMMA Distributes ==
    ASSUME NEW d \in Nat, NEW p \in Nat, NEW q \in Nat
    PROVE  d * (p + q) = d * p + d * q
OBVIOUS

LEMMA QuotientGrows ==
    ASSUME NEW a \in Nat, NEW b \in Nat, NEW d \in Nat, d > 0, a =< b
    PROVE  a \div d =< b \div d
<1>1. /\ a \div d \in Nat /\ d * (a \div d) =< a /\ a < d * (a \div d) + d
      /\ b \div d \in Nat /\ d * (b \div d) =< b /\ b < d * (b \div d) + d
  BY Quotient
<1>2. SUFFICES ASSUME a \div d > b \div d PROVE FALSE BY <1>1
<1>3. d * (a \div d) \in Nat /\ d * (b \div d) \in Nat /\ d * (a \div d) >= d * (b \div d) + d
  BY <1>1, <1>2, TimesGrows
<1> QED BY <1>1, <1>3

LEMMA QuotientOf ==
    ASSUME NEW a \in Nat, NEW d \in Nat, d > 0, NEW q \in Nat, d * q =< a, a < d * q + d
    PROVE  a \div d = q
<1>1. a \div d \in Nat /\ d * (a \div d) =< a /\ a < d * (a \div d) + d BY Quotient
<1>2. CASE a \div d > q
  <2>1. d * (a \div d) \in Nat /\ d * q \in Nat /\ d * (a \div d) >= d * q + d BY <1>1, <1>2, TimesGrows
  <2> QED BY <1>1, <2>1
<1>3. CASE q > a \div d
  <2>1. d * (a \div d) \in Nat /\ d * q \in Nat /\ d * q >= d * (a \div d) + d BY <1>1, <1>3, TimesGrows
  <2> QED BY <1>1, <2>1
<1> QED BY <1>1, <1>2, <1>3

(* The least of a set of numbers. *)
LEMMA MinIsLeast ==
    ASSUME NEW S, S \subseteq Nat, S # {}
    PROVE  Min(S) \in S /\ \A y \in S : Min(S) =< y
<1>1. PICK x \in S : \A y \in S : ~(<<y, x>> \in OpToRel(<, Nat))
  BY NatLessThanWellFounded, WFMin
<1>2. \A y \in S : ~(y < x) BY <1>1 DEF OpToRel
<1>3. \A y \in S : x =< y BY <1>2
<1> QED BY <1>3 DEF Min

-----------------------------------------------------------------------------
(* Files and their clusters. *)
LEMMA ClusterCounts ==
    ASSUME NEW n \in Nat, NEW m \in Nat, n =< m
    PROVE  ClusterCount(n) \in Nat /\ ClusterCount(m) \in Nat /\ ClusterCount(n) =< ClusterCount(m)
<1>1. /\ n + PerCluster - 1 \in Nat /\ m + PerCluster - 1 \in Nat /\ PerCluster \in Nat /\ PerCluster > 0
      /\ n + PerCluster - 1 =< m + PerCluster - 1
  BY Constants
<1>2. /\ (n + PerCluster - 1) \div PerCluster \in Nat /\ (m + PerCluster - 1) \div PerCluster \in Nat
  BY <1>1, Quotient
<1>3. (n + PerCluster - 1) \div PerCluster =< (m + PerCluster - 1) \div PerCluster
  BY <1>1, QuotientGrows
<1> QED BY <1>2, <1>3 DEF ClusterCount

(* The cluster of a file's block n is one of the file's. *)
LEMMA BlockInFile ==
    ASSUME NEW b \in Nat, NEW n \in Nat, n < b
    PROVE  n \div PerCluster \in Nat /\ n \div PerCluster < ClusterCount(b)
<1> DEFINE d == PerCluster
<1>1. d \in Nat /\ d > 0 BY Constants
<1>2. n \div d \in Nat /\ d * (n \div d) =< n /\ n < d * (n \div d) + d BY <1>1, Quotient
<1>3. (n \div d) + 1 \in Nat /\ (n \div d) + 1 > n \div d BY <1>2
<1>4. d * ((n \div d) + 1) = d * (n \div d) + d /\ d * (n \div d) \in Nat BY <1>1, <1>2
<1> HIDE DEF d
<1>5. (n + 1) + d - 1 \in Nat /\ d * ((n \div d) + 1) =< (n + 1) + d - 1
      /\ (n + 1) + d - 1 < d * ((n \div d) + 1) + d
  BY <1>1, <1>2, <1>4
<1>6. ((n + 1) + d - 1) \div d = (n \div d) + 1 BY <1>1, <1>3, <1>5, QuotientOf
<1>7. ClusterCount(n + 1) = (n \div d) + 1 BY <1>6 DEF ClusterCount, d
<1>8. ClusterCount(b) \in Nat /\ ClusterCount(n + 1) =< ClusterCount(b)
  <2>1. n + 1 \in Nat /\ n + 1 =< b OBVIOUS
  <2> QED BY <2>1, ClusterCounts
<1> QED BY <1>2, <1>7, <1>8 DEF d

LEMMA FileFields ==
    ASSUME NEW c, NEW b, NEW v
    PROVE  /\ File(c, b, v).type = "file" /\ File(c, b, v).first = c
           /\ File(c, b, v).blocks = b /\ File(c, b, v).valid = v
BY DEF File

LEMMA FileFacts ==
    ASSUME NEW f \in FileSet
    PROVE  /\ f.type = "file" /\ f.first \in Nat /\ f.blocks \in 1..Blocks /\ f.valid \in 0..Blocks
           /\ ClusterCount(f.blocks) \in Nat /\ EndOf(f) \in Nat /\ EndOf(f) =< Clusters
           /\ f = File(f.first, f.blocks, f.valid)
           /\ FileClusters(f) \subseteq Nat
<1>1. /\ f \in [type : {"file"}, first : Nat, blocks : 1..Blocks, valid : 0..Blocks]
      /\ EndOf(f) =< Clusters
  BY DEF FileSet
<1>2. f.type = "file" /\ f.first \in Nat /\ f.blocks \in 1..Blocks /\ f.valid \in 0..Blocks BY <1>1
<1>3. ClusterCount(f.blocks) \in Nat
  <2>1. f.blocks \in Nat /\ f.blocks =< f.blocks BY <1>2, Constants
  <2> QED BY <2>1, ClusterCounts
<1>4. EndOf(f) \in Nat BY <1>2, <1>3 DEF EndOf
<1>5. f = File(f.first, f.blocks, f.valid) BY <1>1, <1>2 DEF File
<1>6. FileClusters(f) \subseteq Nat BY <1>2, <1>4 DEF FileClusters
<1> QED BY <1>1, <1>2, <1>3, <1>4, <1>5, <1>6

(* A file cut down to n blocks keeps its first clusters. *)
LEMMA Shortened ==
    ASSUME NEW f \in FileSet, NEW n \in 1..Blocks, n =< f.blocks
    PROVE  /\ File(f.first, n, n) \in FileSet
           /\ EndOf(File(f.first, n, n)) = f.first + ClusterCount(n)
           /\ FileClusters(File(f.first, n, n)) \subseteq FileClusters(f)
           /\ f.first + ClusterCount(n) \in Nat
           /\ (f.first + ClusterCount(n))..EndOf(f) - 1 = FileClusters(f) \ FileClusters(File(f.first, n, n))
<1> DEFINE g == File(f.first, n, n)
<1>1. f.first \in Nat /\ f.blocks \in 1..Blocks /\ EndOf(f) \in Nat /\ EndOf(f) =< Clusters BY FileFacts
<1>2. ClusterCount(n) \in Nat /\ ClusterCount(f.blocks) \in Nat /\ ClusterCount(n) =< ClusterCount(f.blocks)
  <2>1. n \in Nat /\ f.blocks \in Nat BY <1>1, Constants
  <2> QED BY <2>1, ClusterCounts
<1>3. g.type = "file" /\ g.first = f.first /\ g.blocks = n /\ g.valid = n BY FileFields
<1>4. EndOf(g) = f.first + ClusterCount(n) BY <1>3 DEF EndOf
<1>5. EndOf(f) = f.first + ClusterCount(f.blocks) BY DEF EndOf
<1>6. Clusters \in Nat /\ Blocks \in Nat BY Constants
<1>7. EndOf(g) \in Nat /\ EndOf(g) =< EndOf(f) /\ EndOf(g) =< Clusters BY <1>1, <1>2, <1>4, <1>5, <1>6
<1>8. g \in FileSet
  <2>1. g \in [type : {"file"}, first : Nat, blocks : 1..Blocks, valid : 0..Blocks]
    BY <1>1, <1>6 DEF File
  <2> QED BY <2>1, <1>7 DEF FileSet
<1>9. FileClusters(g) = f.first..f.first + ClusterCount(n) - 1
  <2> HIDE DEF g
  <2>1. FileClusters(g) = g.first..EndOf(g) - 1 BY DEF FileClusters
  <2> QED BY <2>1, <1>1, <1>2, <1>3, <1>4
<1>10. FileClusters(f) = f.first..EndOf(f) - 1 BY DEF FileClusters
<1>11. f.first + ClusterCount(n) \in Nat /\ f.first + ClusterCount(n) =< EndOf(f) BY <1>1, <1>2, <1>5
<1>12. FileClusters(g) \subseteq FileClusters(f)
  BY <1>1, <1>2, <1>9, <1>10, <1>11
<1>13. (f.first + ClusterCount(n))..EndOf(f) - 1 = FileClusters(f) \ FileClusters(g)
  BY <1>1, <1>2, <1>9, <1>10, <1>11
<1> QED BY <1>4, <1>8, <1>11, <1>12, <1>13

LEMMA ForeignFacts == Foreign \in FileSet /\ IsCandidate(Foreign) /\ Foreign.first = 0 /\ Foreign.blocks = Blocks
<1>1. Foreign.type = "file" /\ Foreign.first = 0 /\ Foreign.blocks = Blocks /\ Foreign.valid = 0
  BY FileFields DEF Foreign
<1>2. ClusterCount(Blocks) \in Nat /\ ClusterCount(Blocks) =< Clusters
  <2> DEFINE a == Blocks + PerCluster - 1
  <2>1. a \in Nat /\ PerCluster \in Nat /\ PerCluster > 0 BY Constants
  <2> HIDE DEF a
  <2>2. a \div PerCluster \in Nat /\ PerCluster * (a \div PerCluster) =< a BY <2>1, Quotient
  <2>3. SUFFICES ASSUME a \div PerCluster > Clusters PROVE FALSE
    BY <2>2, Constants DEF ClusterCount, a
  <2>4. /\ PerCluster * Clusters \in Nat /\ PerCluster * (a \div PerCluster) \in Nat
        /\ PerCluster * (a \div PerCluster) >= PerCluster * Clusters + PerCluster
    BY <2>1, <2>2, <2>3, Constants, TimesGrows
  <2>5. Blocks =< PerCluster * Clusters BY Constants
  <2> QED BY <2>1, <2>2, <2>4, <2>5, Constants DEF a
<1>3. EndOf(Foreign) = ClusterCount(Blocks) BY <1>1, <1>2 DEF EndOf
<1>4. Foreign \in [type : {"file"}, first : Nat, blocks : 1..Blocks, valid : 0..Blocks]
  BY Constants DEF Foreign, File
<1> QED BY <1>1, <1>2, <1>3, <1>4 DEF FileSet, IsCandidate

(* Where a file's blocks are: each in one of its clusters, and apart. *)
LEMMA BlockPlace ==
    ASSUME NEW f \in FileSet, NEW n \in Nat, n < f.blocks
    PROVE  /\ BlockAt(f, n) \in Blocks0
           /\ BlockAt(f, n) \div PerCluster \in FileClusters(f)
<1> DEFINE d == PerCluster
           q == n \div PerCluster
           e == EndOf(f)
<1>1. d \in Nat /\ d > 0 /\ Clusters \in Nat BY Constants
<1>2. /\ f.first \in Nat /\ f.blocks \in 1..Blocks /\ e \in Nat /\ e =< Clusters
      /\ ClusterCount(f.blocks) \in Nat
  BY FileFacts
<1>3. q \in Nat /\ d * q =< n /\ n < d * q + d /\ d * q \in Nat BY <1>1, Quotient
<1>4. q < ClusterCount(f.blocks)
  <2>1. f.blocks \in Nat BY <1>2, Constants
  <2> QED BY <2>1, BlockInFile
<1>5. e = f.first + ClusterCount(f.blocks) BY DEF EndOf
<1> DEFINE c == f.first + q
<1>6. c \in Nat /\ c < e /\ c >= f.first BY <1>2, <1>3, <1>4, <1>5
<1>7. BlockAt(f, n) = d * f.first + n /\ d * f.first \in Nat
  <2>1. f.first * d = d * f.first /\ d * f.first \in Nat BY <1>1, <1>2
  <2> QED BY <2>1 DEF BlockAt
<1>8. d * c = d * f.first + d * q
  <2> HIDE DEF d, q
  <2> QED BY <1>1, <1>2, <1>3, Distributes
<1>9. c \in FileClusters(f) BY <1>2, <1>6 DEF FileClusters
<1> HIDE DEF d, q, e, c
<1>10. BlockAt(f, n) \in Nat /\ d * c \in Nat /\ d * c =< BlockAt(f, n) /\ BlockAt(f, n) < d * c + d
  BY <1>1, <1>3, <1>6, <1>7, <1>8
<1>11. BlockAt(f, n) \div d = c BY <1>1, <1>6, <1>10, QuotientOf
<1>12. Clusters > c BY <1>1, <1>2, <1>6
<1>13. d * Clusters >= d * c + d /\ d * Clusters \in Nat BY <1>1, <1>6, <1>12, TimesGrows
<1>14. Clusters * PerCluster = d * Clusters BY <1>1 DEF d
<1>15. BlockAt(f, n) \in Blocks0
  <2>1. BlockAt(f, n) < d * Clusters BY <1>1, <1>10, <1>13
  <2>2. BlockAt(f, n) \in 0..d * Clusters - 1 BY <1>10, <1>13, <2>1
  <2> QED BY <1>14, <2>2 DEF Blocks0
<1> QED BY <1>9, <1>11, <1>15 DEF d

LEMMA BlocksApart ==
    ASSUME NEW f \in FileSet, NEW n \in Nat, n < f.blocks,
           NEW g \in FileSet, NEW m \in Nat, m < g.blocks,
           FileClusters(f) \cap FileClusters(g) = {}
    PROVE  BlockAt(f, n) # BlockAt(g, m)
<1>1. /\ BlockAt(f, n) \div PerCluster \in FileClusters(f)
      /\ BlockAt(g, m) \div PerCluster \in FileClusters(g)
  BY BlockPlace
<1> QED BY <1>1

LEMMA BlocksDiffer ==
    ASSUME NEW f \in FileSet, NEW n \in Nat, NEW m \in Nat, n # m
    PROVE  BlockAt(f, n) # BlockAt(f, m)
<1>1. f.first * PerCluster \in Nat BY FileFacts, Constants
<1> QED BY <1>1 DEF BlockAt

(* A file's first cluster is its own. *)
LEMMA FirstIsOwn ==
    ASSUME NEW f \in FileSet
    PROVE  /\ f.first \in FileClusters(f)
           /\ f.first * PerCluster = BlockAt(f, 0) /\ BlockAt(f, 0) \in Blocks0
<1>1. f.first \in Nat /\ f.blocks \in 1..Blocks BY FileFacts
<1>2. PerCluster \in Nat /\ PerCluster > 0 /\ 0 < f.blocks /\ f.first * PerCluster \in Nat BY <1>1, Constants
<1>3. BlockAt(f, 0) = f.first * PerCluster BY <1>2 DEF BlockAt
<1>4. BlockAt(f, 0) \in Blocks0 BY <1>2, BlockPlace
<1>5. BlockAt(f, 0) \div PerCluster \in FileClusters(f) BY <1>2, BlockPlace
<1>6. BlockAt(f, 0) \div PerCluster = f.first
  <2>1. PerCluster * f.first =< BlockAt(f, 0) /\ BlockAt(f, 0) < PerCluster * f.first + PerCluster
        /\ BlockAt(f, 0) \in Nat
    <3>1. PerCluster * f.first = f.first * PerCluster BY <1>1, <1>2
    <3> QED BY <1>2, <1>3, <3>1
  <2> QED BY <1>1, <1>2, <2>1, QuotientOf
<1> QED BY <1>3, <1>4, <1>5, <1>6

-----------------------------------------------------------------------------
(* The directory's sectors. *)
LEMMA PlaceFacts ==
    ASSUME NEW p \in Places
    PROVE  p \in Nat /\ p > 0 /\ p - 1 \in Nat /\ SectorOf(p) \in Nat
<1>1. DirSectors * Slots \in Nat BY Constants
<1>2. p \in Nat /\ p > 0 /\ p - 1 \in Nat BY <1>1 DEF Places
<1>3. (p - 1) \div Slots \in Nat BY <1>2, Constants, Quotient
<1> QED BY <1>2, <1>3 DEF SectorOf

LEMMA Between ==
    ASSUME NEW p \in Places, NEW q \in Nat, p =< q, NEW r \in Places, q =< r
    PROVE  q \in Places
<1>1. DirSectors * Slots \in Nat BY Constants
<1> QED BY <1>1 DEF Places

LEMMA SectorsGrow ==
    ASSUME NEW p \in Places, NEW q \in Places, p =< q
    PROVE  SectorOf(p) =< SectorOf(q)
<1>1. p - 1 \in Nat /\ q - 1 \in Nat /\ p - 1 =< q - 1 BY PlaceFacts
<1>2. (p - 1) \div Slots =< (q - 1) \div Slots BY <1>1, Constants, QuotientGrows
<1> QED BY <1>2 DEF SectorOf

(* The first place of the sector after q's, where there is a later one. *)
LEMMA NextSector ==
    ASSUME NEW q \in Places, NEW p \in Places, SectorOf(q) < SectorOf(p)
    PROVE  \E r \in Places : /\ q < r /\ r =< p /\ SectorOf(r) = SectorOf(q) + 1
                             /\ r + 2 \in Places /\ SectorOf(r + 2) = SectorOf(r)
<1> DEFINE d == Slots
           s == SectorOf(q)
           t == SectorOf(p)
           r == d * (s + 1) + 1
<1>1. d \in Nat /\ d > 2 /\ DirSectors \in Nat /\ DirSectors > 0 BY Constants
<1>2. p \in Nat /\ p > 0 /\ q \in Nat /\ q > 0 /\ s \in Nat /\ t \in Nat /\ p - 1 \in Nat /\ q - 1 \in Nat
  BY PlaceFacts
<1>3. d * s =< q - 1 /\ q - 1 < d * s + d /\ d * t =< p - 1 /\ p - 1 < d * t + d
  BY <1>1, <1>2, Quotient DEF SectorOf
<1>4. s + 1 \in Nat /\ d * (s + 1) = d * s + d /\ d * s \in Nat /\ d * t \in Nat /\ d * (s + 1) \in Nat
  BY <1>1, <1>2
<1>5. d * t >= d * (s + 1)
  <2>1. CASE t = s + 1 BY <2>1, <1>4
  <2>2. CASE t > s + 1
    <3>1. d * t >= d * (s + 1) + d BY <1>1, <1>2, <1>4, <2>2, TimesGrows
    <3> QED BY <1>1, <1>4, <3>1
  <2>3. t = s + 1 \/ t > s + 1 BY <1>2
  <2> QED BY <2>1, <2>2, <2>3
<1>6. p =< DirSectors * d /\ DirSectors * d = d * DirSectors /\ d * DirSectors \in Nat
  BY <1>1 DEF Places
<1>7. DirSectors > t
  <2>1. SUFFICES ASSUME t >= DirSectors PROVE FALSE BY <1>1, <1>2
  <2>2. d * t >= d * DirSectors
    <3>1. CASE t = DirSectors BY <3>1, <1>6
    <3>2. CASE t > DirSectors
      <4>1. d * t >= d * DirSectors + d BY <1>1, <1>2, <3>2, TimesGrows
      <4> QED BY <1>1, <1>4, <1>6, <4>1
    <3> QED BY <1>1, <1>2, <2>1, <3>1, <3>2
  <2> QED BY <1>2, <1>3, <1>4, <1>6, <2>2
<1>8. d * DirSectors >= d * t + d BY <1>1, <1>2, <1>7, TimesGrows
<1> HIDE DEF d, s, t
<1>9. r \in Nat /\ r > q /\ r =< p /\ r + 2 =< d * DirSectors /\ r > 0
  BY <1>1, <1>2, <1>3, <1>4, <1>5, <1>6, <1>8
<1>10. r \in Places /\ r + 2 \in Places
  BY <1>6, <1>9 DEF Places, d
<1>11. /\ (r - 1) \div d = s + 1 /\ ((r + 2) - 1) \div d = s + 1
  <2>1. /\ r - 1 \in Nat /\ d * (s + 1) =< r - 1 /\ r - 1 < d * (s + 1) + d
        /\ (r + 2) - 1 \in Nat /\ d * (s + 1) =< (r + 2) - 1 /\ (r + 2) - 1 < d * (s + 1) + d
    BY <1>1, <1>4
  <2> DEFINE x == r - 1
             y == (r + 2) - 1
             z == s + 1
  <2>2. z \in Nat /\ x \in Nat /\ y \in Nat /\ d * z =< x /\ x < d * z + d /\ d * z =< y /\ y < d * z + d
    BY <1>4, <2>1
  <2> HIDE DEF x, y, z
  <2>3. x \div d = z BY <1>1, <2>2, QuotientOf
  <2>4. y \div d = z BY <1>1, <2>2, QuotientOf
  <2> QED BY <2>3, <2>4 DEF x, y, z
<1> HIDE DEF r
<1>12. SectorOf(r) = s + 1 /\ SectorOf(r + 2) = s + 1 BY <1>11 DEF SectorOf, d
<1> QED BY <1>9, <1>10, <1>12 DEF s

-----------------------------------------------------------------------------
(* What a sector write does to the card, and that it leaves it in order. *)
LEMMA Kinds ==
    ASSUME NEW f \in FileSet
    PROVE  f # End /\ f # Unused /\ f # More /\ End # More /\ End # Unused /\ More # Unused
           /\ InUse(f) /\ InUse(More) /\ ~InUse(End) /\ ~InUse(Unused)
           /\ More.type # "file" /\ End.type # "file" /\ Unused.type # "file"
<1>1. f.type = "file" BY FileFacts
<1>2. End.type = "end" /\ More.type = "more" /\ Unused.type = "unused" BY DEF End, More, Unused
<1> QED BY <1>1, <1>2 DEF InUse

(* An entry is one of the four kinds. *)
LEMMA EntryKinds ==
    ASSUME CardType, NEW p \in Places
    PROVE  /\ dir[p] \in {End, Unused, More} \/ (p \in Files /\ dir[p] \in FileSet)
           /\ p \in Files => dir[p] \in FileSet
           /\ dir[p] \in {End, Unused, More} => p \notin Files
           /\ ~InUse(dir[p]) <=> dir[p] \in {End, Unused}
<1>1. dir[p] \in {End, Unused, More} \cup FileSet BY DEF CardType
<1>2. dir[p] \in FileSet => p \in Files /\ InUse(dir[p]) BY FileFacts DEF Files, InUse
<1>3. dir[p] \in {End, Unused, More} => dir[p].type # "file" BY DEF End, More, Unused
<1>4. dir[p] \in {End, Unused, More} => (~InUse(dir[p]) <=> dir[p] \in {End, Unused})
  BY DEF End, More, Unused, InUse
<1> QED BY <1>1, <1>2, <1>3, <1>4, Kinds DEF Files

LEMMA MarkOnKept ==
    ASSUME CardOK, NEW cs \in SUBSET Nat, Apply(Mark(cs, TRUE))
    PROVE  CardOK' /\ dir' = dir /\ heap' = heap /\ used' = used \cup cs
<1>1. dir' = dir /\ heap' = heap /\ used' = used \cup cs BY DEF Apply, Mark
<1>2. CardType' BY <1>1 DEF CardOK, CardType
<1>3. Files' = Files BY <1>1 DEF Files
<1>4. Sets' /\ EndsLast' /\ Apart' BY <1>1, <1>3 DEF CardOK, Sets, EndsLast, Apart
<1>5. Marked' BY <1>1, <1>3 DEF CardOK, Marked
<1> QED BY <1>1, <1>2, <1>4, <1>5 DEF CardOK

LEMMA MarkOffKept ==
    ASSUME CardOK, NEW cs, Apply(Mark(cs, FALSE)),
           \A q \in Files : cs \cap FileClusters(dir[q]) = {}
    PROVE  CardOK' /\ dir' = dir /\ heap' = heap /\ used' = used \ cs
<1>1. dir' = dir /\ heap' = heap /\ used' = used \ cs BY DEF Apply, Mark
<1>2. CardType' BY <1>1 DEF CardOK, CardType
<1>3. Files' = Files BY <1>1 DEF Files
<1>4. Sets' /\ EndsLast' /\ Apart' BY <1>1, <1>3 DEF CardOK, Sets, EndsLast, Apart
<1>5. Marked' BY <1>1, <1>3 DEF CardOK, Marked
<1> QED BY <1>1, <1>2, <1>4, <1>5 DEF CardOK

(* A frame written: one end of one block. *)
FrameWrite(b, e, fr) == [do |-> "frame", at |-> b, end |-> e, frame |-> fr]
LEMMA FrameKept ==
    ASSUME CardOK, NEW b \in Blocks0, NEW e \in {"head", "tail"}, NEW fr \in FrameSet,
           Apply(FrameWrite(b, e, fr))
    PROVE  /\ CardOK' /\ dir' = dir /\ used' = used
           /\ \A c \in Blocks0 : c # b => heap'[c] = heap[c]
           /\ heap'[b] = [heap[b] EXCEPT ![e] = fr]
<1>1. dir' = dir /\ used' = used /\ heap' = [heap EXCEPT ![b][e] = fr]
  BY DEF Apply, FrameWrite
<1>2. heap \in [Blocks0 -> [head : FrameSet, tail : FrameSet]] BY DEF CardOK, CardType
<1>3. /\ \A c \in Blocks0 : c # b => heap'[c] = heap[c]
      /\ heap'[b] = [heap[b] EXCEPT ![e] = fr]
  BY <1>1, <1>2
<1>4. heap[b] \in [head : FrameSet, tail : FrameSet] BY <1>2
<1>5. [heap[b] EXCEPT ![e] = fr] \in [head : FrameSet, tail : FrameSet] BY <1>4
<1>6. heap' \in [Blocks0 -> [head : FrameSet, tail : FrameSet]] BY <1>1, <1>2, <1>5
<1>7. CardType' BY <1>1, <1>6 DEF CardOK, CardType
<1>8. Files' = Files BY <1>1 DEF Files
<1>9. Sets' /\ EndsLast' /\ Apart' /\ Marked' BY <1>1, <1>8 DEF CardOK, Sets, EndsLast, Apart, Marked
<1> QED BY <1>1, <1>3, <1>7, <1>9 DEF CardOK

(* The end mark moved out of a sector. *)
LEMMA EndKept ==
    ASSUME CardOK, NEW s \in Nat, Apply(MoveEnd(s)),
           \A q \in Places : SectorOf(q) < s => dir[q] # End
    PROVE  /\ CardOK' /\ used' = used /\ heap' = heap /\ Files' = Files
           /\ \A q \in Places : dir'[q] = IF SectorOf(q) = s /\ dir[q] = End THEN Unused ELSE dir[q]
           /\ \A q \in Files : dir'[q] = dir[q]
           /\ \A q \in Places : InUse(dir[q])' <=> InUse(dir[q])
<1>1. /\ used' = used /\ heap' = heap
      /\ dir' = [q \in Places |-> IF SectorOf(q) = s /\ dir[q] = End THEN Unused ELSE dir[q]]
  BY DEF Apply, MoveEnd
<1>2. CardType BY DEF CardOK
<1>3. \A q \in Places : dir'[q] = IF SectorOf(q) = s /\ dir[q] = End THEN Unused ELSE dir[q] BY <1>1
<1>4. CardType'
  <2>1. \A q \in Places : dir'[q] \in {End, Unused, More} \cup FileSet BY <1>2, <1>3 DEF CardType
  <2>2. dir' = [q \in Places |-> dir'[q]] BY <1>1
  <2>3. dir' \in [Places -> {End, Unused, More} \cup FileSet] BY <2>1, <2>2
  <2> QED BY <1>1, <1>2, <2>3 DEF CardType
<1>5. \A q \in Places : dir[q] # End => dir'[q] = dir[q] BY <1>3
<1>6. \A q \in Places : dir[q] = End => dir'[q] \in {End, Unused} BY <1>3
<1>7. End.type = "end" /\ Unused.type = "unused" /\ ~InUse(End) /\ ~InUse(Unused) BY DEF End, Unused, InUse
<1>8. Files' = Files
  <2>1. \A q \in Places : (dir'[q].type = "file") <=> (dir[q].type = "file") BY <1>5, <1>6, <1>7
  <2> QED BY <2>1 DEF Files
<1>9. \A q \in Files : dir'[q] = dir[q] BY <1>5, <1>7 DEF Files
<1>10. \A q \in Places : InUse(dir[q])' <=> InUse(dir[q])
  <2> TAKE q \in Places
  <2>1. CASE dir[q] # End BY <2>1, <1>5 DEF InUse
  <2>2. CASE dir[q] = End
    <3>1. dir'[q] \in {End, Unused} BY <2>2, <1>6
    <3> QED BY <2>2, <3>1, <1>7 DEF InUse
  <2> QED BY <2>1, <2>2
<1>11. Sets'
  <2> SUFFICES ASSUME NEW p \in Files' PROVE (p + 2 \in Places /\ dir[p + 1] = More /\ dir[p + 2] = More)'
    BY DEF Sets
  <2>1. p \in Files /\ p \in Places BY <1>8 DEF Files
  <2>2. p + 2 \in Places /\ dir[p + 1] = More /\ dir[p + 2] = More BY <2>1 DEF CardOK, Sets
  <2>3. p + 1 \in Places
    <3>1. p \in Nat BY <2>1, PlaceFacts
    <3>2. p + 1 \in Nat /\ p =< p + 1 /\ p + 1 =< p + 2 BY <3>1
    <3> QED BY <2>1, <2>2, <3>2, Between
  <2>4. More # End BY DEF More, End
  <2> QED BY <2>2, <2>3, <2>4, <1>5
<1>12. EndsLast'
  <2> SUFFICES ASSUME NEW q \in Places, NEW r \in Places, q < r, dir'[q] = End PROVE dir'[r] = End
    BY DEF EndsLast
  <2>1. dir[q] = End /\ SectorOf(q) # s
    <3>1. Unused # End BY DEF Unused, End
    <3> QED BY <3>1, <1>3
  <2>2. dir[r] = End BY <2>1 DEF CardOK, EndsLast
  <2>3. SectorOf(q) \in Nat /\ SectorOf(r) \in Nat /\ q \in Nat /\ r \in Nat BY PlaceFacts
  <2>4. SectorOf(q) =< SectorOf(r)
    <3>1. q =< r BY <2>3
    <3> QED BY <3>1, SectorsGrow
  <2>5. SectorOf(q) > s BY <2>1, <2>3
  <2>6. SectorOf(r) # s BY <2>3, <2>4, <2>5
  <2> QED BY <2>2, <2>6, <1>3
<1>13. Marked' /\ Apart' BY <1>1, <1>8, <1>9 DEF CardOK, Marked, Apart
<1> QED BY <1>1, <1>3, <1>4, <1>8, <1>9, <1>10, <1>11, <1>12, <1>13 DEF CardOK

(* Three places written at once. *)
LEMMA ThreePlaces ==
    ASSUME NEW p \in Places, p + 2 \in Places
    PROVE  p + 1 \in Places /\ p # p + 1 /\ p # p + 2 /\ p + 1 # p + 2
<1>1. p \in Nat BY PlaceFacts
<1>2. p + 1 \in Nat /\ p =< p + 1 /\ p + 1 =< p + 2 BY <1>1
<1> QED BY <1>1, <1>2, Between

LEMMA EntryDoes ==
    ASSUME CardType, NEW p \in Places, p + 2 \in Places, NEW f \in FileSet, Apply(Entry(p, f))
    PROVE  /\ used' = used /\ heap' = heap /\ CardType'
           /\ dir'[p] = f /\ dir'[p + 1] = More /\ dir'[p + 2] = More
           /\ \A q \in Places \ {p, p + 1, p + 2} : dir'[q] = dir[q]
           /\ Files' = (Files \ {p + 1, p + 2}) \cup {p}
<1>1. /\ used' = used /\ heap' = heap
      /\ dir' = [dir EXCEPT ![p] = f, ![p + 1] = More, ![p + 2] = More]
  BY DEF Apply, Entry
<1>2. p + 1 \in Places /\ p # p + 1 /\ p # p + 2 /\ p + 1 # p + 2 BY ThreePlaces
<1>3. dir \in [Places -> {End, Unused, More} \cup FileSet] BY DEF CardType
<1>4. dir'[p] = f /\ dir'[p + 1] = More /\ dir'[p + 2] = More BY <1>1, <1>2, <1>3
<1>5. \A q \in Places \ {p, p + 1, p + 2} : dir'[q] = dir[q] BY <1>1, <1>3
<1>6. dir' \in [Places -> {End, Unused, More} \cup FileSet] BY <1>1, <1>3
<1>7. CardType' BY <1>1, <1>6 DEF CardType
<1>8. f.type = "file" /\ More.type # "file" BY FileFacts DEF More
<1>9. Files' = (Files \ {p + 1, p + 2}) \cup {p} BY <1>2, <1>4, <1>5, <1>8 DEF Files
<1> QED BY <1>1, <1>4, <1>5, <1>7, <1>9

LEMMA UnlinkDoes ==
    ASSUME CardType, NEW p \in Places, p + 2 \in Places,
           dir' = [dir EXCEPT ![p] = Unused, ![p + 1] = Unused, ![p + 2] = Unused]
    PROVE  /\ dir' \in [Places -> {End, Unused, More} \cup FileSet]
           /\ dir'[p] = Unused /\ dir'[p + 1] = Unused /\ dir'[p + 2] = Unused
           /\ \A q \in Places \ {p, p + 1, p + 2} : dir'[q] = dir[q]
           /\ Files' = Files \ {p, p + 1, p + 2}
<1>2. p + 1 \in Places /\ p # p + 1 /\ p # p + 2 /\ p + 1 # p + 2 BY ThreePlaces
<1>3. dir \in [Places -> {End, Unused, More} \cup FileSet] BY DEF CardType
<1>4. dir'[p] = Unused /\ dir'[p + 1] = Unused /\ dir'[p + 2] = Unused BY <1>2, <1>3
<1>5. \A q \in Places \ {p, p + 1, p + 2} : dir'[q] = dir[q] BY <1>3
<1>6. dir' \in [Places -> {End, Unused, More} \cup FileSet] BY <1>3
<1>8. Unused.type # "file" BY DEF Unused
<1>9. Files' = Files \ {p, p + 1, p + 2}
  <2>1. \A q \in Places : (dir'[q].type = "file") <=> (dir[q].type = "file" /\ q \notin {p, p + 1, p + 2})
    BY <1>2, <1>4, <1>5, <1>8
  <2>2. Files' = {q \in Places : dir'[q].type = "file"} BY DEF Files
  <2> QED BY <2>1, <2>2, Zenon DEF Files
<1> QED BY <1>4, <1>5, <1>6, <1>9

(* A file's three places are not another's. *)
LEMMA SetsApart ==
    ASSUME CardType, Sets, NEW p \in Files, NEW q \in Files, p # q
    PROVE  /\ q \notin {p, p + 1, p + 2} /\ q + 1 \notin {p, p + 1, p + 2} /\ q + 2 \notin {p, p + 1, p + 2}
           /\ q + 1 \in Places /\ q + 2 \in Places /\ p + 1 \in Places /\ p + 2 \in Places
<1>1. p \in Places /\ q \in Places BY DEF Files
<1>2. /\ p + 2 \in Places /\ dir[p + 1] = More /\ dir[p + 2] = More
      /\ q + 2 \in Places /\ dir[q + 1] = More /\ dir[q + 2] = More
  BY DEF Sets
<1>3. p + 1 \in Places /\ q + 1 \in Places BY <1>1, <1>2, ThreePlaces
<1>4. dir[p] # More /\ dir[q] # More BY DEF Files, More
<1>5. p \in Nat /\ q \in Nat BY <1>1, PlaceFacts
<1>6. q # p + 1 /\ q # p + 2 /\ p # q + 1 /\ p # q + 2 BY <1>2, <1>4
<1> QED BY <1>2, <1>3, <1>5, <1>6

(* A file's entry unlinked: by exfat_delete, or on a PC. *)
LEMMA UnlinkKept ==
    ASSUME CardOK, NEW p \in Files,
           dir' = [dir EXCEPT ![p] = Unused, ![p + 1] = Unused, ![p + 2] = Unused]
    PROVE  /\ Sets' /\ EndsLast' /\ Apart'
           /\ dir' \in [Places -> {End, Unused, More} \cup FileSet]
           /\ Files' = Files \ {p}
           /\ \A q \in Files \ {p} : dir'[q] = dir[q]
           /\ \A q \in Places : dir'[q] = dir[q] \/ ~InUse(dir[q])'
           /\ \A q \in Places : dir'[q] = End => dir[q] = End
<1>1. CardType /\ Sets /\ EndsLast /\ Apart BY DEF CardOK
<1>2. p \in Places /\ p + 2 \in Places /\ dir[p + 1] = More /\ dir[p + 2] = More BY <1>1 DEF Sets, Files
<1>3. p + 1 \in Places BY <1>2, ThreePlaces
<1>4. /\ dir' \in [Places -> {End, Unused, More} \cup FileSet]
      /\ dir'[p] = Unused /\ dir'[p + 1] = Unused /\ dir'[p + 2] = Unused
      /\ \A q \in Places \ {p, p + 1, p + 2} : dir'[q] = dir[q]
      /\ Files' = Files \ {p, p + 1, p + 2}
  BY <1>1, <1>2, UnlinkDoes
<1>5. p + 1 \notin Files /\ p + 2 \notin Files BY <1>2 DEF Files, More
<1>6. Files' = Files \ {p} BY <1>4, <1>5
<1>7. \A q \in Files \ {p} : dir'[q] = dir[q]
  <2> TAKE q \in Files \ {p}
  <2>1. q \in Places \ {p, p + 1, p + 2} BY <1>5 DEF Files
  <2> QED BY <2>1, <1>4
<1>8. \A q \in Places : dir'[q] = dir[q] \/ ~InUse(dir[q])'
  <2>1. ~InUse(Unused) BY DEF InUse, Unused
  <2> QED BY <2>1, <1>4 DEF InUse
<1>9. \A q \in Places : dir'[q] = End => dir[q] = End
  <2>1. Unused # End BY DEF Unused, End
  <2> QED BY <2>1, <1>4
<1>10. Sets'
  <2> SUFFICES ASSUME NEW q \in Files' PROVE (q + 2 \in Places /\ dir[q + 1] = More /\ dir[q + 2] = More)'
    BY DEF Sets
  <2>1. q \in Files /\ p # q BY <1>6
  <2>2. q + 1 \notin {p, p + 1, p + 2} /\ q + 2 \notin {p, p + 1, p + 2} /\ q + 1 \in Places /\ q + 2 \in Places
    BY <2>1, <1>1, SetsApart
  <2>3. dir[q + 1] = More /\ dir[q + 2] = More BY <2>1, <1>1 DEF Sets
  <2> QED BY <2>2, <2>3, <1>4
<1>11. EndsLast'
  <2> SUFFICES ASSUME NEW q \in Places, NEW r \in Places, q < r, dir'[q] = End PROVE dir'[r] = End
    BY DEF EndsLast
  <2>1. dir[q] = End BY <1>9
  <2>2. dir[r] = End BY <2>1, <1>1 DEF EndsLast
  <2>3. r \notin {p, p + 1, p + 2}
    <3>1. dir[p] # End /\ More # End BY DEF Files, More, End
    <3> QED BY <3>1, <2>2, <1>2
  <2> QED BY <2>2, <2>3, <1>4
<1>12. Apart' BY <1>1, <1>6, <1>7 DEF Apart
<1> QED BY <1>4, <1>6, <1>7, <1>8, <1>9, <1>10, <1>11, <1>12

(* A new file's entry, its clusters marked and no file's. *)
LEMMA NewEntryKept ==
    ASSUME CardOK, NEW p \in Places, p + 2 \in Places, NEW f \in FileSet, Apply(Entry(p, f)),
           \A q \in p..p + 2 : ~InUse(dir[q]),
           FileClusters(f) \subseteq used,
           \A q \in Files : FileClusters(dir[q]) \cap FileClusters(f) = {},
           \A q \in Places : q < p => dir[q] # End
    PROVE  /\ CardOK' /\ used' = used /\ heap' = heap
           /\ p \notin Files /\ Files' = Files \cup {p} /\ dir'[p] = f
           /\ \A q \in Files : dir'[q] = dir[q]
<1>1. CardType /\ Sets /\ EndsLast /\ Apart /\ Marked BY DEF CardOK
<1>2. /\ used' = used /\ heap' = heap /\ CardType'
      /\ dir'[p] = f /\ dir'[p + 1] = More /\ dir'[p + 2] = More
      /\ \A q \in Places \ {p, p + 1, p + 2} : dir'[q] = dir[q]
      /\ Files' = (Files \ {p + 1, p + 2}) \cup {p}
  BY <1>1, EntryDoes
<1>3. p \in Nat /\ p + 1 \in Places BY PlaceFacts, ThreePlaces
<1>4. ~InUse(dir[p]) /\ ~InUse(dir[p + 1]) /\ ~InUse(dir[p + 2])
  <2>1. p \in p..p + 2 /\ p + 1 \in p..p + 2 /\ p + 2 \in p..p + 2 BY <1>3
  <2> QED BY <2>1
<1>5. p \notin Files /\ p + 1 \notin Files /\ p + 2 \notin Files BY <1>4 DEF Files, InUse
<1>6. Files' = Files \cup {p} BY <1>2, <1>5
<1>7. \A q \in Files : dir'[q] = dir[q]
  <2> TAKE q \in Files
  <2>1. q \in Places \ {p, p + 1, p + 2} BY <1>5 DEF Files
  <2> QED BY <2>1, <1>2
<1>8. Sets'
  <2> SUFFICES ASSUME NEW q \in Files' PROVE (q + 2 \in Places /\ dir[q + 1] = More /\ dir[q + 2] = More)'
    BY DEF Sets
  <2>1. CASE q = p BY <2>1, <1>2
  <2>2. CASE q # p
    <3>1. q \in Files /\ q \in Places BY <2>2, <1>6 DEF Files
    <3>2. q + 2 \in Places /\ dir[q + 1] = More /\ dir[q + 2] = More BY <3>1, <1>1 DEF Sets
    <3>3. q + 1 \in Places BY <3>1, <3>2, ThreePlaces
    <3>4. InUse(More) BY DEF InUse, More
    <3>5. q + 1 \notin {p, p + 1, p + 2} /\ q + 2 \notin {p, p + 1, p + 2} BY <3>2, <3>4, <1>4
    <3> QED BY <3>2, <3>3, <3>5, <1>2
  <2> QED BY <2>1, <2>2
<1>9. EndsLast'
  <2> SUFFICES ASSUME NEW q \in Places, NEW r \in Places, q < r, dir'[q] = End PROVE dir'[r] = End
    BY DEF EndsLast
  <2>1. More # End /\ f # End BY Kinds
  <2>2. q \notin {p, p + 1, p + 2} BY <2>1, <1>2
  <2>3. dir[q] = End BY <2>2, <1>2
  <2>4. q \in Nat /\ r \in Nat BY PlaceFacts
  <2>5. ~(q < p) BY <2>3
  <2>6. q > p + 2 BY <2>2, <2>4, <2>5, <1>3
  <2>7. r \notin {p, p + 1, p + 2} BY <2>4, <2>6, <1>3
  <2>8. dir[r] = End BY <2>3, <1>1 DEF EndsLast
  <2> QED BY <2>7, <2>8, <1>2
<1>10. Marked' BY <1>1, <1>2, <1>6, <1>7 DEF Marked
<1>11. Apart'
  <2> SUFFICES ASSUME NEW q \in Files', NEW r \in Files', q # r
               PROVE  FileClusters(dir'[q]) \cap FileClusters(dir'[r]) = {}
    BY DEF Apart, FileClusters, EndOf, ClusterCount
  <2>1. CASE q # p /\ r # p BY <2>1, <1>1, <1>6, <1>7 DEF Apart
  <2>2. CASE q = p BY <2>2, <1>2, <1>6, <1>7
  <2>3. CASE r = p BY <2>3, <1>2, <1>6, <1>7
  <2> QED BY <2>1, <2>2, <2>3
<1> QED BY <1>2, <1>5, <1>6, <1>7, <1>8, <1>9, <1>10, <1>11 DEF CardOK

(* A file's entry rewritten, with fewer blocks. *)
LEMMA TrimEntryKept ==
    ASSUME CardOK, NEW p \in Files, NEW g \in FileSet, Apply(Entry(p, g)),
           FileClusters(g) \subseteq FileClusters(dir[p])
    PROVE  /\ CardOK' /\ used' = used /\ heap' = heap /\ Files' = Files /\ dir'[p] = g
           /\ \A q \in Places \ {p} : dir'[q] = dir[q]
<1>1. CardType /\ Sets /\ EndsLast /\ Apart /\ Marked BY DEF CardOK
<1>2. p \in Places /\ p + 2 \in Places /\ dir[p + 1] = More /\ dir[p + 2] = More BY <1>1 DEF Sets, Files
<1>3. /\ used' = used /\ heap' = heap /\ CardType'
      /\ dir'[p] = g /\ dir'[p + 1] = More /\ dir'[p + 2] = More
      /\ \A q \in Places \ {p, p + 1, p + 2} : dir'[q] = dir[q]
      /\ Files' = (Files \ {p + 1, p + 2}) \cup {p}
  BY <1>1, <1>2, EntryDoes
<1>4. \A q \in Places \ {p} : dir'[q] = dir[q] BY <1>2, <1>3
<1>5. p + 1 \notin Files /\ p + 2 \notin Files BY <1>2 DEF Files, More
<1>6. Files' = Files BY <1>3, <1>5
<1>7. Sets'
  <2> SUFFICES ASSUME NEW q \in Files PROVE q + 2 \in Places /\ dir'[q + 1] = More /\ dir'[q + 2] = More
    BY <1>6 DEF Sets, Places
  <2>1. q \in Places BY DEF Files
  <2>2. q + 2 \in Places /\ dir[q + 1] = More /\ dir[q + 2] = More BY <1>1 DEF Sets
  <2>3. q + 1 \in Places BY <2>1, <2>2, ThreePlaces
  <2>4. dir[p] # More BY DEF Files, More
  <2>5. q + 1 # p /\ q + 2 # p BY <2>2, <2>4
  <2> QED BY <2>2, <2>3, <2>5, <1>4
<1>8. EndsLast'
  <2> SUFFICES ASSUME NEW q \in Places, NEW r \in Places, q < r, dir'[q] = End PROVE dir'[r] = End
    BY DEF EndsLast
  <2>1. g # End /\ dir[p] # End BY Kinds DEF Files, End
  <2>2. q # p /\ dir[q] = End BY <2>1, <1>3, <1>4
  <2>3. dir[r] = End BY <2>2, <1>1 DEF EndsLast
  <2>4. r # p BY <2>1, <2>3
  <2> QED BY <2>3, <2>4, <1>4
<1>9. \A q \in Files : FileClusters(dir'[q]) \subseteq FileClusters(dir[q])
  <2> TAKE q \in Files
  <2>1. CASE q = p BY <2>1, <1>3
  <2>2. CASE q # p
    <3>1. q \in Places \ {p} BY <2>2 DEF Files
    <3>2. dir'[q] = dir[q] BY <3>1, <1>4
    <3> QED BY <3>2
  <2> QED BY <2>1, <2>2
<1>10. Marked'
  <2> SUFFICES ASSUME NEW q \in Files PROVE FileClusters(dir'[q]) \subseteq used
    BY <1>3, <1>6 DEF Marked, FileClusters, EndOf, ClusterCount
  <2> QED BY <1>1, <1>9 DEF Marked
<1>11. Apart'
  <2> SUFFICES ASSUME NEW q \in Files, NEW r \in Files, q # r
               PROVE  FileClusters(dir'[q]) \cap FileClusters(dir'[r]) = {}
    BY <1>6 DEF Apart, FileClusters, EndOf, ClusterCount
  <2> QED BY <1>1, <1>9 DEF Apart
<1> QED BY <1>3, <1>4, <1>6, <1>7, <1>8, <1>10, <1>11 DEF CardOK

-----------------------------------------------------------------------------
(* Plans. *)
LEMMA Concat ==
    ASSUME NEW S, NEW s \in Seq(S), NEW t \in Seq(S)
    PROVE  /\ s \o t \in Seq(S) /\ Len(s \o t) = Len(s) + Len(t)
           /\ \A i \in 1..Len(s) : (s \o t)[i] = s[i]
           /\ \A i \in 1..Len(t) : (s \o t)[Len(s) + i] = t[i]
           /\ \A i \in Len(s) + 1..Len(s) + Len(t) : (s \o t)[i] = t[i - Len(s)]
OBVIOUS

LEMMA TailFacts ==
    ASSUME NEW S, NEW s \in Seq(S), s # <<>>
    PROVE  /\ Head(s) = s[1] /\ s[1] \in S /\ Tail(s) \in Seq(S)
           /\ Len(s) \in Nat /\ Len(s) > 0 /\ Len(Tail(s)) = Len(s) - 1
           /\ \A i \in 1..Len(s) - 1 : Tail(s)[i] = s[i + 1]
           /\ Tail(s) = <<>> <=> Len(s) = 1
<1>1. Len(s) \in Nat /\ Len(s) > 0 OBVIOUS
<1>2. Head(s) = s[1] /\ s[1] \in S BY <1>1
<1>3. Tail(s) \in Seq(S) /\ Len(Tail(s)) = Len(s) - 1 OBVIOUS
<1>4. \A i \in 1..Len(s) - 1 : Tail(s)[i] = s[i + 1] OBVIOUS
<1>5. Tail(s) = <<>> <=> Len(s) = 1
  <2>1. \A t \in Seq(S) : t = <<>> <=> Len(t) = 0 OBVIOUS
  <2>2. Tail(s) = <<>> <=> Len(s) - 1 = 0 BY <1>3, <2>1
  <2> QED BY <1>1, <2>2
<1> QED BY <1>1, <1>2, <1>3, <1>4, <1>5

LEMMA WriteTypes ==
    /\ \A cs \in SUBSET Nat, on \in BOOLEAN : Mark(cs, on) \in WriteSet
    /\ \A s \in Nat : MoveEnd(s) \in WriteSet /\ MoveEnd(s) \in [do : {"end"}, sector : Nat]
    /\ \A p \in Places, f \in FileSet : Entry(p, f) \in WriteSet
    /\ \A p \in Places : Unlink(p) \in WriteSet
    /\ \A b \in Blocks0, e \in {"head", "tail"}, fr \in FrameSet : FrameWrite(b, e, fr) \in WriteSet
<1>1. \A cs \in SUBSET Nat, on \in BOOLEAN : Mark(cs, on) \in WriteSet BY DEF WriteSet, Mark
<1>2. \A s \in Nat : MoveEnd(s) \in WriteSet /\ MoveEnd(s) \in [do : {"end"}, sector : Nat] BY DEF WriteSet, MoveEnd
<1>3. \A p \in Places, f \in FileSet : Entry(p, f) \in WriteSet BY DEF WriteSet, Entry
<1>4. \A p \in Places : Unlink(p) \in WriteSet BY DEF WriteSet, Unlink
<1>5. \A b \in Blocks0, e \in {"head", "tail"}, fr \in FrameSet : FrameWrite(b, e, fr) \in WriteSet
  BY DEF WriteSet, FrameWrite
<1> QED BY <1>1, <1>2, <1>3, <1>4, <1>5

(* bitmap_mark: each of its writes marks some of the clusters, all but
   none is left out. *)
LEMMA BitmapMarks ==
    ASSUME NEW first \in Nat, NEW end \in Nat, NEW on \in BOOLEAN
    PROVE  LET s == BitmapMark(first, end, on)
           IN  /\ s \in Seq(WriteSet)
               /\ \A i \in 1..Len(s) : \E cs \in SUBSET (first..end - 1) : s[i] = Mark(cs, on)
               /\ \A c \in first..end - 1 : \E i \in 1..Len(s) : \E cs \in SUBSET (first..end - 1) :
                      s[i] = Mark(cs, on) /\ c \in cs
<1> DEFINE s == BitmapMark(first, end, on)
           k == (end - 1) \div Bits - first \div Bits + 1
           part(i) == {c \in first..end - 1 : c \div Bits = first \div Bits + i - 1}
<1>1. CASE first >= end
  <2>1. s = <<>> BY <1>1 DEF BitmapMark
  <2>2. first..end - 1 = {} BY <1>1
  <2>3. <<>> \in Seq(WriteSet) /\ Len(<<>>) = 0 OBVIOUS
  <2> QED BY <2>1, <2>2, <2>3
<1>2. CASE first < end
  <2>1. s = [i \in 1..k |-> Mark(part(i), on)] BY <1>2 DEF BitmapMark
  <2>2. Bits \in Nat /\ Bits > 0 /\ end - 1 \in Nat /\ first =< end - 1 BY <1>2, Constants
  <2>3. first \div Bits \in Nat /\ (end - 1) \div Bits \in Nat /\ first \div Bits =< (end - 1) \div Bits
    BY <2>2, Quotient, QuotientGrows
  <2>4. k \in Nat BY <2>3
  <2>5. \A i \in 1..k : part(i) \in SUBSET (first..end - 1) OBVIOUS
  <2>6. first..end - 1 \subseteq Nat OBVIOUS
  <2>7. \A i \in 1..k : Mark(part(i), on) \in WriteSet BY <2>5, <2>6, WriteTypes
  <2>8. \A c \in first..end - 1 : \E i \in 1..k : c \in part(i)
    <3> TAKE c \in first..end - 1
    <3>1. c \in Nat /\ first =< c /\ c =< end - 1 BY <2>2
    <3>2. c \div Bits \in Nat /\ first \div Bits =< c \div Bits /\ c \div Bits =< (end - 1) \div Bits
      BY <2>2, <3>1, Quotient, QuotientGrows
    <3> DEFINE i == c \div Bits - first \div Bits + 1
    <3>3. i \in 1..k /\ c \div Bits = first \div Bits + i - 1 BY <2>3, <3>2
    <3>4. c \in part(i) BY <3>3
    <3> QED BY <3>3, <3>4
  <2> HIDE DEF k, part, s
  <2>9. s \in Seq(WriteSet) /\ Len(s) = k /\ \A i \in 1..k : s[i] = Mark(part(i), on)
    BY <2>1, <2>4, <2>7
  <2>10. \A i \in 1..Len(s) : \E cs \in SUBSET (first..end - 1) : s[i] = Mark(cs, on) BY <2>5, <2>9
  <2>11. \A c \in first..end - 1 : \E i \in 1..Len(s) : \E cs \in SUBSET (first..end - 1) :
             s[i] = Mark(cs, on) /\ c \in cs
    BY <2>5, <2>8, <2>9
  <2> QED BY <2>9, <2>10, <2>11 DEF s
<1> QED BY <1>1, <1>2

(* A plan for a change of a file: its entry, then its clusters unmarked. *)
LEMMA ChangePlan ==
    ASSUME NEW w \in WriteSet, NEW first \in Nat, NEW end \in Nat
    PROVE  LET s == <<w>> \o BitmapMark(first, end, FALSE)
           IN  /\ s \in Seq(WriteSet) /\ s # <<>> /\ s[1] = w
               /\ \A i \in 2..Len(s) : /\ s[i].do = "mark" /\ s[i].on = FALSE
                                       /\ s[i].clusters \subseteq first..end - 1
<1> DEFINE b == BitmapMark(first, end, FALSE)
           s == <<w>> \o b
<1>1. b \in Seq(WriteSet) /\ \A i \in 1..Len(b) : \E cs \in SUBSET (first..end - 1) : b[i] = Mark(cs, FALSE)
  BY BitmapMarks
<1>2. <<w>> \in Seq(WriteSet) /\ Len(<<w>>) = 1 /\ <<w>>[1] = w OBVIOUS
<1> HIDE DEF b
<1>3. s \in Seq(WriteSet) /\ Len(s) = 1 + Len(b) /\ s[1] = w /\ \A i \in 2..1 + Len(b) : s[i] = b[i - 1]
  BY <1>1, <1>2, Concat
<1>4. \A i \in 2..Len(s) : /\ s[i].do = "mark" /\ s[i].on = FALSE
                           /\ s[i].clusters \subseteq first..end - 1
  <2> TAKE i \in 2..Len(s)
  <2>1. Len(b) \in Nat BY <1>1
  <2>2. i - 1 \in 1..Len(b) /\ s[i] = b[i - 1] BY <2>1, <1>3
  <2>3. PICK cs \in SUBSET (first..end - 1) : b[i - 1] = Mark(cs, FALSE) BY <2>2, <1>1
  <2>4. /\ Mark(cs, FALSE).do = "mark" /\ Mark(cs, FALSE).on = FALSE /\ Mark(cs, FALSE).clusters = cs
    BY DEF Mark
  <2>5. s[i] = Mark(cs, FALSE) BY <2>2, <2>3
  <2> HIDE DEF s
  <2> QED BY <2>4, <2>5
<1>5. s # <<>> BY <1>1, <1>3
<1> QED BY <1>3, <1>4, <1>5 DEF b

(* A plan for a new file: its clusters marked, its first sector cleared,
   the end mark moved, and its entry last. *)
LEMMA ClearIsFrame ==
    ASSUME NEW f \in FileSet
    PROVE  ClearFirst(f.first) = FrameWrite(BlockAt(f, 0), "head", Clear) /\ Clear \in FrameSet
           /\ ClearFirst(f.first) \in WriteSet
<1>1. f.first * PerCluster = BlockAt(f, 0) /\ BlockAt(f, 0) \in Blocks0 BY FirstIsOwn
<1>2. ClearFirst(f.first) = FrameWrite(BlockAt(f, 0), "head", Clear) BY <1>1 DEF ClearFirst, FrameWrite
<1>3. Clear \in FrameSet BY DEF Clear, Frame, FrameSet
<1>4. FrameWrite(BlockAt(f, 0), "head", Clear) \in WriteSet BY <1>1, <1>3, WriteTypes
<1> QED BY <1>2, <1>3, <1>4

LEMMA CreatePlan ==
    ASSUME NEW p \in Places, NEW f \in FileSet
    PROVE  LET s == Create(p, f)
           IN  /\ s \in Seq(WriteSet) /\ s # <<>> /\ s[Len(s)] = Entry(p, f)
               /\ \A i \in 1..Len(s) - 1 : s[i] \in MakeWrites(f)
               /\ \A c \in FileClusters(f) : \E i \in 1..Len(s) - 1 : s[i].do = "mark" /\ c \in s[i].clusters
               /\ \E i \in 1..Len(s) : s[i].do = "frame"
               /\ \A i \in 1..Len(s) - 1 : s[i].do = "end" => EndMoved(p) = <<s[i]>>
               /\ \A w : EndMoved(p) = <<w>> => \E i \in 1..Len(s) - 1 : s[i] = w
<1> DEFINE a == BitmapMark(f.first, EndOf(f), TRUE)
           b == FirstCleared(f.first)
           e == EndMoved(p)
           s1 == a \o b
           s2 == s1 \o e
           s == s2 \o <<Entry(p, f)>>
<1>1. f.first \in Nat /\ EndOf(f) \in Nat /\ FileClusters(f) = f.first..EndOf(f) - 1 /\ FileClusters(f) \subseteq Nat
  BY FileFacts DEF FileClusters
<1>2. /\ a \in Seq(WriteSet)
      /\ \A i \in 1..Len(a) : \E cs \in SUBSET FileClusters(f) : a[i] = Mark(cs, TRUE)
      /\ \A c \in FileClusters(f) : \E i \in 1..Len(a) : \E cs \in SUBSET FileClusters(f) : a[i] = Mark(cs, TRUE) /\ c \in cs
  <2>1. /\ a \in Seq(WriteSet)
        /\ \A i \in 1..Len(a) : \E cs \in SUBSET (f.first..EndOf(f) - 1) : a[i] = Mark(cs, TRUE)
        /\ \A c \in f.first..EndOf(f) - 1 : \E i \in 1..Len(a) : \E cs \in SUBSET (f.first..EndOf(f) - 1) :
               a[i] = Mark(cs, TRUE) /\ c \in cs
    <3>1. TRUE \in BOOLEAN OBVIOUS
    <3> QED BY <3>1, <1>1, BitmapMarks
  <2> HIDE DEF a
  <2> QED BY <2>1, <1>1
<1>3. b = <<ClearFirst(f.first)>> /\ b \in Seq(WriteSet) /\ Len(b) = 1 /\ b[1] = ClearFirst(f.first)
  BY ClearIsFrame DEF FirstCleared
<1>4. e = <<>> \/ \E n \in Nat : e = <<MoveEnd(n)>>
  <2>1. CASE EndsBefore(p) # {}
    <3>1. EndsBefore(p) \subseteq Nat BY DEF EndsBefore
    <3>2. Min(EndsBefore(p)) \in Nat /\ Min(EndsBefore(p)) \in EndsBefore(p) BY <2>1, <3>1, MinIsLeast
    <3>3. Min(EndsBefore(p)) > 0 BY <3>2 DEF EndsBefore
    <3>4. Min(EndsBefore(p)) - 1 \in Nat BY <3>2, <3>3
    <3>5. SectorOf(Min(EndsBefore(p))) \in Nat BY <3>4, Constants, Quotient DEF SectorOf
    <3> QED BY <3>5 DEF EndMoved
  <2>2. CASE EndsBefore(p) = {} BY <2>2 DEF EndMoved
  <2> QED BY <2>1, <2>2
<1>5. e \in Seq(WriteSet) /\ Len(e) \in {0, 1}
      /\ \A i \in 1..Len(e) : /\ e[i] \in [do : {"end"}, sector : Nat]
                              /\ e = <<e[i]>>
  <2>1. CASE e = <<>> BY <2>1
  <2>2. CASE e # <<>>
    <3> HIDE DEF e
    <3>1. PICK n \in Nat : e = <<MoveEnd(n)>> BY <1>4, <2>2
    <3>2. MoveEnd(n) \in WriteSet /\ MoveEnd(n) \in [do : {"end"}, sector : Nat] BY WriteTypes
    <3>3. Len(e) = 1 /\ e[1] = MoveEnd(n) /\ e \in Seq(WriteSet) BY <3>1, <3>2
    <3> QED BY <3>1, <3>2, <3>3
  <2> QED BY <1>4, <2>1, <2>2
<1>6. <<Entry(p, f)>> \in Seq(WriteSet) /\ Len(<<Entry(p, f)>>) = 1 /\ <<Entry(p, f)>>[1] = Entry(p, f)
  BY WriteTypes
<1> HIDE DEF a, b, e
<1>7. /\ s1 \in Seq(WriteSet) /\ Len(s1) = Len(a) + 1
      /\ \A i \in 1..Len(a) : s1[i] = a[i]
      /\ s1[Len(a) + 1] = ClearFirst(f.first)
  BY <1>2, <1>3, Concat
<1> HIDE DEF s1
<1>8. /\ s2 \in Seq(WriteSet) /\ Len(s2) = Len(a) + 1 + Len(e)
      /\ \A i \in 1..Len(a) + 1 : s2[i] = s1[i]
      /\ \A i \in 1..Len(e) : s2[Len(a) + 1 + i] = e[i]
  <2>1. /\ s2 \in Seq(WriteSet) /\ Len(s2) = Len(s1) + Len(e)
        /\ \A i \in 1..Len(s1) : s2[i] = s1[i]
        /\ \A i \in 1..Len(e) : s2[Len(s1) + i] = e[i]
    <3>1. e \in Seq(WriteSet) /\ s1 \in Seq(WriteSet) BY <1>5, <1>7
    <3> QED BY <3>1, Concat
  <2> HIDE DEF s2
  <2> QED BY <2>1, <1>2, <1>7
<1> HIDE DEF s2
<1>9. /\ s \in Seq(WriteSet) /\ Len(s) = Len(s2) + 1
      /\ \A i \in 1..Len(s2) : s[i] = s2[i]
      /\ s[Len(s2) + 1] = Entry(p, f)
  BY <1>6, <1>8, Concat
<1> HIDE DEF s
<1>10. Len(a) \in Nat /\ Len(e) \in Nat /\ Len(s) = Len(a) + 2 + Len(e) BY <1>2, <1>5, <1>8, <1>9
<1>11. \A i \in 1..Len(a) : i \in 1..Len(s) - 1 /\ s[i] = a[i] BY <1>7, <1>8, <1>9, <1>10
<1>12. Len(a) + 1 \in 1..Len(s) - 1 /\ s[Len(a) + 1] = ClearFirst(f.first) BY <1>7, <1>8, <1>9, <1>10
<1>13. \A i \in 1..Len(e) : Len(a) + 1 + i \in 1..Len(s) - 1 /\ s[Len(a) + 1 + i] = e[i]
  BY <1>8, <1>9, <1>10
<1>14. \A i \in 1..Len(s) - 1 : \/ i \in 1..Len(a) /\ s[i] = a[i]
                                \/ s[i] = ClearFirst(f.first)
                                \/ \E j \in 1..Len(e) : s[i] = e[j]
  <2> TAKE i \in 1..Len(s) - 1
  <2>1. i \in 1..Len(a) \/ i = Len(a) + 1 \/ \E j \in 1..Len(e) : i = Len(a) + 1 + j
    <3>1. CASE i > Len(a) + 1
      <4>1. i - (Len(a) + 1) \in 1..Len(e) /\ i = Len(a) + 1 + (i - (Len(a) + 1)) BY <3>1, <1>10
      <4> QED BY <4>1
    <3>2. CASE i =< Len(a) + 1 BY <3>2, <1>10
    <3> QED BY <3>1, <3>2, <1>10
  <2> QED BY <2>1, <1>11, <1>12, <1>13
<1>15. \A i \in 1..Len(a) : a[i] \in MarkOn(f) /\ a[i].do = "mark"
  <2> TAKE i \in 1..Len(a)
  <2>1. PICK cs \in SUBSET FileClusters(f) : a[i] = Mark(cs, TRUE) BY <1>2
  <2>2. Mark(cs, TRUE).do = "mark" BY DEF Mark
  <2> QED BY <2>1, <2>2 DEF MarkOn
<1>16. ClearFirst(f.first).do = "frame" BY DEF ClearFirst
<1>17. \A j \in 1..Len(e) : e[j].do = "end" BY <1>5
<1>18. \A i \in 1..Len(s) - 1 : s[i] \in MakeWrites(f)
  BY <1>5, <1>14, <1>15 DEF MakeWrites
<1>19. \A c \in FileClusters(f) : \E i \in 1..Len(s) - 1 : s[i].do = "mark" /\ c \in s[i].clusters
  <2> TAKE c \in FileClusters(f)
  <2>1. PICK i \in 1..Len(a) : \E cs \in SUBSET FileClusters(f) : a[i] = Mark(cs, TRUE) /\ c \in cs BY <1>2
  <2>2. a[i].do = "mark" /\ c \in a[i].clusters BY <2>1 DEF Mark
  <2>3. i \in 1..Len(s) - 1 /\ s[i] = a[i] BY <1>11
  <2> QED BY <2>2, <2>3
<1>20. \E i \in 1..Len(s) : s[i].do = "frame"
  <2>1. Len(a) + 1 \in 1..Len(s) BY <1>10
  <2> QED BY <2>1, <1>12, <1>16
<1>21. \A i \in 1..Len(s) - 1 : s[i].do = "end" => e = <<s[i]>>
  <2> TAKE i \in 1..Len(s) - 1
  <2> HAVE s[i].do = "end"
  <2>1. PICK j \in 1..Len(e) : s[i] = e[j] BY <1>14, <1>15, <1>16
  <2> QED BY <2>1, <1>5
<1>22. \A w : e = <<w>> => \E i \in 1..Len(s) - 1 : s[i] = w
  <2> TAKE w
  <2> HAVE e = <<w>>
  <2>1. 1 \in 1..Len(e) /\ e[1] = w BY <1>5
  <2> QED BY <2>1, <1>13
<1>23. s # <<>> /\ s[Len(s)] = Entry(p, f) BY <1>8, <1>9, <1>10
<1>24. s = Create(p, f) BY DEF s, s1, s2, a, b, e, Create
<1> QED BY <1>9, <1>18, <1>19, <1>20, <1>21, <1>22, <1>23, <1>24 DEF e

-----------------------------------------------------------------------------
(* The card in order, and the plan with it: the start, and each action. *)
LEMMA CardSame ==
    ASSUME CardOK, UNCHANGED card
    PROVE  CardOK' /\ Files' = Files /\ dir' = dir /\ used' = used /\ heap' = heap
<1>1. dir' = dir /\ used' = used /\ heap' = heap BY DEF card
<1>2. Files' = Files BY <1>1 DEF Files
<1>3. CardType' /\ Sets' /\ EndsLast' /\ Marked' /\ Apart'
  BY <1>1, <1>2 DEF CardOK, CardType, Sets, EndsLast, Marked, Apart
<1> QED BY <1>1, <1>2, <1>3 DEF CardOK

LEMMA AtIn ==
    ASSUME StateType, todo # {}
    PROVE  At \in todo /\ At \in Places /\ \A p \in todo : At =< p
<1>1. todo \subseteq Nat /\ todo \subseteq Places BY PlaceFacts DEF StateType
<1> QED BY <1>1, MinIsLeast DEF At

(* The places left to recover, once the least is done. *)
LEMMA TodoDone ==
    ASSUME Inv1, Done, \A p \in Files : p # At => p \in Files' /\ dir'[p] = dir[p]
    PROVE  /\ todo' \in SUBSET Places
           /\ \A p \in todo' : (p \in Files /\ IsCandidate(dir[p]))'
<1>1. todo \subseteq Places /\ todo' = todo \ {At} BY DEF Inv1, StateType, Done
<1>2. \A p \in todo' : p \in Files' /\ IsCandidate(dir[p])'
  <2> TAKE p \in todo'
  <2>1. p \in Files /\ IsCandidate(dir[p]) /\ p # At BY <1>1 DEF Inv1, TodoOK
  <2>2. p \in Files' /\ dir'[p] = dir[p] BY <2>1
  <2> QED BY <2>1, <2>2 DEF IsCandidate
<1>3. todo' \in SUBSET Places BY <1>1
<1> QED BY <1>2, <1>3

LEMMA Inv1Init == Init => Inv1
<1> SUFFICES ASSUME Init PROVE Inv1 OBVIOUS
<1>1. 1 \in Places /\ 2 \in Places /\ 3 \in Places
  <2>1. DirSectors * Slots >= Slots /\ DirSectors * Slots \in Nat
    <3>1. DirSectors = 1 \/ DirSectors > 1 BY Constants
    <3>2. Slots * 1 = Slots BY Constants
    <3>3. DirSectors > 1 => Slots * DirSectors >= Slots * 1 + Slots BY Constants, TimesGrows
    <3>4. Slots * DirSectors = DirSectors * Slots /\ DirSectors * Slots \in Nat BY Constants
    <3> QED BY <3>1, <3>2, <3>3, <3>4, Constants
  <2> QED BY <2>1, Constants DEF Places
<1>2. /\ dir = [p \in Places |-> IF p = 1 THEN Foreign ELSE IF p \in 2..3 THEN More ELSE End]
      /\ used = FileClusters(Foreign)
  BY DEF Init
<1>3. dir[1] = Foreign /\ dir[2] = More /\ dir[3] = More BY <1>1, <1>2
<1>4. Foreign \in FileSet /\ Foreign.type = "file" /\ More.type # "file" /\ End.type # "file"
  BY ForeignFacts, FileFacts DEF More, End
<1>5. Files = {1}
  <2>1. \A p \in Places : p # 1 => dir[p] \in {More, End} BY <1>2
  <2> QED BY <2>1, <1>1, <1>3, <1>4 DEF Files
<1>6. CardType
  <2>1. dir \in [Places -> {End, Unused, More} \cup FileSet] BY <1>2, <1>4
  <2>2. used \in SUBSET Nat BY <1>2, <1>4, FileFacts
  <2>3. Other \in FrameSet /\ Clear \in FrameSet
    BY Constants DEF Other, Clear, Frame, FrameSet
  <2>4. heap \in [Blocks0 -> [head : FrameSet, tail : FrameSet]]
    <3>1. [head |-> Other, tail |-> Other] \in [head : FrameSet, tail : FrameSet]
          /\ [head |-> Clear, tail |-> Clear] \in [head : FrameSet, tail : FrameSet]
      BY <2>3
    <3>2. heap = [b \in Blocks0 |-> IF b \div PerCluster \in FileClusters(Foreign) THEN [head |-> Other, tail |-> Other]
                                     ELSE [head |-> Clear, tail |-> Clear]]
      BY DEF Init, Blocks0
    <3> QED BY <3>1, <3>2
  <2> QED BY <2>1, <2>2, <2>4 DEF CardType
<1>7. Sets BY <1>1, <1>3, <1>5 DEF Sets
<1>8. EndsLast
  <2> SUFFICES ASSUME NEW p \in Places, NEW q \in Places, p < q, dir[p] = End PROVE dir[q] = End
    BY DEF EndsLast
  <2>1. Foreign # End /\ More # End BY ForeignFacts, Kinds
  <2>2. p # 1 /\ p \notin 2..3 BY <2>1, <1>2
  <2>3. p \in Nat /\ q \in Nat /\ p > 0 BY PlaceFacts
  <2>4. q # 1 /\ q \notin 2..3 BY <2>2, <2>3
  <2> QED BY <2>4, <1>2
<1>9. Marked /\ Apart BY <1>2, <1>3, <1>5 DEF Marked, Apart
<1>10. /\ pc = "idle" /\ plan = <<>> /\ todo = {} /\ lo = 0 /\ hi = 0 /\ skip = 0 /\ last = FALSE /\ clean = TRUE
       /\ log = [id |-> 0, place |-> 1, file |-> Foreign]
       /\ made = [id \in 1..Logs |-> [place |-> 1, whole |-> 0]]
  BY DEF Init
<1>11. StateType
  <2>1. plan \in Seq(WriteSet) BY <1>10
  <2>2. log \in [id : 0..Logs, place : Places, file : FileSet] BY <1>1, <1>4, <1>10, Constants
  <2>3. made \in [1..Logs -> [place : Places, whole : 0..Blocks]] BY <1>1, <1>10, Constants
  <2> QED BY <2>1, <2>2, <2>3, <1>10 DEF StateType
<1>12. MakeOK /\ LogOK /\ ChangeOK /\ IdleOK /\ TodoOK /\ FindOK
  BY <1>10 DEF MakeOK, LogOK, ChangeOK, IdleOK, TodoOK, FindOK
<1> QED BY <1>6, <1>7, <1>8, <1>9, <1>11, <1>12 DEF Inv1, CardOK

(* The actions that write nothing. *)
LEMMA StartRecoverKeeps == ASSUME Inv1, StartRecover PROVE Inv1'
<1>1. UNCHANGED card /\ pc' = "recover" /\ plan = <<>> /\ plan' = plan /\ todo' = {} /\ skip' = 0 /\ last' = FALSE
      /\ clean' = TRUE /\ log' = log /\ lo' = lo /\ hi' = hi /\ made' = made
  BY DEF StartRecover, Idle
<1>2. CardOK' BY <1>1, CardSame DEF Inv1
<1>3. StateType' BY <1>1 DEF Inv1, StateType
<1>4. MakeOK' /\ LogOK' /\ ChangeOK' /\ IdleOK' /\ TodoOK' /\ FindOK'
  BY <1>1 DEF MakeOK, LogOK, ChangeOK, IdleOK, TodoOK, FindOK
<1> QED BY <1>2, <1>3, <1>4 DEF Inv1

LEMMA GatherKeeps == ASSUME Inv1, Gather PROVE Inv1'
<1>1. UNCHANGED card /\ pc = "recover" /\ pc' = pc /\ plan = <<>> /\ plan' = plan /\ skip' = skip
      /\ clean' = clean /\ log' = log /\ lo' = lo /\ hi' = hi /\ made' = made
      /\ todo' = Gathered /\ last' \in BOOLEAN
  BY DEF Gather
<1>2. CardOK' /\ Files' = Files /\ dir' = dir BY <1>1, CardSame DEF Inv1
<1>3. \A p \in Gathered : p \in Places /\ p \in Files /\ IsCandidate(dir[p])
  BY DEF Gathered, Candidates, Listed, Files
<1>4. StateType' BY <1>1, <1>3 DEF Inv1, StateType
<1>5. TodoOK'
  <2>1. \A p \in todo' : (p \in Files /\ IsCandidate(dir[p]))' BY <1>1, <1>2, <1>3 DEF IsCandidate
  <2> QED BY <2>1, <1>1 DEF TodoOK
<1>6. MakeOK' /\ LogOK' /\ ChangeOK' /\ IdleOK' /\ FindOK'
  BY <1>1 DEF MakeOK, LogOK, ChangeOK, IdleOK, FindOK
<1> QED BY <1>2, <1>4, <1>5, <1>6 DEF Inv1

LEMMA GatherFailsKeeps == ASSUME Inv1, GatherFails PROVE Inv1'
<1>1. UNCHANGED card /\ pc' = "idle" /\ plan = <<>> /\ plan' = plan /\ skip' = 0 /\ last' = last
      /\ clean' = FALSE /\ log' = log /\ lo' = lo /\ hi' = hi /\ made' = made /\ todo = {} /\ todo' = todo
  BY DEF GatherFails
<1>2. CardOK' BY <1>1, CardSame DEF Inv1
<1>3. StateType' BY <1>1 DEF Inv1, StateType
<1>4. MakeOK' /\ LogOK' /\ ChangeOK' /\ IdleOK' /\ TodoOK' /\ FindOK'
  BY <1>1 DEF MakeOK, LogOK, ChangeOK, IdleOK, TodoOK, FindOK
<1> QED BY <1>2, <1>3, <1>4 DEF Inv1

LEMMA RecoveredKeeps == ASSUME Inv1, Recovered PROVE Inv1'
<1>1. UNCHANGED card /\ pc' = "recovered" /\ plan = <<>> /\ plan' = plan /\ skip' = skip /\ last' = last
      /\ clean' = clean /\ log' = log /\ lo' = lo /\ hi' = hi /\ made' = made /\ todo = {} /\ todo' = todo
  BY DEF Recovered, recovery
<1>2. CardOK' BY <1>1, CardSame DEF Inv1
<1>3. StateType' BY <1>1 DEF Inv1, StateType
<1>4. MakeOK' /\ LogOK' /\ ChangeOK' /\ IdleOK' /\ TodoOK' /\ FindOK'
  BY <1>1 DEF MakeOK, LogOK, ChangeOK, IdleOK, TodoOK, FindOK
<1> QED BY <1>2, <1>3, <1>4 DEF Inv1

LEMMA CutKeeps == ASSUME Inv1, Cut PROVE Inv1'
<1>1. UNCHANGED card /\ pc' = "idle" /\ plan' = <<>> /\ skip' = 0 /\ last' = FALSE
      /\ clean' = clean /\ log' = log /\ lo' = 0 /\ hi' = 0 /\ made' = made /\ todo' = {}
  BY DEF Cut
<1>2. CardOK' BY <1>1, CardSame DEF Inv1
<1>3. <<>> \in Seq(WriteSet) OBVIOUS
<1>4. StateType' BY <1>1, <1>3 DEF Inv1, StateType
<1>5. MakeOK' /\ LogOK' /\ ChangeOK' /\ IdleOK' /\ TodoOK' /\ FindOK'
  BY <1>1 DEF MakeOK, LogOK, ChangeOK, IdleOK, TodoOK, FindOK
<1> QED BY <1>2, <1>4, <1>5 DEF Inv1

(* The bisection: its middle is below its end. *)
LEMMA Middle ==
    ASSUME NEW a \in Nat, NEW b \in Nat, a < b
    PROVE  a + (b - a) \div 2 \in Nat /\ a =< a + (b - a) \div 2 /\ a + (b - a) \div 2 < b
OBVIOUS

LEMMA ProbeKeeps == ASSUME Inv1, Probe PROVE Inv1'
<1> DEFINE mid == lo + (hi - lo) \div 2
<1>1. UNCHANGED card /\ pc = "find" /\ pc' = pc /\ plan' = plan /\ skip' = skip /\ last' = last
      /\ clean' = clean /\ log' = log /\ made' = made /\ todo' = todo /\ lo < hi
      /\ ((lo' = mid + 1 /\ hi' = hi) \/ (lo' = lo /\ hi' = mid))
  BY DEF Probe
<1>2. CardOK' /\ Files' = Files /\ dir' = dir BY <1>1, CardSame DEF Inv1
<1>3. lo \in Nat /\ hi \in Nat /\ lo > 0 /\ hi =< Blocks BY <1>1, Constants DEF Inv1, StateType, FindOK
<1>4. mid \in Nat /\ lo =< mid /\ mid < hi BY <1>1, <1>3, Middle
<1> HIDE DEF mid
<1>5. lo' \in Nat /\ hi' \in Nat /\ lo' \in 1..hi' /\ hi' =< Blocks BY <1>1, <1>3, <1>4, Constants
<1>6. StateType' BY <1>1, <1>5 DEF Inv1, StateType
<1>7. plan = <<>> BY <1>1 DEF Inv1, IdleOK
<1>8. TodoOK'
  <2>1. todo # {} /\ \A p \in todo : p \in Files /\ IsCandidate(dir[p]) BY <1>1, <1>7 DEF Inv1, TodoOK
  <2> QED BY <2>1, <1>1, <1>2 DEF TodoOK, IsCandidate
<1>9. MakeOK' /\ LogOK' /\ ChangeOK' /\ IdleOK' /\ FindOK'
  BY <1>1, <1>5, <1>7 DEF MakeOK, LogOK, ChangeOK, IdleOK, FindOK
<1> QED BY <1>2, <1>6, <1>8, <1>9 DEF Inv1

LEMMA ReadFailsKeeps == ASSUME Inv1, ReadFails PROVE Inv1'
<1>1. UNCHANGED card /\ pc' = "recover" /\ plan = <<>> /\ plan' = plan /\ skip' = skip + 1 /\ last' = last
      /\ clean' = FALSE /\ log' = log /\ made' = made /\ lo' = 0 /\ hi' = 0 /\ Done
  BY DEF ReadFails, PassOver
<1>2. CardOK' /\ Files' = Files /\ dir' = dir BY <1>1, CardSame DEF Inv1
<1>3. todo' \in SUBSET Places /\ \A p \in todo' : (p \in Files /\ IsCandidate(dir[p]))'
  BY <1>1, <1>2, TodoDone
<1>4. StateType'
  <2>1. skip' \in Nat BY <1>1 DEF Inv1, StateType
  <2> QED BY <2>1, <1>1, <1>3 DEF Inv1, StateType
<1>5. TodoOK' BY <1>1, <1>3 DEF TodoOK
<1>6. MakeOK' /\ LogOK' /\ ChangeOK' /\ IdleOK' /\ FindOK'
  BY <1>1 DEF MakeOK, LogOK, ChangeOK, IdleOK, FindOK
<1> QED BY <1>2, <1>4, <1>5, <1>6 DEF Inv1

(* The plans of exfat_trim and exfat_delete. *)
LEMMA TrimPlan ==
    ASSUME NEW p \in Places, NEW f \in FileSet, NEW n \in 1..Blocks, IsCandidate(f)
    PROVE  LET s == Trim(p, f, n)
               g == File(f.first, n, n)
           IN  /\ s \in Seq(WriteSet) /\ s # <<>> /\ s[1] = Entry(p, g) /\ g \in FileSet
               /\ \A i \in 2..Len(s) : /\ s[i].do = "mark" /\ s[i].on = FALSE
                                       /\ s[i].clusters \subseteq FileClusters(f) \ FileClusters(g)
<1> DEFINE g == File(f.first, n, n)
           e == f.first + ClusterCount(n)
           s == <<Entry(p, g)>> \o BitmapMark(e, EndOf(f), FALSE)
<1>1. f.blocks = Blocks /\ n =< f.blocks BY Constants DEF IsCandidate
<1>2. g \in FileSet /\ e \in Nat /\ e..EndOf(f) - 1 = FileClusters(f) \ FileClusters(g)
  BY <1>1, Shortened
<1>3. EndOf(f) \in Nat BY FileFacts
<1>4. Entry(p, g) \in WriteSet BY <1>2, WriteTypes
<1>5. Trim(p, f, n) = s BY DEF Trim
<1> HIDE DEF g, e
<1>6. /\ s \in Seq(WriteSet) /\ s # <<>> /\ s[1] = Entry(p, g)
      /\ \A i \in 2..Len(s) : /\ s[i].do = "mark" /\ s[i].on = FALSE
                              /\ s[i].clusters \subseteq e..EndOf(f) - 1
  BY <1>2, <1>3, <1>4, ChangePlan
<1> HIDE DEF s
<1> QED BY <1>2, <1>5, <1>6 DEF g

LEMMA DeletePlan ==
    ASSUME NEW p \in Places, NEW f \in FileSet
    PROVE  LET s == Delete(p, f)
           IN  /\ s \in Seq(WriteSet) /\ s # <<>> /\ s[1] = Unlink(p)
               /\ \A i \in 2..Len(s) : /\ s[i].do = "mark" /\ s[i].on = FALSE
                                       /\ s[i].clusters \subseteq FileClusters(f)
<1> DEFINE s == <<Unlink(p)>> \o BitmapMark(f.first, EndOf(f), FALSE)
<1>1. f.first \in Nat /\ EndOf(f) \in Nat /\ FileClusters(f) = f.first..EndOf(f) - 1 BY FileFacts DEF FileClusters
<1>2. Unlink(p) \in WriteSet BY WriteTypes
<1>3. Delete(p, f) = s BY DEF Delete
<1>4. /\ s \in Seq(WriteSet) /\ s # <<>> /\ s[1] = Unlink(p)
      /\ \A i \in 2..Len(s) : /\ s[i].do = "mark" /\ s[i].on = FALSE
                              /\ s[i].clusters \subseteq f.first..EndOf(f) - 1
  BY <1>1, <1>2, ChangePlan
<1> HIDE DEF s
<1> QED BY <1>1, <1>3, <1>4

LEMMA ReadHeaderKeeps == ASSUME Inv1, ReadHeader PROVE Inv1'
<1>1. UNCHANGED card /\ pc = "recover" /\ plan = <<>> /\ todo # {} /\ log' = log /\ last' = last /\ made' = made
      /\ clean' = clean
  BY DEF ReadHeader
<1>2. CardOK' /\ Files' = Files /\ dir' = dir BY <1>1, CardSame DEF Inv1
<1>3. At \in todo /\ At \in Places /\ At \in Files /\ IsCandidate(dir[At]) BY <1>1, AtIn DEF Inv1, TodoOK
<1>4. dir[At] \in FileSet /\ dir[At].blocks = Blocks BY <1>3, EntryKinds DEF Inv1, CardOK, IsCandidate
<1>5. (At)' = At \/ todo' # todo BY DEF At
<1>6. \A p \in todo : p \in Files /\ IsCandidate(dir[p]) BY <1>1 DEF Inv1, TodoOK
<1>7. CASE pc' = "find" /\ lo' = 1 /\ hi' = dir[At].blocks /\ UNCHANGED <<plan, todo, skip>>
  <2>1. lo' \in Nat /\ hi' \in Nat /\ lo' \in 1..hi' /\ hi' =< Blocks BY <1>4, <1>7, Constants
  <2>2. StateType' BY <1>1, <1>7, <2>1 DEF Inv1, StateType
  <2>3. TodoOK' BY <1>1, <1>2, <1>6, <1>7 DEF TodoOK, IsCandidate
  <2>4. MakeOK' /\ LogOK' /\ ChangeOK' /\ IdleOK' /\ FindOK'
    BY <1>1, <1>7, <2>1 DEF MakeOK, LogOK, ChangeOK, IdleOK, FindOK
  <2> QED BY <1>2, <2>2, <2>3, <2>4 DEF Inv1
<1>8. CASE plan' = Delete(At, dir[At]) /\ UNCHANGED <<pc, lo, hi, todo, skip>>
  <2>1. /\ plan' \in Seq(WriteSet) /\ plan' # <<>> /\ plan'[1] = Unlink(At)
        /\ \A i \in 2..Len(plan') : /\ plan'[i].do = "mark" /\ plan'[i].on = FALSE
                                    /\ plan'[i].clusters \subseteq FileClusters(dir[At])
    BY <1>3, <1>4, <1>8, DeletePlan
  <2>2. StateType' BY <1>1, <1>8, <2>1 DEF Inv1, StateType
  <2>3. TodoOK' BY <1>1, <1>2, <1>6, <1>8 DEF TodoOK, IsCandidate
  <2>4. Changed' = At /\ At' = At BY <1>1, <1>8 DEF Changed, At
  <2>5. ChangeReady'
    <3>1. Deletes' BY <1>2, <1>3, <2>1, <2>4 DEF Deletes, IsCandidate, FileClusters, EndOf, ClusterCount
    <3> QED BY <1>3, <2>1, <2>4, <3>1 DEF ChangeReady
  <2>6. MakeOK' /\ LogOK' /\ ChangeOK' /\ IdleOK' /\ FindOK'
    BY <1>1, <1>8, <2>5 DEF MakeOK, LogOK, ChangeOK, IdleOK, FindOK
  <2> QED BY <1>2, <2>2, <2>3, <2>6 DEF Inv1
<1>9. CASE Done /\ PassOver /\ UNCHANGED <<pc, lo, hi, plan>>
  <2>1. todo' \in SUBSET Places /\ \A p \in todo' : (p \in Files /\ IsCandidate(dir[p]))'
    BY <1>2, <1>9, TodoDone
  <2>2. skip' \in Nat BY <1>9 DEF Inv1, StateType, PassOver
  <2>3. StateType' BY <1>1, <1>9, <2>1, <2>2 DEF Inv1, StateType
  <2>4. TodoOK' BY <1>1, <1>9, <2>1 DEF TodoOK
  <2>5. MakeOK' /\ LogOK' /\ ChangeOK' /\ IdleOK' /\ FindOK'
    BY <1>1, <1>9 DEF MakeOK, LogOK, ChangeOK, IdleOK, FindOK
  <2> QED BY <1>2, <2>3, <2>4, <2>5 DEF Inv1
<1> QED BY <1>7, <1>8, <1>9 DEF ReadHeader

LEMMA FoundKeeps == ASSUME Inv1, Found PROVE Inv1'
<1>1. UNCHANGED card /\ pc = "find" /\ pc' = "recover" /\ lo >= hi /\ todo' = todo /\ skip' = skip /\ log' = log
      /\ last' = last /\ made' = made /\ clean' = clean /\ lo' = 0 /\ hi' = 0
      /\ plan' = Trim(At, dir[At], lo)
  BY DEF Found
<1>2. CardOK' /\ Files' = Files /\ dir' = dir BY <1>1, CardSame DEF Inv1
<1>3. plan = <<>> /\ todo # {} BY <1>1 DEF Inv1, IdleOK, TodoOK
<1>4. At \in todo /\ At \in Places /\ At \in Files /\ IsCandidate(dir[At]) BY <1>3, AtIn DEF Inv1, TodoOK
<1>5. dir[At] \in FileSet BY <1>4, EntryKinds DEF Inv1, CardOK
<1>6. \A p \in todo : p \in Files /\ IsCandidate(dir[p]) BY <1>3 DEF Inv1, TodoOK
<1>7. lo \in 1..Blocks BY <1>1, Constants DEF Inv1, FindOK, StateType
<1> DEFINE g == File(dir[At].first, lo, lo)
<1>8. /\ plan' \in Seq(WriteSet) /\ plan' # <<>> /\ plan'[1] = Entry(At, g) /\ g \in FileSet
      /\ \A i \in 2..Len(plan') : /\ plan'[i].do = "mark" /\ plan'[i].on = FALSE
                                  /\ plan'[i].clusters \subseteq FileClusters(dir[At]) \ FileClusters(g)
  <2> DEFINE s == Trim(At, dir[At], lo)
  <2>1. /\ s \in Seq(WriteSet) /\ s # <<>> /\ s[1] = Entry(At, g) /\ g \in FileSet
        /\ \A i \in 2..Len(s) : /\ s[i].do = "mark" /\ s[i].on = FALSE
                                /\ s[i].clusters \subseteq FileClusters(dir[At]) \ FileClusters(g)
    BY <1>4, <1>5, <1>7, TrimPlan
  <2>2. plan' = s BY <1>1
  <2> HIDE DEF s
  <2> QED BY <2>1, <2>2
<1>9. StateType' BY <1>1, <1>8 DEF Inv1, StateType
<1>10. TodoOK' BY <1>1, <1>2, <1>3, <1>6 DEF TodoOK, IsCandidate
<1>11. Changed' = At BY <1>1 DEF Changed, At
<1>12. ChangeReady'
  <2>1. Shortens'
    <3>1. PICK n \in 1..Blocks : n = lo BY <1>7
    <3>2. Changed' \in Files' /\ IsCandidate(dir[Changed])' BY <1>2, <1>4, <1>11 DEF IsCandidate
    <3>3. plan'[1] = Entry(At, File(dir[At].first, n, n)) BY <1>8, <3>1
    <3>4. \A i \in 2..Len(plan') : plan'[i].clusters \subseteq FileClusters(dir[At]) \ FileClusters(File(dir[At].first, n, n))
      BY <1>8, <3>1
    <3> QED BY <1>2, <1>11, <3>2, <3>3, <3>4 DEF Shortens
  <2> QED BY <1>4, <1>8, <1>11, <2>1 DEF ChangeReady
<1>13. MakeOK' /\ LogOK' /\ ChangeOK' /\ IdleOK' /\ FindOK'
  BY <1>1, <1>12 DEF MakeOK, LogOK, ChangeOK, IdleOK, FindOK
<1> QED BY <1>2, <1>9, <1>10, <1>13 DEF Inv1

(* log_make takes the first free places: the end marks before them are all
   in one sector, the first with any. *)
LEMMA FreePlaceEnds ==
    ASSUME CardOK, NEW p \in FreePlaces, \A q \in FreePlaces : p =< q
    PROVE  /\ \A q \in Places : q < p /\ dir[q] = End => EndMoved(p) = <<MoveEnd(SectorOf(q))>>
           /\ \A w : EndMoved(p) = <<w>> => \A q \in Places : SectorOf(q) < w.sector => dir[q] # End
<1> DEFINE m == Min(EndsBefore(p))
<1>1. p \in Places /\ p + 2 \in Places /\ SectorOf(p) = SectorOf(p + 2) /\ p \in Nat /\ p > 0
  BY PlaceFacts DEF FreePlaces
<1>2. EndsBefore(p) \subseteq Places /\ \A q \in EndsBefore(p) : dir[q] = End /\ q =< p + 2
  <2> SUFFICES ASSUME NEW q \in EndsBefore(p) PROVE q \in Places /\ dir[q] = End /\ q =< p + 2 OBVIOUS
  <2>1. q \in 1..p + 2 /\ dir[q] = End BY DEF EndsBefore
  <2>2. q \in Nat /\ 1 =< q /\ q =< p + 2 BY <2>1, <1>1
  <2>3. DirSectors * Slots \in Nat /\ p + 2 =< DirSectors * Slots BY <1>1, Constants DEF Places
  <2>4. q \in Places BY <2>2, <2>3, <1>1 DEF Places
  <2> QED BY <2>1, <2>2, <2>4
<1>3. \A q \in Places : q =< p + 2 /\ dir[q] = End => q \in EndsBefore(p)
  <2> SUFFICES ASSUME NEW q \in Places, q =< p + 2, dir[q] = End PROVE q \in EndsBefore(p) OBVIOUS
  <2>1. q \in Nat /\ q > 0 BY PlaceFacts
  <2>2. q \in 1..p + 2 BY <2>1, <1>1
  <2> QED BY <2>2 DEF EndsBefore
<1>4. EndsBefore(p) # {} => m \in EndsBefore(p) /\ \A q \in EndsBefore(p) : m =< q
  <2>1. EndsBefore(p) \subseteq Nat BY <1>2, PlaceFacts
  <2> QED BY <2>1, MinIsLeast
<1> HIDE DEF m
(* Three places of a sector from an end mark on are free. *)
<1>5. \A r \in Places : r + 2 \in Places /\ SectorOf(r) = SectorOf(r + 2)
          /\ (\E q \in Places : q =< r /\ dir[q] = End) => r \in FreePlaces
  <2> SUFFICES ASSUME NEW r \in Places, r + 2 \in Places, SectorOf(r) = SectorOf(r + 2),
                      NEW q \in Places, q =< r, dir[q] = End
               PROVE  r \in FreePlaces
    OBVIOUS
  <2>1. q \in Nat /\ r \in Nat BY PlaceFacts
  <2>2. \A x \in r..r + 2 : ~InUse(dir[x])
    <3> TAKE x \in r..r + 2
    <3>1. x \in Nat /\ r =< x /\ x =< r + 2 BY <2>1
    <3>2. x \in Places BY <3>1, Between
    <3>3. dir[x] = End
      <4>1. CASE q = x BY <4>1
      <4>2. CASE q < x BY <4>2, <3>2 DEF CardOK, EndsLast
      <4> QED BY <4>1, <4>2, <2>1, <3>1
    <3> QED BY <3>3 DEF InUse, End
  <2> QED BY <2>2 DEF FreePlaces
<1>6. \A q \in Places : q < p /\ dir[q] = End => SectorOf(q) < SectorOf(p)
  <2> SUFFICES ASSUME NEW q \in Places, q < p, dir[q] = End, ~(SectorOf(q) < SectorOf(p)) PROVE FALSE OBVIOUS
  <2>1. q \in Nat /\ SectorOf(q) \in Nat /\ SectorOf(p) \in Nat BY <1>1, PlaceFacts
  <2>2. q + 2 \in Nat /\ q =< q + 2 /\ q + 2 =< p + 2 /\ q =< p BY <2>1, <1>1
  <2>3. q + 2 \in Places BY <2>2, <1>1, Between
  <2>4. SectorOf(q) =< SectorOf(q + 2) /\ SectorOf(q + 2) =< SectorOf(p + 2) /\ SectorOf(q) =< SectorOf(p)
    BY <2>2, <2>3, <1>1, SectorsGrow
  <2>5. SectorOf(q + 2) \in Nat BY <2>3, PlaceFacts
  <2>6. SectorOf(q) = SectorOf(q + 2) BY <2>1, <2>4, <2>5, <1>1
  <2>7. q =< q BY <2>1
  <2>8. q \in FreePlaces BY <2>3, <2>6, <2>7, <1>5
  <2>9. p =< q BY <2>8
  <2> QED BY <2>1, <2>9, <1>1
<1>7. \A q \in Places : q < p /\ dir[q] = End => SectorOf(q) = SectorOf(m) /\ m \in EndsBefore(p)
  <2> SUFFICES ASSUME NEW q \in Places, q < p, dir[q] = End
               PROVE  SectorOf(q) = SectorOf(m) /\ m \in EndsBefore(p)
    OBVIOUS
  <2>1. q \in Nat /\ q =< p + 2 BY <1>1, PlaceFacts
  <2>2. q \in EndsBefore(p) BY <2>1, <1>3
  <2>3. m \in EndsBefore(p) /\ m =< q /\ m \in Places /\ dir[m] = End BY <2>2, <1>2, <1>4
  <2>4. m \in Nat /\ SectorOf(m) \in Nat /\ SectorOf(q) \in Nat BY <2>3, PlaceFacts
  <2>5. SectorOf(m) =< SectorOf(q) BY <2>3, SectorsGrow
  <2>6. ASSUME SectorOf(m) < SectorOf(q) PROVE FALSE
    <3>1. PICK r \in Places : m < r /\ r =< q /\ r + 2 \in Places /\ SectorOf(r + 2) = SectorOf(r)
      BY <2>3, <2>6, NextSector
    <3>2. r \in Nat /\ m =< r BY <3>1, <2>4, PlaceFacts
    <3>3. r \in FreePlaces BY <2>3, <3>1, <3>2, <1>5
    <3>4. p =< r BY <3>3
    <3> QED BY <2>1, <3>1, <3>2, <3>4, <1>1
  <2> QED BY <2>3, <2>4, <2>5, <2>6
<1>8. ASSUME NEW q \in Places, q < p, dir[q] = End PROVE EndMoved(p) = <<MoveEnd(SectorOf(q))>>
  <2>1. SectorOf(q) = SectorOf(m) /\ m \in EndsBefore(p) BY <1>7, <1>8
  <2>2. SectorOf(q) \in Nat /\ SectorOf(p) \in Nat BY <1>1, PlaceFacts
  <2>3. SectorOf(q) < SectorOf(p) BY <1>6, <1>8
  <2>4. SectorOf(m) # SectorOf(p) BY <2>1, <2>2, <2>3
  <2> QED BY <2>1, <2>4 DEF EndMoved, m
<1>9. ASSUME NEW w, EndMoved(p) = <<w>>, NEW q \in Places, SectorOf(q) < w.sector, dir[q] = End PROVE FALSE
  <2>1. EndsBefore(p) # {} /\ w = MoveEnd(SectorOf(m))
    <3>1. <<w>> # <<>> /\ <<w>>[1] = w OBVIOUS
    <3>2. EndsBefore(p) # {} BY <1>9, <3>1 DEF EndMoved
    <3>3. <<w>> = <<MoveEnd(SectorOf(m))>> BY <1>9, <3>1 DEF EndMoved, m
    <3> QED BY <3>2, <3>3
  <2>2. w.sector = SectorOf(m) BY <2>1 DEF MoveEnd
  <2>3. m \in EndsBefore(p) /\ m \in Places /\ m =< p + 2 BY <2>1, <1>2, <1>4
  <2>4. q \in Nat /\ m \in Nat /\ SectorOf(q) \in Nat /\ SectorOf(m) \in Nat BY <2>3, PlaceFacts
  <2>5. ASSUME m =< q PROVE FALSE
    <3>1. SectorOf(m) =< SectorOf(q) BY <2>3, <2>5, SectorsGrow
    <3> QED BY <3>1, <2>2, <2>4, <1>9
  <2>6. q < m /\ q =< p + 2 BY <2>3, <2>4, <2>5, <1>1
  <2>7. q \in EndsBefore(p) BY <2>6, <1>3, <1>9
  <2>8. m =< q BY <2>7, <1>4
  <2> QED BY <2>5, <2>8
<1> QED BY <1>8, <1>9

LEMMA MakeChooses ==
    ASSUME Inv1, FreeRuns # {}, FreePlaces # {}
    PROVE  LET f == File(Min(FreeRuns), Blocks, 0)
               p == Min(FreePlaces)
           IN  /\ f \in FileSet /\ IsCandidate(f) /\ FileClusters(f) \cap used = {}
               /\ p \in FreePlaces /\ p \in Places /\ \A q \in FreePlaces : p =< q
<1> DEFINE c == Min(FreeRuns)
           f == File(c, Blocks, 0)
           p == Min(FreePlaces)
<1>1. ClusterCount(Blocks) \in Nat BY Constants, ClusterCounts
<1>2. FreeRuns \subseteq Nat /\ \A x \in FreeRuns : x \in 0..Clusters - ClusterCount(Blocks)
  BY <1>1, Constants DEF FreeRuns
<1>3. c \in FreeRuns BY <1>2, MinIsLeast
<1>4. c \in Nat /\ c =< Clusters - ClusterCount(Blocks)
  <2>1. c \in 0..Clusters - ClusterCount(Blocks) BY <1>2, <1>3
  <2>2. Clusters - ClusterCount(Blocks) \in Int BY <1>1, Constants
  <2> HIDE DEF c
  <2> QED BY <2>1, <2>2
<1>5. FileClusters(f) \cap used = {} BY <1>3 DEF FreeRuns
<1>6. FreePlaces \subseteq Places /\ Places \subseteq Nat BY PlaceFacts DEF FreePlaces
<1>7. p \in FreePlaces /\ \A q \in FreePlaces : p =< q BY <1>6, MinIsLeast
<1> HIDE DEF c, p
<1>8. f.type = "file" /\ f.first = c /\ f.blocks = Blocks /\ f.valid = 0 BY FileFields
<1>9. EndOf(f) = c + ClusterCount(Blocks) BY <1>8 DEF EndOf
<1>10. EndOf(f) =< Clusters BY <1>1, <1>4, <1>9, Constants
<1>11. f \in [type : {"file"}, first : Nat, blocks : 1..Blocks, valid : 0..Blocks]
  BY <1>4, Constants DEF File
<1>12. f \in FileSet /\ IsCandidate(f) BY <1>8, <1>10, <1>11 DEF FileSet, IsCandidate
<1> QED BY <1>5, <1>6, <1>7, <1>12 DEF c, p

LEMMA MakeKeeps == ASSUME Inv1, Make PROVE Inv1'
<1> DEFINE f == File(Min(FreeRuns), Blocks, 0)
           p == Min(FreePlaces)
<1>1. /\ UNCHANGED card /\ pc \in {"idle", "recovered"} /\ pc' = "make" /\ plan = <<>> /\ log.id < Logs
      /\ FreeRuns # {} /\ FreePlaces # {}
      /\ log' = [id |-> log.id + 1, place |-> p, file |-> f]
      /\ plan' = Create(p, f)
      /\ made' = [made EXCEPT ![log.id + 1].place = p]
      /\ todo' = todo /\ skip' = skip /\ last' = last /\ lo' = lo /\ hi' = hi /\ clean' = clean
  BY DEF Make, Idle, recovery
<1>2. CardOK' /\ Files' = Files /\ dir' = dir /\ used' = used BY <1>1, CardSame DEF Inv1
<1>3. /\ f \in FileSet /\ IsCandidate(f) /\ FileClusters(f) \cap used = {}
      /\ p \in FreePlaces /\ p \in Places /\ \A q \in FreePlaces : p =< q
  BY <1>1, MakeChooses
<1> HIDE DEF f, p
<1>4. p + 2 \in Places /\ \A q \in p..p + 2 : ~InUse(dir[q]) BY <1>3 DEF FreePlaces
<1>5. /\ plan' \in Seq(WriteSet) /\ plan' # <<>> /\ plan'[Len(plan')] = Entry(p, f)
      /\ \A i \in 1..Len(plan') - 1 : plan'[i] \in MakeWrites(f)
      /\ \A c \in FileClusters(f) : \E i \in 1..Len(plan') - 1 : plan'[i].do = "mark" /\ c \in plan'[i].clusters
      /\ \A i \in 1..Len(plan') - 1 : plan'[i].do = "end" => EndMoved(p) = <<plan'[i]>>
      /\ \A w : EndMoved(p) = <<w>> => \E i \in 1..Len(plan') - 1 : plan'[i] = w
  <2> DEFINE s == Create(p, f)
  <2>1. /\ s \in Seq(WriteSet) /\ s # <<>> /\ s[Len(s)] = Entry(p, f)
        /\ \A i \in 1..Len(s) - 1 : s[i] \in MakeWrites(f)
        /\ \A c \in FileClusters(f) : \E i \in 1..Len(s) - 1 : s[i].do = "mark" /\ c \in s[i].clusters
        /\ \A i \in 1..Len(s) - 1 : s[i].do = "end" => EndMoved(p) = <<s[i]>>
        /\ \A w : EndMoved(p) = <<w>> => \E i \in 1..Len(s) - 1 : s[i] = w
    BY <1>3, CreatePlan
  <2>2. plan' = s BY <1>1
  <2> HIDE DEF s
  <2> QED BY <2>1, <2>2
<1>6. /\ \A q \in Places : q < p /\ dir[q] = End => EndMoved(p) = <<MoveEnd(SectorOf(q))>>
      /\ \A w : EndMoved(p) = <<w>> => \A q \in Places : SectorOf(q) < w.sector => dir[q] # End
  BY <1>3, FreePlaceEnds DEF Inv1
<1>7. log.id \in Nat /\ log.id + 1 \in 1..Logs /\ log'.id = log.id + 1 /\ log'.place = p /\ log'.file = f
  BY <1>1, Constants DEF Inv1, StateType
<1>8. MakeReady'
  <2>1. log'.id > 0 /\ IsCandidate(log.file)' /\ log'.place + 2 \in Places BY <1>3, <1>4, <1>7 DEF IsCandidate
  <2>2. \A q \in log'.place..log'.place + 2 : ~InUse(dir[q])' BY <1>2, <1>4, <1>7 DEF InUse
  <2>3. plan' # <<>> /\ plan'[Len(plan')] = Entry(log'.place, log'.file) BY <1>5, <1>7
  <2>4. \A i \in 1..Len(plan') - 1 : plan'[i] \in MakeWrites(log'.file) BY <1>5, <1>7
  <2>5. \A c \in FileClusters(log'.file) :
           c \in used' \/ \E i \in 1..Len(plan') - 1 : plan'[i].do = "mark" /\ c \in plan'[i].clusters
    BY <1>5, <1>7
  <2>6. \A q \in Files' : FileClusters(dir'[q]) \cap FileClusters(log'.file) = {}
    BY <1>2, <1>3, <1>7 DEF Inv1, CardOK, Marked
  <2>7. \A q \in Places : q < log'.place /\ dir'[q] = End =>
           \E i \in 1..Len(plan') - 1 : plan'[i] = MoveEnd(SectorOf(q))
    BY <1>2, <1>5, <1>6, <1>7
  <2>8. \A i \in 1..Len(plan') - 1 : plan'[i].do = "end" =>
           \A q \in Places : SectorOf(q) < plan'[i].sector => dir'[q] # End
    BY <1>2, <1>5, <1>6
  <2> QED BY <2>1, <2>2, <2>3, <2>4, <2>5, <2>6, <2>7, <2>8 DEF MakeReady
<1>9. StateType'
  <2>1. log' \in [id : 0..Logs, place : Places, file : FileSet] BY <1>1, <1>3, <1>7, Constants
  <2>2. made' \in [1..Logs -> [place : Places, whole : 0..Blocks]]
    BY <1>1, <1>3, <1>7 DEF Inv1, StateType
  <2> QED BY <1>1, <1>5, <2>1, <2>2 DEF Inv1, StateType
<1>10. TodoOK' BY <1>1 DEF Inv1, TodoOK
<1>11. MakeOK' /\ LogOK' /\ ChangeOK' /\ IdleOK' /\ FindOK'
  BY <1>1, <1>8 DEF MakeOK, LogOK, ChangeOK, IdleOK, FindOK
<1> QED BY <1>2, <1>9, <1>10, <1>11 DEF Inv1

(* The frames of a log's block. *)
LEMMA LogWrites ==
    ASSUME Inv1, LogReady, Whole < Blocks
    PROVE  /\ Whole \in Nat /\ log.file \in FileSet /\ Whole < log.file.blocks
           /\ Frame(log.id, Whole) \in FrameSet /\ BlockAt(log.file, Whole) \in Blocks0
           /\ HeadOf(log.file, log.id, Whole) = FrameWrite(BlockAt(log.file, Whole), "head", Frame(log.id, Whole))
           /\ TailOf(log.file, log.id, Whole) = FrameWrite(BlockAt(log.file, Whole), "tail", Frame(log.id, Whole))
           /\ HeadOf(log.file, log.id, Whole) \in WriteSet /\ TailOf(log.file, log.id, Whole) \in WriteSet
<1>1. log.file \in FileSet /\ log.id \in Nat /\ log.id \in 1..Logs
  BY Constants DEF Inv1, StateType, LogReady
<1>2. Whole \in Nat BY <1>1, Constants DEF Inv1, StateType, Whole
<1>3. log.file.blocks = Blocks BY DEF LogReady, IsCandidate
<1>4. Frame(log.id, Whole) \in FrameSet BY <1>1, <1>2 DEF Frame, FrameSet
<1>5. BlockAt(log.file, Whole) \in Blocks0 BY <1>1, <1>2, <1>3, BlockPlace
<1>6. /\ HeadOf(log.file, log.id, Whole) = FrameWrite(BlockAt(log.file, Whole), "head", Frame(log.id, Whole))
      /\ TailOf(log.file, log.id, Whole) = FrameWrite(BlockAt(log.file, Whole), "tail", Frame(log.id, Whole))
  BY DEF HeadOf, TailOf, FrameWrite
<1>7. HeadOf(log.file, log.id, Whole) \in WriteSet /\ TailOf(log.file, log.id, Whole) \in WriteSet
  BY <1>4, <1>5, <1>6, WriteTypes
<1> QED BY <1>1, <1>2, <1>3, <1>4, <1>5, <1>6, <1>7

LEMMA WriteBlockKeeps == ASSUME Inv1, WriteBlock PROVE Inv1'
<1>1. /\ UNCHANGED card /\ pc = "log" /\ pc' = pc /\ plan = <<>> /\ Whole < Blocks
      /\ plan' = <<HeadOf(log.file, log.id, Whole), TailOf(log.file, log.id, Whole)>>
      /\ log' = log /\ made' = made
      /\ todo' = todo /\ skip' = skip /\ last' = last /\ lo' = lo /\ hi' = hi /\ clean' = clean
  BY DEF WriteBlock, recovery
<1>2. CardOK' /\ Files' = Files /\ dir' = dir BY <1>1, CardSame DEF Inv1
<1>3. LogReady BY <1>1 DEF Inv1, LogOK
<1>4. Whole' = Whole BY <1>1 DEF Whole
<1>5. plan' \in Seq(WriteSet)
  <2>1. HeadOf(log.file, log.id, Whole) \in WriteSet /\ TailOf(log.file, log.id, Whole) \in WriteSet
    BY <1>1, <1>3, LogWrites
  <2> QED BY <2>1, <1>1
<1>6. LogReady'
  <2>1. log'.id > 0 /\ log'.place \in Files' /\ dir'[log'.place] = log'.file /\ IsCandidate(log.file)'
    BY <1>1, <1>2, <1>3 DEF LogReady, IsCandidate
  <2>2. Whole' < Blocks BY <1>1, <1>4
  <2>3. plan' = <<HeadOf(log'.file, log'.id, Whole'), TailOf(log'.file, log'.id, Whole')>> BY <1>1, <1>4
  <2> QED BY <2>1, <2>2, <2>3 DEF LogReady, HeadOf, TailOf, BlockAt, Frame
<1>7. StateType' BY <1>1, <1>5 DEF Inv1, StateType
<1>8. TodoOK' BY <1>1 DEF Inv1, TodoOK
<1>9. MakeOK' /\ LogOK' /\ ChangeOK' /\ IdleOK' /\ FindOK'
  BY <1>1, <1>6 DEF MakeOK, LogOK, ChangeOK, IdleOK, FindOK
<1> QED BY <1>2, <1>7, <1>8, <1>9 DEF Inv1

LEMMA CloseKeeps == ASSUME Inv1, Close PROVE Inv1'
<1> DEFINE g == File(log.file.first, Whole, Whole)
<1>1. /\ UNCHANGED card /\ pc = "log" /\ pc' = "close" /\ plan = <<>> /\ Whole > 0
      /\ plan' = Trim(log.place, log.file, Whole)
      /\ log' = log /\ made' = made
      /\ todo' = todo /\ skip' = skip /\ last' = last /\ lo' = lo /\ hi' = hi /\ clean' = clean
  BY DEF Close, recovery
<1>2. CardOK' /\ Files' = Files /\ dir' = dir BY <1>1, CardSame DEF Inv1
<1>3. LogReady BY <1>1 DEF Inv1, LogOK
<1>4. log.place \in Places /\ log.file \in FileSet /\ IsCandidate(log.file) /\ log.place \in Files /\ dir[log.place] = log.file
  BY <1>3 DEF LogReady, Inv1, StateType
<1>5. Whole \in 1..Blocks
  <2>1. log.id \in 1..Logs BY <1>3, Constants DEF LogReady, Inv1, StateType
  <2>2. Whole \in 0..Blocks BY <2>1 DEF Inv1, StateType, Whole
  <2> QED BY <2>2, <1>1, Constants
<1>6. /\ plan' \in Seq(WriteSet) /\ plan' # <<>> /\ plan'[1] = Entry(log.place, g)
      /\ \A i \in 2..Len(plan') : /\ plan'[i].do = "mark" /\ plan'[i].on = FALSE
                                  /\ plan'[i].clusters \subseteq FileClusters(log.file) \ FileClusters(g)
  <2> DEFINE s == Trim(log.place, log.file, Whole)
  <2>1. /\ s \in Seq(WriteSet) /\ s # <<>> /\ s[1] = Entry(log.place, g)
        /\ \A i \in 2..Len(s) : /\ s[i].do = "mark" /\ s[i].on = FALSE
                                /\ s[i].clusters \subseteq FileClusters(log.file) \ FileClusters(g)
    BY <1>4, <1>5, TrimPlan
  <2>2. plan' = s BY <1>1
  <2> HIDE DEF s
  <2> QED BY <2>1, <2>2
<1>7. Changed' = log.place BY <1>1 DEF Changed
<1>8. ChangeReady'
  <2>1. Shortens'
    <3>1. PICK n \in 1..Blocks : n = Whole BY <1>5
    <3>2. Changed' \in Files' /\ IsCandidate(dir[Changed])' BY <1>2, <1>4, <1>7 DEF IsCandidate
    <3>3. dir'[Changed'] = log.file BY <1>2, <1>4, <1>7
    <3>4. plan'[1] = Entry(log.place, File(log.file.first, n, n)) BY <1>6, <3>1
    <3>5. \A i \in 2..Len(plan') : plan'[i].clusters \subseteq FileClusters(log.file) \ FileClusters(File(log.file.first, n, n))
      BY <1>6, <3>1
    <3> QED BY <1>7, <3>2, <3>3, <3>4, <3>5 DEF Shortens
  <2> QED BY <1>4, <1>6, <1>7, <2>1 DEF ChangeReady
<1>9. StateType' BY <1>1, <1>6 DEF Inv1, StateType
<1>10. TodoOK' BY <1>1 DEF Inv1, TodoOK
<1>11. MakeOK' /\ LogOK' /\ ChangeOK' /\ IdleOK' /\ FindOK'
  BY <1>1, <1>6, <1>8 DEF MakeOK, LogOK, ChangeOK, IdleOK, FindOK
<1> QED BY <1>2, <1>9, <1>10, <1>11 DEF Inv1

LEMMA HostDeletesKeeps == ASSUME Inv1, HostDeletes PROVE Inv1'
<1>1. PICK p \in Places :
        /\ p \in Listed
        /\ dir' = [dir EXCEPT ![p] = Unused, ![p + 1] = Unused, ![p + 2] = Unused]
        /\ used' = used \ FileClusters(dir[p])
        /\ \E id \in 1..Logs : made' = [made EXCEPT ![id].whole = 0]
  BY DEF HostDeletes, Inv1, StateType
<1>2. /\ pc \in {"idle", "recovered"} /\ plan = <<>> /\ pc' = "idle" /\ plan' = plan /\ heap' = heap
      /\ log' = log /\ todo' = todo /\ skip' = skip /\ last' = last /\ lo' = lo /\ hi' = hi /\ clean' = clean
  BY DEF HostDeletes, Idle, recovery
<1>3. p \in Files BY <1>1 DEF Listed, Files
<1>4. /\ Sets' /\ EndsLast' /\ Apart'
      /\ dir' \in [Places -> {End, Unused, More} \cup FileSet]
      /\ Files' = Files \ {p}
      /\ \A q \in Files \ {p} : dir'[q] = dir[q]
  BY <1>1, <1>3, UnlinkKept DEF Inv1
<1>5. Marked'
  <2> SUFFICES ASSUME NEW q \in Files \ {p} PROVE FileClusters(dir[q]) \subseteq used \ FileClusters(dir[p])
    BY <1>1, <1>4 DEF Marked, FileClusters, EndOf, ClusterCount
  <2> QED BY <1>3 DEF Inv1, CardOK, Marked, Apart
<1>6. CardType' BY <1>1, <1>2, <1>4 DEF Inv1, CardOK, CardType
<1>7. CardOK' BY <1>4, <1>5, <1>6 DEF CardOK
<1>8. made' \in [1..Logs -> [place : Places, whole : 0..Blocks]]
  <2>1. PICK id \in 1..Logs : made' = [made EXCEPT ![id].whole = 0] BY <1>1
  <2>2. made \in [1..Logs -> [place : Places, whole : 0..Blocks]] BY DEF Inv1, StateType
  <2>3. 0 \in 0..Blocks BY Constants
  <2> QED BY <2>1, <2>2, <2>3
<1>9. StateType' BY <1>2, <1>8 DEF Inv1, StateType
<1>10. TodoOK' BY <1>2 DEF Inv1, TodoOK
<1>11. MakeOK' /\ LogOK' /\ ChangeOK' /\ IdleOK' /\ FindOK'
  BY <1>2 DEF MakeOK, LogOK, ChangeOK, IdleOK, FindOK
<1> QED BY <1>7, <1>9, <1>10, <1>11 DEF Inv1

(* The sector writes of a plan: those that make a log, before its entry... *)
LEMMA MakeWrite ==
    ASSUME Inv1, pc = "make", Apply(plan[1]), Len(plan) # 1
    PROVE  /\ CardOK' /\ Files' = Files /\ \A q \in Files : dir'[q] = dir[q]
           /\ used \subseteq used'
           /\ \A q \in Places : (InUse(dir[q])' <=> InUse(dir[q])) /\ (dir'[q] = End => dir[q] = End)
           /\ plan[1].do = "mark" => plan[1].clusters \subseteq used'
           /\ plan[1].do = "end" => \A q \in Places : SectorOf(q) = plan[1].sector => dir'[q] # End
           /\ \/ plan[1].do # "frame" /\ heap' = heap
              \/ /\ plan[1].do = "frame"
                 /\ \A c \in Blocks0 : c # BlockAt(log.file, 0) => heap'[c] = heap[c]
                 /\ heap'[BlockAt(log.file, 0)] = [heap[BlockAt(log.file, 0)] EXCEPT !.head = Clear]
<1> DEFINE w == plan[1]
<1>1. MakeReady /\ CardOK /\ StateType BY DEF Inv1, MakeOK
<1>2. plan \in Seq(WriteSet) /\ plan # <<>> BY <1>1 DEF StateType, MakeReady
<1>3. 1 \in 1..Len(plan) - 1 BY <1>2, TailFacts
<1>4. w \in MakeWrites(log.file) BY <1>1, <1>3 DEF MakeReady
<1>5. log.file \in FileSet BY <1>1 DEF StateType
<1>6. \A q \in Places : SectorOf(q) \in Nat BY PlaceFacts
<1>7. w.do = "end" => \A q \in Places : SectorOf(q) < w.sector => dir[q] # End BY <1>1, <1>3 DEF MakeReady
<1> HIDE DEF w
<1>8. Apply(w) BY DEF w
<1>9. CASE w \in MarkOn(log.file)
  <2>1. PICK cs \in SUBSET FileClusters(log.file) : w = Mark(cs, TRUE) BY <1>9 DEF MarkOn
  <2>2. cs \in SUBSET Nat BY <1>5, FileFacts
  <2>3. CardOK' /\ dir' = dir /\ heap' = heap /\ used' = used \cup cs
    <3>1. Apply(Mark(cs, TRUE)) BY <1>8, <2>1
    <3> QED BY <3>1, <2>2, <1>1, MarkOnKept
  <2>4. Files' = Files BY <2>3 DEF Files
  <2>5. w.do = "mark" /\ w.clusters = cs BY <2>1 DEF Mark
  <2>6. \A q \in Places : InUse(dir[q])' <=> InUse(dir[q]) BY <2>3 DEF InUse
  <2> QED BY <2>3, <2>4, <2>5, <2>6 DEF w
<1>10. CASE w = ClearFirst(log.file.first)
  <2> DEFINE b == BlockAt(log.file, 0)
  <2>1. w = FrameWrite(b, "head", Clear) /\ Clear \in FrameSet /\ b \in Blocks0
    BY <1>5, <1>10, ClearIsFrame, FirstIsOwn
  <2> HIDE DEF b
  <2>2. /\ CardOK' /\ dir' = dir /\ used' = used
        /\ \A c \in Blocks0 : c # b => heap'[c] = heap[c]
        /\ heap'[b] = [heap[b] EXCEPT !["head"] = Clear]
    <3>1. Apply(FrameWrite(b, "head", Clear)) BY <1>8, <2>1
    <3> QED BY <3>1, <2>1, <1>1, FrameKept
  <2>3. Files' = Files BY <2>2 DEF Files
  <2>4. w.do = "frame" BY <2>1 DEF FrameWrite
  <2>5. \A q \in Places : InUse(dir[q])' <=> InUse(dir[q]) BY <2>2 DEF InUse
  <2>6. heap'[b] = [heap[b] EXCEPT !.head = Clear] BY <2>2
  <2> QED BY <2>2, <2>3, <2>4, <2>5, <2>6 DEF w, b
<1>11. CASE w \in [do : {"end"}, sector : Nat]
  <2>1. w.do = "end" /\ w.sector \in Nat BY <1>11
  <2>2. w = MoveEnd(w.sector) BY <1>11 DEF MoveEnd
  <2>3. PICK s \in Nat : s = w.sector BY <2>1
  <2>4. /\ CardOK' /\ used' = used /\ heap' = heap /\ Files' = Files
        /\ \A q \in Places : dir'[q] = IF SectorOf(q) = s /\ dir[q] = End THEN Unused ELSE dir[q]
        /\ \A q \in Files : dir'[q] = dir[q]
        /\ \A q \in Places : InUse(dir[q])' <=> InUse(dir[q])
    <3>1. Apply(MoveEnd(s)) BY <1>8, <2>2, <2>3
    <3>2. \A q \in Places : SectorOf(q) < s => dir[q] # End BY <1>7, <2>1, <2>3
    <3> QED BY <3>1, <3>2, <1>1, EndKept
  <2>5. Unused # End BY DEF Unused, End
  <2>6. \A q \in Places : dir'[q] = End => dir[q] = End BY <2>4, <2>5
  <2>7. \A q \in Places : SectorOf(q) = s => dir'[q] # End BY <2>4, <2>5
  <2> QED BY <2>1, <2>3, <2>4, <2>6, <2>7 DEF w
<1> QED BY <1>4, <1>9, <1>10, <1>11 DEF MakeWrites

LEMMA MakeGoesOn ==
    ASSUME Inv1, pc = "make", Apply(plan[1]), Len(plan) # 1, log' = log, plan' = Tail(plan)
    PROVE  MakeReady'
<1>1. MakeReady /\ StateType BY DEF Inv1, MakeOK
<1>2. plan \in Seq(WriteSet) /\ plan # <<>> BY <1>1 DEF StateType, MakeReady
<1>3. /\ Len(plan) \in Nat /\ Len(plan) > 1 /\ Len(plan') = Len(plan) - 1
      /\ \A i \in 1..Len(plan) - 1 : plan'[i] = plan[i + 1]
      /\ plan' # <<>>
  BY <1>2, TailFacts
<1>4. \A i \in 1..Len(plan') - 1 : i + 1 \in 1..Len(plan) - 1 /\ plan'[i] = plan[i + 1] BY <1>3
<1>5. \A i \in 1..Len(plan) - 1 : i = 1 \/ (i - 1 \in 1..Len(plan') - 1 /\ plan'[i - 1] = plan[i])
  <2> TAKE i \in 1..Len(plan) - 1
  <2>1. CASE i # 1
    <3>1. i - 1 \in 1..Len(plan') - 1 /\ (i - 1) + 1 = i /\ i - 1 \in 1..Len(plan) - 1 BY <2>1, <1>3
    <3> QED BY <3>1, <1>3
  <2> QED BY <2>1
<1>6. /\ Files' = Files /\ \A q \in Files : dir'[q] = dir[q]
      /\ used \subseteq used'
      /\ \A q \in Places : (InUse(dir[q])' <=> InUse(dir[q])) /\ (dir'[q] = End => dir[q] = End)
      /\ plan[1].do = "mark" => plan[1].clusters \subseteq used'
      /\ plan[1].do = "end" => \A q \in Places : SectorOf(q) = plan[1].sector => dir'[q] # End
  BY MakeWrite
<1>7. log'.id > 0 /\ IsCandidate(log.file)' /\ log'.place + 2 \in Places BY <1>1 DEF MakeReady, IsCandidate
<1>8. \A q \in log'.place..log'.place + 2 : ~InUse(dir[q])'
  <2> SUFFICES ASSUME NEW q \in log.place..log.place + 2 PROVE ~InUse(dir[q])' OBVIOUS
  <2>1. log.place \in Places /\ log.place + 2 \in Places BY <1>1 DEF StateType, MakeReady
  <2>2. log.place \in Nat BY <2>1, PlaceFacts
  <2>3. q \in Nat /\ log.place =< q /\ q =< log.place + 2 BY <2>2
  <2>4. q \in Places BY <2>1, <2>3, Between
  <2>5. ~InUse(dir[q]) BY <1>1 DEF MakeReady
  <2> QED BY <2>4, <2>5, <1>6
<1>9. plan' # <<>> /\ plan'[Len(plan')] = Entry(log'.place, log'.file)
  <2>1. Len(plan') \in 1..Len(plan) - 1 /\ Len(plan') + 1 = Len(plan) BY <1>3
  <2>2. plan'[Len(plan')] = plan[Len(plan)] BY <2>1, <1>3
  <2> QED BY <2>2, <1>1, <1>3 DEF MakeReady
<1>10. \A i \in 1..Len(plan') - 1 : plan'[i] \in MakeWrites(log'.file) BY <1>1, <1>4 DEF MakeReady
<1>11. \A c \in FileClusters(log'.file) :
          c \in used' \/ \E i \in 1..Len(plan') - 1 : plan'[i].do = "mark" /\ c \in plan'[i].clusters
  <2> SUFFICES ASSUME NEW c \in FileClusters(log.file), c \notin used'
               PROVE  \E i \in 1..Len(plan') - 1 : plan'[i].do = "mark" /\ c \in plan'[i].clusters
    OBVIOUS
  <2>1. PICK i \in 1..Len(plan) - 1 : plan[i].do = "mark" /\ c \in plan[i].clusters BY <1>1, <1>6 DEF MakeReady
  <2>2. i # 1 BY <2>1, <1>6
  <2> QED BY <2>1, <2>2, <1>5
<1>12. \A q \in Files' : FileClusters(dir'[q]) \cap FileClusters(log'.file) = {}
  <2> SUFFICES ASSUME NEW q \in Files PROVE FileClusters(dir'[q]) \cap FileClusters(log.file) = {} BY <1>6
  <2>1. dir'[q] = dir[q] BY <1>6
  <2>2. FileClusters(dir[q]) \cap FileClusters(log.file) = {} BY <1>1 DEF MakeReady
  <2> QED BY <2>1, <2>2
<1>13. \A q \in Places : q < log'.place /\ dir'[q] = End =>
          \E i \in 1..Len(plan') - 1 : plan'[i] = MoveEnd(SectorOf(q))
  <2> SUFFICES ASSUME NEW q \in Places, q < log.place, dir'[q] = End
               PROVE  \E i \in 1..Len(plan') - 1 : plan'[i] = MoveEnd(SectorOf(q))
    OBVIOUS
  <2>1. dir[q] = End BY <1>6
  <2>2. PICK i \in 1..Len(plan) - 1 : plan[i] = MoveEnd(SectorOf(q)) BY <2>1, <1>1 DEF MakeReady
  <2>3. ASSUME i = 1 PROVE FALSE
    <3>1. plan[1].do = "end" /\ plan[1].sector = SectorOf(q) BY <2>2, <2>3 DEF MoveEnd
    <3> QED BY <3>1, <1>6
  <2> QED BY <2>2, <2>3, <1>5
<1>14. \A i \in 1..Len(plan') - 1 : plan'[i].do = "end" =>
          \A q \in Places : SectorOf(q) < plan'[i].sector => dir'[q] # End
  BY <1>1, <1>4, <1>6 DEF MakeReady
<1> QED BY <1>7, <1>8, <1>9, <1>10, <1>11, <1>12, <1>13, <1>14 DEF MakeReady

(* ... and its entry. *)
LEMMA MakeEntry ==
    ASSUME Inv1, pc = "make", Apply(plan[1]), Len(plan) = 1
    PROVE  /\ CardOK' /\ heap' = heap
           /\ log.place \notin Files /\ Files' = Files \cup {log.place} /\ dir'[log.place] = log.file
           /\ \A q \in Files : dir'[q] = dir[q]
<1>1. MakeReady /\ CardOK /\ StateType BY DEF Inv1, MakeOK
<1>2. /\ log.place \in Places /\ log.place + 2 \in Places /\ log.file \in FileSet
      /\ \A q \in log.place..log.place + 2 : ~InUse(dir[q])
      /\ plan[1] = Entry(log.place, log.file)
      /\ \A q \in Files : FileClusters(dir[q]) \cap FileClusters(log.file) = {}
  BY <1>1 DEF MakeReady, StateType
<1>3. 1..Len(plan) - 1 = {} OBVIOUS
<1>4. FileClusters(log.file) \subseteq used BY <1>1, <1>3 DEF MakeReady
<1>5. \A q \in Places : q < log.place => dir[q] # End BY <1>1, <1>3 DEF MakeReady
<1>6. Apply(Entry(log.place, log.file)) BY <1>2
<1> QED BY <1>1, <1>2, <1>4, <1>5, <1>6, NewEntryKept

(* A block of a log: its first sector, then its last. *)
LEMMA LogWrite ==
    ASSUME Inv1, pc = "log", plan # <<>>, Apply(plan[1])
    PROVE  /\ CardOK' /\ dir' = dir /\ Files' = Files
           /\ \A c \in Blocks0 : c # BlockAt(log.file, Whole) => heap'[c] = heap[c]
           /\ \/ /\ Len(plan) = 2 /\ Tail(plan) = <<TailOf(log.file, log.id, Whole)>>
                 /\ heap'[BlockAt(log.file, Whole)] =
                        [heap[BlockAt(log.file, Whole)] EXCEPT !.head = Frame(log.id, Whole)]
              \/ /\ Len(plan) = 1 /\ Tail(plan) = <<>> /\ plan = <<TailOf(log.file, log.id, Whole)>>
                 /\ heap'[BlockAt(log.file, Whole)] =
                        [heap[BlockAt(log.file, Whole)] EXCEPT !.tail = Frame(log.id, Whole)]
<1> DEFINE b == BlockAt(log.file, Whole)
           h == HeadOf(log.file, log.id, Whole)
           t == TailOf(log.file, log.id, Whole)
           fr == Frame(log.id, Whole)
<1>1. LogReady /\ CardOK BY DEF Inv1, LogOK
<1>2. Whole < Blocks /\ plan \in {<<h, t>>, <<t>>} BY <1>1 DEF LogReady
<1>3. fr \in FrameSet /\ b \in Blocks0 /\ h = FrameWrite(b, "head", fr) /\ t = FrameWrite(b, "tail", fr)
  BY <1>1, <1>2, LogWrites
<1> HIDE DEF b, h, t, fr
<1>4. CASE plan = <<h, t>>
  <2>1. plan[1] = h /\ Len(plan) = 2 /\ Tail(plan) = <<t>> BY <1>4
  <2>2. /\ CardOK' /\ dir' = dir
        /\ \A c \in Blocks0 : c # b => heap'[c] = heap[c]
        /\ heap'[b] = [heap[b] EXCEPT !["head"] = fr]
    <3>1. Apply(FrameWrite(b, "head", fr)) BY <2>1, <1>3
    <3> QED BY <3>1, <1>1, <1>3, FrameKept
  <2>3. Files' = Files BY <2>2 DEF Files
  <2>4. heap'[b] = [heap[b] EXCEPT !.head = fr] BY <2>2
  <2> QED BY <2>1, <2>2, <2>3, <2>4 DEF b, t, fr
<1>5. CASE plan = <<t>>
  <2>1. plan[1] = t /\ Len(plan) = 1 /\ Tail(plan) = <<>> BY <1>5
  <2>2. /\ CardOK' /\ dir' = dir
        /\ \A c \in Blocks0 : c # b => heap'[c] = heap[c]
        /\ heap'[b] = [heap[b] EXCEPT !["tail"] = fr]
    <3>1. Apply(FrameWrite(b, "tail", fr)) BY <2>1, <1>3
    <3> QED BY <3>1, <1>1, <1>3, FrameKept
  <2>3. Files' = Files BY <2>2 DEF Files
  <2>4. heap'[b] = [heap[b] EXCEPT !.tail = fr] BY <2>2
  <2> QED BY <2>1, <2>2, <2>3, <2>4, <1>5 DEF b, t, fr
<1> QED BY <1>2, <1>4, <1>5

(* A file shortened or deleted: the file's entry, then clusters freed. *)
LEMMA ChangeWrite ==
    ASSUME Inv1, ChangeReady, plan # <<>>, Apply(plan[1])
    PROVE  /\ CardOK' /\ heap' = heap /\ Files' \subseteq Files
           /\ \A q \in Files : q # Changed => q \in Files' /\ dir'[q] = dir[q]
           /\ Changed \in Files' => ~IsCandidate(dir'[Changed])
           /\ \A i \in 2..Len(plan), q \in Files' : plan[i].clusters \cap FileClusters(dir'[q]) = {}
           /\ \/ Shortens /\ plan[1].do = "entry" /\ Files' = Files /\ dir'[Changed] = plan[1].file
              \/ Deletes /\ plan[1].do = "unlink" /\ Files' = Files \ {Changed}
              \/ Frees /\ plan[1].do = "mark" /\ dir' = dir /\ Files' = Files
<1> DEFINE p == Changed
<1>1. CardOK /\ CardType /\ StateType /\ Marked /\ Apart BY DEF Inv1, CardOK
<1>2. CASE Shortens
  <2>1. p \in Files /\ p \in Places /\ IsCandidate(dir[p]) /\ dir[p] \in FileSet
    BY <1>1, <1>2, EntryKinds DEF Shortens, ChangeReady
  <2>2. PICK n \in 1..Blocks :
           /\ plan[1] = Entry(p, File(dir[p].first, n, n))
           /\ \A i \in 2..Len(plan) : plan[i].clusters \subseteq FileClusters(dir[p]) \ FileClusters(File(dir[p].first, n, n))
    BY <1>2 DEF Shortens
  <2> DEFINE g == File(dir[p].first, n, n)
  <2>3. g \in FileSet /\ FileClusters(g) \subseteq FileClusters(dir[p])
    <3>1. n =< dir[p].blocks BY <2>1, Constants DEF IsCandidate
    <3> QED BY <2>1, <3>1, Shortened
  <2>4. ~IsCandidate(g)
    <3>1. g.valid = n BY FileFields
    <3> HIDE DEF g
    <3> QED BY <3>1 DEF IsCandidate
  <2> HIDE DEF g, p
  <2>5. plan[1] = Entry(p, g) BY <2>2 DEF g
  <2>6. /\ CardOK' /\ used' = used /\ heap' = heap /\ Files' = Files /\ dir'[p] = g
        /\ \A q \in Places \ {p} : dir'[q] = dir[q]
    <3>1. Apply(Entry(p, g)) BY <2>5
    <3> QED BY <3>1, <2>1, <2>3, <1>1, TrimEntryKept
  <2>7. \A q \in Files : q # p => q \in Files' /\ dir'[q] = dir[q] BY <2>6 DEF Files
  <2>8. plan[1].do = "entry" /\ plan[1].file = g BY <2>5 DEF Entry
  <2>9. \A i \in 2..Len(plan), q \in Files' : plan[i].clusters \cap FileClusters(dir'[q]) = {}
    <3> TAKE i \in 2..Len(plan), q \in Files'
    <3>1. plan[i].clusters \subseteq FileClusters(dir[p]) \ FileClusters(g) BY <2>2 DEF g
    <3>2. CASE q = p BY <3>1, <3>2, <2>6
    <3>3. CASE q # p
      <4>1. q \in Files /\ dir'[q] = dir[q] BY <3>3, <2>6, <2>7
      <4>2. FileClusters(dir[p]) \cap FileClusters(dir[q]) = {} BY <3>3, <4>1, <2>1, <1>1 DEF Apart
      <4> QED BY <3>1, <4>1, <4>2
    <3> QED BY <3>2, <3>3
  <2> QED BY <2>4, <2>6, <2>7, <2>8, <2>9, <1>2 DEF p
<1>3. CASE Deletes
  <2>1. p \in Files /\ p \in Places /\ plan[1] = Unlink(p) BY <1>3 DEF Deletes, ChangeReady
  <2> HIDE DEF p
  <2>2. /\ dir' = [dir EXCEPT ![p] = Unused, ![p + 1] = Unused, ![p + 2] = Unused]
        /\ used' = used /\ heap' = heap /\ plan[1].do = "unlink"
    BY <2>1 DEF Apply, Unlink
  <2>3. /\ Sets' /\ EndsLast' /\ Apart'
        /\ dir' \in [Places -> {End, Unused, More} \cup FileSet]
        /\ Files' = Files \ {p}
        /\ \A q \in Files \ {p} : dir'[q] = dir[q]
    BY <2>1, <2>2, <1>1, UnlinkKept
  <2>4. CardType' BY <2>2, <2>3, <1>1 DEF CardType
  <2>5. Marked'
    <3> SUFFICES ASSUME NEW q \in Files \ {p} PROVE FileClusters(dir[q]) \subseteq used
      BY <2>2, <2>3 DEF Marked, FileClusters, EndOf, ClusterCount
    <3> QED BY <1>1 DEF Marked
  <2>6. CardOK' BY <2>3, <2>4, <2>5 DEF CardOK
  <2>7. \A i \in 2..Len(plan), q \in Files' : plan[i].clusters \cap FileClusters(dir'[q]) = {}
    <3> TAKE i \in 2..Len(plan), q \in Files'
    <3>1. plan[i].clusters \subseteq FileClusters(dir[p]) BY <1>3 DEF Deletes, p
    <3>2. q \in Files /\ q # p /\ dir'[q] = dir[q] BY <2>3
    <3>3. FileClusters(dir[p]) \cap FileClusters(dir[q]) = {} BY <3>2, <2>1, <1>1 DEF Apart
    <3> QED BY <3>1, <3>2, <3>3
  <2> QED BY <2>2, <2>3, <2>6, <2>7, <1>3 DEF p
<1>4. CASE Frees
  <2>1. plan \in Seq(WriteSet) /\ plan[1] \in WriteSet /\ Len(plan) \in Nat /\ Len(plan) > 0
    BY <1>1, TailFacts DEF StateType
  <2>2. plan[1].do = "mark" /\ plan[1].on = FALSE BY <1>4 DEF Frees
  <2>3. \A i \in 1..Len(plan), q \in Files : plan[i].clusters \cap FileClusters(dir[q]) = {} BY <1>4 DEF Frees
  <2>4. plan[1] = Mark(plan[1].clusters, FALSE) BY <2>1, <2>2 DEF WriteSet, Mark
  <2>5. PICK cs : cs = plan[1].clusters OBVIOUS
  <2>6. CardOK' /\ dir' = dir /\ heap' = heap
    <3>1. Apply(Mark(cs, FALSE)) BY <2>4, <2>5
    <3>2. 1 \in 1..Len(plan) BY <2>1
    <3>3. \A q \in Files : cs \cap FileClusters(dir[q]) = {} BY <2>3, <2>5, <3>2
    <3> QED BY <3>1, <3>3, <1>1, MarkOffKept
  <2>7. Files' = Files BY <2>6 DEF Files
  <2>8. \A i \in 2..Len(plan), q \in Files' : plan[i].clusters \cap FileClusters(dir'[q]) = {}
    <3> TAKE i \in 2..Len(plan), q \in Files'
    <3>1. i \in 1..Len(plan) BY <2>1
    <3> QED BY <3>1, <2>3, <2>6, <2>7
  <2>9. p \in Files => ~IsCandidate(dir[p]) BY <1>4 DEF Frees
  <2> QED BY <2>2, <2>6, <2>7, <2>8, <2>9, <1>4
<1> QED BY <1>2, <1>3, <1>4 DEF ChangeReady

LEMMA ChangeGoesOn ==
    ASSUME Inv1, ChangeReady, plan # <<>>, Apply(plan[1]), plan' = Tail(plan), plan' # <<>>, Changed' = Changed
    PROVE  ChangeReady'
<1>1. plan \in Seq(WriteSet) BY DEF Inv1, StateType
<1>2. /\ Len(plan) \in Nat /\ Len(plan') = Len(plan) - 1
      /\ \A i \in 1..Len(plan) - 1 : plan'[i] = plan[i + 1]
      /\ Len(plan') > 0
  BY <1>1, TailFacts
<1>3. \A i \in 1..Len(plan') : i + 1 \in 2..Len(plan) /\ plan'[i] = plan[i + 1] BY <1>2
<1>4. \A i \in 1..Len(plan') : plan'[i].do = "mark" /\ plan'[i].on = FALSE BY <1>3 DEF ChangeReady
<1>5. \A i \in 2..Len(plan') : i \in 1..Len(plan') BY <1>2
<1>6. 1 \in 1..Len(plan') BY <1>2
<1>7. /\ Changed \in Files' => ~IsCandidate(dir'[Changed])
      /\ \A i \in 2..Len(plan), q \in Files' : plan[i].clusters \cap FileClusters(dir'[q]) = {}
  BY ChangeWrite
<1>8. \A i \in 1..Len(plan'), q \in Files' : plan'[i].clusters \cap FileClusters(dir'[q]) = {} BY <1>3, <1>7
<1>9. Frees'
  <2>1. plan'[1].do = "mark" /\ plan'[1].on = FALSE BY <1>4, <1>6
  <2>2. Changed' \in Files' => ~IsCandidate(dir'[Changed']) BY <1>7
  <2> QED BY <2>1, <2>2, <1>8 DEF Frees, IsCandidate, FileClusters, EndOf, ClusterCount
<1> QED BY <1>4, <1>5, <1>9 DEF ChangeReady

(* A whole block more is one of the log's Blocks. *)
LEMMA OneMoreBlock ==
    ASSUME Inv1, pc = "log", plan # <<>>, made' = [made EXCEPT ![log.id].whole = @ + 1]
    PROVE  made' \in [1..Logs -> [place : Places, whole : 0..Blocks]]
<1>1. Whole < Blocks /\ log.id > 0 BY DEF Inv1, LogOK, LogReady
<1>2. log.id \in 1..Logs /\ made \in [1..Logs -> [place : Places, whole : 0..Blocks]]
  BY <1>1, Constants DEF Inv1, StateType
<1>3. made[log.id].whole \in 0..Blocks /\ made[log.id].whole + 1 \in 0..Blocks
  BY <1>1, <1>2, Constants DEF Whole
<1>4. [made[log.id] EXCEPT !.whole = @ + 1] \in [place : Places, whole : 0..Blocks] BY <1>2, <1>3
<1>5. made' = [made EXCEPT ![log.id] = [made[log.id] EXCEPT !.whole = @ + 1]] OBVIOUS
<1> QED BY <1>2, <1>4, <1>5

(* Whatever the plan, a write of it leaves the card in order and the other
   candidates as they are. *)
LEMMA PlanWrite ==
    ASSUME Inv1, plan # <<>>, Apply(plan[1])
    PROVE  /\ CardOK'
           /\ pc = "recover" => \A p \in Files : p # At => p \in Files' /\ dir'[p] = dir[p]
<1>1. pc \in {"make", "log", "close", "recover"} BY DEF Inv1, StateType, IdleOK
<1>2. CASE pc = "make"
  <2>1. CardOK' BY <1>2, MakeWrite, MakeEntry
  <2> QED BY <2>1, <1>2
<1>3. CASE pc = "log"
  <2>1. CardOK' BY <1>3, LogWrite
  <2> QED BY <2>1, <1>3
<1>4. CASE pc \in {"close", "recover"}
  <2>1. ChangeReady BY <1>4 DEF Inv1, ChangeOK
  <2>2. CardOK' /\ \A q \in Files : q # Changed => q \in Files' /\ dir'[q] = dir[q] BY <2>1, ChangeWrite
  <2>3. pc = "recover" => Changed = At BY DEF Changed
  <2> QED BY <2>2, <2>3
<1> QED BY <1>1, <1>2, <1>3, <1>4

LEMMA WriteFailsKeeps == ASSUME Inv1, WriteFails PROVE Inv1'
<1>1. /\ plan # <<>> /\ plan' = <<>> /\ log' = log /\ last' = last /\ lo' = lo /\ hi' = hi
      /\ \/ UNCHANGED <<card, made>>
         \/ /\ Apply(Head(plan))
            /\ made' = IF pc = "log" /\ Len(plan) = 1 THEN [made EXCEPT ![log.id].whole = @ + 1] ELSE made
      /\ \/ pc = "recover" /\ Done /\ skip' = skip + 1 /\ clean' = FALSE /\ pc' = pc
         \/ pc # "recover" /\ pc' = "idle" /\ todo' = todo /\ skip' = skip /\ clean' = clean
  BY DEF WriteFails, PassOver
<1>2. plan \in Seq(WriteSet) /\ Head(plan) = plan[1]
  <2>1. plan \in Seq(WriteSet) BY DEF Inv1, StateType
  <2> QED BY <1>1, <2>1, TailFacts
<1>3. CardOK' /\ (pc = "recover" => \A p \in Files : p # At => p \in Files' /\ dir'[p] = dir[p])
  <2>1. CASE UNCHANGED card BY <2>1, CardSame DEF Inv1
  <2>2. CASE Apply(plan[1]) BY <2>2, <1>1, PlanWrite
  <2> QED BY <1>1, <1>2, <2>1, <2>2
<1>4. made' \in [1..Logs -> [place : Places, whole : 0..Blocks]]
  <2>1. CASE made' = made BY <2>1 DEF Inv1, StateType
  <2>2. CASE pc = "log" /\ made' = [made EXCEPT ![log.id].whole = @ + 1] BY <1>1, <2>2, OneMoreBlock
  <2> QED BY <1>1, <2>1, <2>2
<1>5. <<>> \in Seq(WriteSet) OBVIOUS
<1>6. CASE pc = "recover"
  <2>1. Done /\ skip' = skip + 1 /\ clean' = FALSE /\ pc' = pc BY <1>1, <1>6
  <2>2. todo' \in SUBSET Places /\ \A p \in todo' : (p \in Files /\ IsCandidate(dir[p]))'
    BY <1>3, <1>6, <2>1, TodoDone
  <2>3. skip' \in Nat BY <2>1 DEF Inv1, StateType
  <2>4. StateType' BY <1>1, <1>4, <1>5, <2>1, <2>2, <2>3 DEF Inv1, StateType
  <2>5. TodoOK' BY <1>1, <1>6, <2>1, <2>2 DEF TodoOK
  <2>6. MakeOK' /\ LogOK' /\ ChangeOK' /\ IdleOK' /\ FindOK'
    BY <1>1, <1>6, <2>1 DEF MakeOK, LogOK, ChangeOK, IdleOK, FindOK
  <2> QED BY <1>3, <2>4, <2>5, <2>6 DEF Inv1
<1>7. CASE pc # "recover"
  <2>1. pc' = "idle" /\ todo' = todo /\ skip' = skip /\ clean' = clean BY <1>1, <1>7
  <2>2. pc # "find" BY <1>1 DEF Inv1, IdleOK
  <2>3. todo = {} BY <1>7, <2>2 DEF Inv1, TodoOK
  <2>4. StateType' BY <1>1, <1>4, <1>5, <2>1 DEF Inv1, StateType
  <2>5. MakeOK' /\ LogOK' /\ ChangeOK' /\ IdleOK' /\ TodoOK' /\ FindOK'
    BY <1>1, <2>1, <2>3 DEF MakeOK, LogOK, ChangeOK, IdleOK, TodoOK, FindOK
  <2> QED BY <1>3, <2>4, <2>5 DEF Inv1
<1> QED BY <1>6, <1>7

LEMMA CardWritesKeeps == ASSUME Inv1, CardWrites PROVE Inv1'
<1>1. /\ plan # <<>> /\ Apply(Head(plan)) /\ plan' = Tail(plan) /\ log' = log /\ skip' = skip /\ last' = last
      /\ lo' = lo /\ hi' = hi /\ clean' = clean
  BY DEF CardWrites
<1>2. plan \in Seq(WriteSet) BY DEF Inv1, StateType
<1>3. /\ Head(plan) = plan[1] /\ plan' \in Seq(WriteSet) /\ Apply(plan[1])
      /\ Len(plan) \in Nat /\ (plan' = <<>> <=> Len(plan) = 1)
  BY <1>1, <1>2, TailFacts
<1>4. CardOK' /\ (pc = "recover" => \A p \in Files : p # At => p \in Files' /\ dir'[p] = dir[p])
  BY <1>1, <1>3, PlanWrite
<1>5. pc \in {"make", "log", "close", "recover"} BY <1>1 DEF Inv1, StateType, IdleOK
<1>6. todo = {} \/ pc = "recover" BY <1>5 DEF Inv1, TodoOK
<1>7. CASE plan' # <<>>
  <2>1. pc' = pc /\ todo' = todo /\ made' = made BY <1>7 DEF CardWrites
  <2>2. StateType' BY <1>1, <1>3, <2>1 DEF Inv1, StateType
  <2>3. MakeOK'
    <3>1. SUFFICES ASSUME pc = "make" PROVE MakeReady' BY <2>1 DEF MakeOK
    <3> QED BY <1>1, <1>3, <1>7, <3>1, MakeGoesOn
  <2>4. LogOK'
    <3>1. SUFFICES ASSUME pc = "log" PROVE LogReady' BY <2>1 DEF LogOK
    <3>2. LogReady BY <3>1 DEF Inv1, LogOK
    <3>3. dir' = dir /\ Files' = Files /\ Tail(plan) \in {<<>>, <<TailOf(log.file, log.id, Whole)>>}
      BY <1>1, <1>3, <3>1, LogWrite
    <3>4. Whole' = Whole BY <1>1, <2>1 DEF Whole
    <3>5. plan' = <<TailOf(log'.file, log'.id, Whole')>> /\ Whole' < Blocks
      BY <1>1, <1>7, <3>2, <3>3, <3>4 DEF LogReady
    <3>6. log'.id > 0 /\ log'.place \in Files' /\ dir'[log'.place] = log'.file /\ IsCandidate(log.file)'
      BY <1>1, <3>2, <3>3 DEF LogReady, IsCandidate
    <3> QED BY <3>5, <3>6 DEF LogReady, HeadOf, TailOf, BlockAt, Frame
  <2>5. ChangeOK'
    <3>1. SUFFICES ASSUME pc \in {"close", "recover"} PROVE ChangeReady' BY <2>1 DEF ChangeOK
    <3>2. ChangeReady BY <1>1, <3>1 DEF Inv1, ChangeOK
    <3>3. Changed' = Changed BY <1>1, <2>1 DEF Changed, At
    <3> QED BY <1>1, <1>3, <1>7, <3>2, <3>3, ChangeGoesOn
  <2>6. IdleOK' /\ FindOK' BY <1>5, <1>7, <2>1 DEF IdleOK, FindOK
  <2>7. TodoOK'
    <3>1. At' = At BY <2>1 DEF At
    <3>2. \A p \in todo' : (p \in Files' /\ IsCandidate(dir[p])') \/ p = At
      <4> TAKE p \in todo'
      <4>1. p = At \/ (p \in Files /\ IsCandidate(dir[p])) BY <2>1 DEF Inv1, TodoOK
      <4>2. pc = "recover" BY <1>6, <2>1
      <4> QED BY <4>1, <4>2, <1>4 DEF IsCandidate
    <3>3. pc' \notin {"recover", "find"} => todo' = {} BY <2>1 DEF Inv1, TodoOK
    <3>4. pc' = "find" \/ (pc' = "recover" /\ plan' # <<>>) => todo' # {} BY <1>1, <2>1 DEF Inv1, TodoOK
    <3> QED BY <1>7, <3>1, <3>2, <3>3, <3>4 DEF TodoOK
  <2> QED BY <1>4, <2>2, <2>3, <2>4, <2>5, <2>6, <2>7 DEF Inv1
<1>8. CASE plan' = <<>>
  <2>1. /\ pc' = CASE pc \in {"make", "log"} -> "log" [] pc = "close" -> "idle" [] OTHER -> pc
        /\ IF pc = "recover" THEN Done ELSE UNCHANGED todo
        /\ made' = IF pc = "log" THEN [made EXCEPT ![log.id].whole = @ + 1] ELSE made
    BY <1>8 DEF CardWrites
  <2>2. made' \in [1..Logs -> [place : Places, whole : 0..Blocks]]
    <3>1. CASE pc = "log" BY <1>1, <2>1, <3>1, OneMoreBlock
    <3>2. CASE pc # "log" BY <2>1, <3>2 DEF Inv1, StateType
    <3> QED BY <3>1, <3>2
  <2>3. CASE pc \in {"make", "log"}
    <3>1. pc' = "log" /\ todo' = todo BY <2>1, <2>3
    <3>2. todo = {} BY <1>6, <2>3
    <3>3. StateType' BY <1>1, <1>3, <2>2, <3>1 DEF Inv1, StateType
    <3>4. log.id > 0 /\ IsCandidate(log.file) BY <2>3 DEF Inv1, MakeOK, LogOK, MakeReady, LogReady
    <3>5. log.place \in Files' /\ dir'[log.place] = log.file
      <4>1. CASE pc = "make" BY <4>1, <1>3, <1>8, MakeEntry
      <4>2. CASE pc = "log"
        <5>1. log.place \in Files /\ dir[log.place] = log.file BY <4>2 DEF Inv1, LogOK, LogReady
        <5>2. dir' = dir /\ Files' = Files BY <4>2, <1>1, <1>3, LogWrite
        <5> QED BY <5>1, <5>2
      <4> QED BY <2>3, <4>1, <4>2
    <3>6. LogReady' BY <1>1, <1>8, <3>4, <3>5 DEF LogReady, IsCandidate
    <3>7. MakeOK' /\ LogOK' /\ ChangeOK' /\ IdleOK' /\ TodoOK' /\ FindOK'
      BY <1>8, <3>1, <3>2, <3>6 DEF MakeOK, LogOK, ChangeOK, IdleOK, TodoOK, FindOK
    <3> QED BY <1>4, <3>3, <3>7 DEF Inv1
  <2>4. CASE pc = "close"
    <3>1. pc' = "idle" /\ todo' = todo BY <2>1, <2>4
    <3>2. todo = {} BY <1>6, <2>4
    <3>3. StateType' BY <1>1, <1>3, <2>2, <3>1 DEF Inv1, StateType
    <3>4. MakeOK' /\ LogOK' /\ ChangeOK' /\ IdleOK' /\ TodoOK' /\ FindOK'
      BY <1>8, <3>1, <3>2 DEF MakeOK, LogOK, ChangeOK, IdleOK, TodoOK, FindOK
    <3> QED BY <1>4, <3>3, <3>4 DEF Inv1
  <2>5. CASE pc = "recover"
    <3>1. pc' = pc /\ Done BY <2>1, <2>5
    <3>2. todo' \in SUBSET Places /\ \A p \in todo' : (p \in Files /\ IsCandidate(dir[p]))'
      BY <1>4, <2>5, <3>1, TodoDone
    <3>3. StateType' BY <1>1, <1>3, <2>2, <3>1, <3>2 DEF Inv1, StateType
    <3>4. TodoOK' BY <1>8, <2>5, <3>1, <3>2 DEF TodoOK
    <3>5. MakeOK' /\ LogOK' /\ ChangeOK' /\ IdleOK' /\ FindOK'
      BY <1>8, <2>5, <3>1 DEF MakeOK, LogOK, ChangeOK, IdleOK, FindOK
    <3> QED BY <1>4, <3>3, <3>4, <3>5 DEF Inv1
  <2> QED BY <1>5, <2>3, <2>4, <2>5
<1> QED BY <1>7, <1>8

LEMMA Inv1Same == ASSUME Inv1, UNCHANGED vars PROVE Inv1'
<1>1. /\ UNCHANGED card /\ used' = used /\ dir' = dir /\ heap' = heap
      /\ pc' = pc /\ plan' = plan /\ log' = log /\ made' = made
      /\ todo' = todo /\ skip' = skip /\ last' = last /\ lo' = lo /\ hi' = hi /\ clean' = clean
  BY DEF vars, card, recovery
<1>2. CardOK' /\ Files' = Files BY <1>1, CardSame DEF Inv1
<1>3. StateType' BY <1>1 DEF Inv1, StateType
<1>4. Whole' = Whole /\ Changed' = Changed /\ At' = At BY <1>1 DEF Whole, Changed, At
<1>5. MakeOK' BY <1>1, <1>2 DEF Inv1, MakeOK, MakeReady
<1>6. LogOK' BY <1>1, <1>2, <1>4 DEF Inv1, LogOK, LogReady
<1>7. ChangeOK' BY <1>1, <1>2, <1>4 DEF Inv1, ChangeOK, ChangeReady, Shortens, Deletes, Frees
<1>8. TodoOK' BY <1>1, <1>2, <1>4 DEF Inv1, TodoOK
<1>9. IdleOK' /\ FindOK' BY <1>1 DEF Inv1, IdleOK, FindOK
<1> QED BY <1>2, <1>3, <1>5, <1>6, <1>7, <1>8, <1>9 DEF Inv1

LEMMA Inv1Next == ASSUME Inv1, [Next]_vars PROVE Inv1'
<1>1. CASE Program
  BY <1>1, WriteBlockKeeps, CloseKeeps, GatherKeeps, ReadHeaderKeeps, ProbeKeeps, FoundKeeps, RecoveredKeeps,
     CardWritesKeeps DEF Program
<1>2. CASE Make \/ StartRecover BY <1>2, MakeKeeps, StartRecoverKeeps
<1>3. CASE GatherFails \/ ReadFails \/ WriteFails \/ Cut \/ HostDeletes
  BY <1>3, GatherFailsKeeps, ReadFailsKeeps, WriteFailsKeeps, CutKeeps, HostDeletesKeeps
<1>4. CASE UNCHANGED vars BY <1>4, Inv1Same
<1> QED BY <1>1, <1>2, <1>3, <1>4 DEF Next

(* The card and the plan agree in every state. *)
THEOREM CardLogInv == Spec => []Inv1
<1>1. Inv1 /\ [Next]_vars => Inv1' BY Inv1Next
<1> QED BY Inv1Init, <1>1, PTL DEF Spec

(* Whatever is cut short or refused, no two files share a cluster, and every
   file's clusters are marked in the bitmap (exfat.c's order of writes). *)
THEOREM CardLogFilesDisjoint == Spec => []FilesDisjoint
<1>1. Inv1 => FilesDisjoint
  <2>1. Listed \subseteq Files BY DEF Listed, Files
  <2> QED BY <2>1 DEF Inv1, CardOK, Marked, Apart, FilesDisjoint
<1> QED BY CardLogInv, <1>1, PTL

-----------------------------------------------------------------------------
(* What the blocks hold: whose file is whose, and how far it is written. *)
LEMMA OwnerOnce ==
    ASSUME StateType, NEW p, NEW i, NEW j, Owner(p, i), Owner(p, j)
    PROVE  i = j /\ i \in 1..Logs /\ i \in Nat /\ made[i].whole \in 0..Blocks /\ made[i].place = p
<1>1. log.id \in 0..Logs BY DEF StateType
<1>2. i \in 1..log.id /\ j \in 1..log.id /\ made[i].place = p BY DEF Owner
<1>3. i \in Nat /\ j \in Nat /\ i \in 1..Logs BY <1>1, <1>2, Constants
<1>4. ~(j > i) /\ ~(i > j) BY <1>2 DEF Owner
<1> QED BY <1>2, <1>3, <1>4 DEF StateType

LEMMA OwnerSame ==
    ASSUME log' = log, made' = made
    PROVE  \A p, id : Owner(p, id)' <=> Owner(p, id)
BY DEF Owner

LEMMA HoldsSame ==
    ASSUME Inv1, NEW p \in Files, NEW id \in 1..Logs, Holds(p, id),
           dir'[p] = dir[p], made'[id].whole = made[id].whole,
           \A n \in Nat : n < dir[p].blocks => heap'[BlockAt(dir[p], n)] = heap[BlockAt(dir[p], n)]
    PROVE  Holds(p, id)'
<1> DEFINE f == dir[p]
           w == made[id].whole
<1>1. f \in FileSet /\ w \in 0..Blocks
  <2>1. p \in Places BY DEF Files
  <2> QED BY <2>1, EntryKinds DEF Inv1, CardOK, StateType
<1>2. f.blocks \in 1..Blocks /\ f.blocks \in Nat /\ f.blocks > 0 /\ w \in Nat BY <1>1, FileFacts, Constants
<1>3. w =< f.blocks BY <1>1, <1>2, Constants DEF Holds, IsCandidate
<1>4. PICK g : g = f OBVIOUS
<1>5. PICK v : v = w OBVIOUS
<1>6. dir'[p] = g /\ dir[p] = g /\ made'[id].whole = v /\ made[id].whole = v BY <1>4, <1>5
<1>7. \A n \in 0..v - 1 : heap'[BlockAt(g, n)] = heap[BlockAt(g, n)]
  <2> TAKE n \in 0..v - 1
  <2>1. n \in Nat /\ n < f.blocks BY <1>2, <1>3, <1>5
  <2> QED BY <2>1, <1>4
<1>8. \A n \in v..g.blocks - 1 : heap'[BlockAt(g, n)] = heap[BlockAt(g, n)]
  <2> TAKE n \in v..g.blocks - 1
  <2>1. n \in Nat /\ n < f.blocks BY <1>2, <1>4, <1>5
  <2> QED BY <2>1, <1>4
<1>9. heap'[BlockAt(g, 0)] = heap[BlockAt(g, 0)] BY <1>2, <1>4
<1> HIDE DEF f, w
<1>10. /\ IsCandidate(g) \/ (v > 0 /\ g.blocks = v /\ g.valid = v)
       /\ \A n \in 0..v - 1 : WholeAt(g, n, id)
       /\ \A n \in v..g.blocks - 1 : heap[BlockAt(g, n)].tail # Frame(id, n)
       /\ v = 0 => heap[BlockAt(g, 0)].head \in {Clear, Frame(id, 0)}
  BY <1>6 DEF Holds
<1>11. \A n \in 0..v - 1 : WholeAt(g, n, id)' BY <1>7, <1>10 DEF WholeAt
<1>12. \A n \in v..g.blocks - 1 : heap'[BlockAt(g, n)].tail # Frame(id, n) BY <1>8, <1>10
<1>13. v = 0 => heap'[BlockAt(g, 0)].head \in {Clear, Frame(id, 0)} BY <1>9, <1>10
<1> QED BY <1>6, <1>10, <1>11, <1>12, <1>13 DEF Holds, WholeAt, IsCandidate, BlockAt

LEMMA HeapSame ==
    ASSUME Inv1, HeapOK, dir' = dir, heap' = heap, log' = log, made' = made
    PROVE  HeapOK'
<1>1. Files' = Files BY DEF Files
<1>2. Fresh' /\ First' BY DEF HeapOK, Fresh, First
<1>3. Owned'
  <2> SUFFICES ASSUME NEW p \in Files \ {1} PROVE \E id \in 1..log.id : Owner(p, id)' /\ Holds(p, id)'
    BY <1>1 DEF Owned
  <2>1. PICK id \in 1..log.id : Owner(p, id) /\ Holds(p, id) BY DEF HeapOK, Owned
  <2>2. id \in 1..Logs BY <2>1, OwnerOnce DEF Inv1
  <2>3. Holds(p, id)' BY <2>1, <2>2, HoldsSame
  <2> QED BY <2>1, <2>3, OwnerSame
<1>4. Kept' BY <1>1 DEF HeapOK, Kept, Owner
<1> QED BY <1>2, <1>3, <1>4 DEF HeapOK

LEMMA OwnedBy ==
    ASSUME Inv1, HeapOK, NEW p \in Files, p # 1, NEW id, Owner(p, id)
    PROVE  Holds(p, id)
<1>1. PICK i \in 1..log.id : Owner(p, i) /\ Holds(p, i) BY DEF HeapOK, Owned
<1>2. i = id BY <1>1, OwnerOnce DEF Inv1
<1> QED BY <1>1, <1>2

LEMMA OneIsAFile ==
    ASSUME Inv1, HeapOK
    PROVE  1 \in Files /\ dir[1] = Foreign /\ Foreign \in FileSet
<1>1. Foreign \in FileSet /\ Foreign.type = "file" BY ForeignFacts, FileFacts
<1> QED BY <1>1 DEF HeapOK, First, Files

LEMMA Inv2Init == Init => Inv2
<1> SUFFICES ASSUME Init PROVE Inv2 OBVIOUS
<1>1. Inv1 BY Inv1Init
<1>2. /\ dir = [p \in Places |-> IF p = 1 THEN Foreign ELSE IF p \in 2..3 THEN More ELSE End]
      /\ heap = [b \in Blocks0 |-> IF b \div PerCluster \in FileClusters(Foreign) THEN [head |-> Other, tail |-> Other]
                                   ELSE [head |-> Clear, tail |-> Clear]]
      /\ pc = "idle" /\ plan = <<>> /\ log = [id |-> 0, place |-> 1, file |-> Foreign]
      /\ made = [id \in 1..Logs |-> [place |-> 1, whole |-> 0]]
  BY DEF Init, Blocks0
<1>3. 1 \in Places BY <1>1, <1>2 DEF Inv1, StateType
<1>4. dir[1] = Foreign BY <1>2, <1>3
<1>5. Foreign \in FileSet /\ 0 < Foreign.blocks
  BY ForeignFacts, Constants
<1>6. BlockAt(Foreign, 0) \in Blocks0 /\ BlockAt(Foreign, 0) \div PerCluster \in FileClusters(Foreign)
  BY <1>5, BlockPlace
<1>7. First BY <1>2, <1>3, <1>4, <1>6 DEF First
<1>8. Fresh
  <2>1. Other.id = Logs + 1 /\ Clear.id = 0 BY DEF Other, Clear, Frame
  <2>2. log.id = 0 BY <1>2
  <2> QED BY <1>2, <2>1, <2>2 DEF Fresh
<1>9. Files = {1}
  <2>1. \A p \in Places : p # 1 => dir[p] \in {More, End} BY <1>2
  <2>2. More.type # "file" /\ End.type # "file" /\ Foreign.type = "file" BY <1>5, Kinds, FileFacts
  <2> QED BY <2>1, <2>2, <1>3, <1>4 DEF Files
<1>10. Owned BY <1>9 DEF Owned
<1>11. Kept BY <1>2 DEF Kept
<1>12. Making /\ Logging /\ Changing /\ Finding BY <1>2 DEF Making, Logging, Changing, Finding
<1> QED BY <1>7, <1>8, <1>10, <1>11, <1>12 DEF Inv2, HeapOK

LEMMA Inv2Quiet ==
    ASSUME Inv1, Inv2, dir' = dir, heap' = heap, log' = log, made' = made,
           pc' \in {"idle", "recover", "recovered"}, plan' = <<>>
    PROVE  Inv2'
<1>1. HeapOK' BY HeapSame DEF Inv2
<1>2. Making' /\ Logging' /\ Changing' /\ Finding' BY DEF Making, Logging, Changing, Finding
<1> QED BY <1>1, <1>2 DEF Inv2

LEMMA QuietKeeps ==
    ASSUME Inv1, Inv2, StartRecover \/ Gather \/ GatherFails \/ Recovered \/ Cut \/ ReadFails
    PROVE  Inv2'
<1>1. dir' = dir /\ heap' = heap /\ log' = log /\ made' = made
  BY DEF StartRecover, Gather, GatherFails, Recovered, Cut, ReadFails, card
<1>2. pc' \in {"idle", "recover", "recovered"} /\ plan' = <<>>
  BY DEF StartRecover, Idle, Gather, GatherFails, Recovered, Cut, ReadFails
<1> QED BY <1>1, <1>2, Inv2Quiet

(* Numbers of logs in frames. *)
LEMMA Magic ==
    /\ Clear.id = 0 /\ ~IsMagic(Clear)
    /\ Other.id = Logs + 1 /\ Other # Clear /\ ~IsMagic(Other)
    /\ \A id \in 1..Logs : IsMagic(Frame(id, 0))
    /\ \A id, n : Frame(id, n).id = id /\ Frame(id, n).n = n
<1>1. \A id, n : Frame(id, n).id = id /\ Frame(id, n).n = n BY DEF Frame
<1> QED BY <1>1, Constants DEF Clear, Other, IsMagic

(* Block 0 of an open log tells whose it is, and whether anything is written. *)
LEMMA HeaderTells ==
    ASSUME Inv1, HeapOK, NEW p \in Files, p # 1, IsCandidate(dir[p]), NEW id, Owner(p, id)
    PROVE  /\ id \in 1..Logs /\ made[id].whole \in 0..Blocks /\ Holds(p, id)
           /\ made[id].whole > 0 => heap[BlockAt(dir[p], 0)].head = Frame(id, 0) /\ WholeAt(dir[p], 0, id)
           /\ made[id].whole = 0 => /\ heap[BlockAt(dir[p], 0)].head \in {Clear, Frame(id, 0)}
                                    /\ ~WholeAt(dir[p], 0, id)
<1>1. id \in 1..Logs /\ made[id].whole \in 0..Blocks BY OwnerOnce DEF Inv1
<1>2. Holds(p, id) BY OwnedBy
<1>3. dir[p].blocks = Blocks BY DEF IsCandidate
<1>4. ASSUME made[id].whole > 0
      PROVE  heap[BlockAt(dir[p], 0)].head = Frame(id, 0) /\ WholeAt(dir[p], 0, id)
  <2>1. 0 \in 0..made[id].whole - 1 BY <1>1, <1>4, Constants
  <2>2. WholeAt(dir[p], 0, id) BY <1>2, <2>1 DEF Holds
  <2> QED BY <2>2 DEF WholeAt
<1>5. ASSUME made[id].whole = 0
      PROVE  heap[BlockAt(dir[p], 0)].head \in {Clear, Frame(id, 0)} /\ ~WholeAt(dir[p], 0, id)
  <2>1. 0 \in made[id].whole..dir[p].blocks - 1 BY <1>3, <1>5, Constants
  <2>2. heap[BlockAt(dir[p], 0)].tail # Frame(id, 0) BY <1>2, <2>1 DEF Holds
  <2> QED BY <1>2, <1>5, <2>2 DEF Holds, WholeAt
<1> QED BY <1>1, <1>2, <1>4, <1>5

LEMMA ReadHeaderHeap == ASSUME Inv1, Inv2, ReadHeader PROVE Inv2'
<1>1. dir' = dir /\ heap' = heap /\ pc = "recover" /\ plan = <<>> /\ todo # {} /\ log' = log /\ made' = made
  BY DEF ReadHeader, card
<1>2. At \in Files /\ IsCandidate(dir[At]) BY <1>1, AtIn DEF Inv1, TodoOK
<1>3. HeapOK /\ HeapOK' BY <1>1, HeapSame DEF Inv2
<1>4. 1 \in Files /\ dir[1] = Foreign /\ heap[BlockAt(Foreign, 0)].head = Other
  BY <1>3, OneIsAFile DEF HeapOK, First
<1>5. At = 1 => Header = Other BY <1>4 DEF Header
<1>6. CASE /\ IsMagic(Header) /\ WholeAt(dir[At], 0, Header.id)
           /\ pc' = "find" /\ lo' = 1 /\ hi' = dir[At].blocks /\ UNCHANGED <<plan, todo, skip>>
  <2>1. At # 1 BY <1>5, <1>6, Magic
  <2>2. PICK id \in 1..log.id : Owner(At, id) BY <1>2, <1>3, <2>1 DEF HeapOK, Owned
  <2>3. /\ id \in 1..Logs /\ made[id].whole \in 0..Blocks
        /\ made[id].whole > 0 => Header = Frame(id, 0)
        /\ made[id].whole = 0 => Header \in {Clear, Frame(id, 0)} /\ ~WholeAt(dir[At], 0, id)
    BY <1>2, <1>3, <2>1, <2>2, HeaderTells DEF Header
  <2>4. made[id].whole # 0 /\ Header = Frame(id, 0) BY <1>6, <2>3, Magic, Constants
  <2>5. 1 =< made[id].whole /\ made[id].whole =< dir[At].blocks BY <1>2, <2>3, <2>4, Constants DEF IsCandidate
  <2>6. At' = At BY <1>6 DEF At
  <2>7. Header' = Header BY <1>1, <2>6 DEF Header, BlockAt
  <2>8. Owner(At, id)' BY <1>1, <2>2, <2>6 DEF Owner
  <2>9. Finding' BY <1>1, <1>6, <2>1, <2>2, <2>4, <2>5, <2>6, <2>7, <2>8 DEF Finding, Frame
  <2> QED BY <1>1, <1>3, <1>6, <2>9 DEF Inv2, Making, Logging, Changing
<1>7. CASE /\ ~(IsMagic(Header) /\ WholeAt(dir[At], 0, Header.id)) /\ (Header = Clear \/ IsMagic(Header))
           /\ plan' = Delete(At, dir[At]) /\ UNCHANGED <<pc, lo, hi, todo, skip>>
  <2>1. At # 1 BY <1>5, <1>7, Magic
  <2>2. PICK id \in 1..log.id : Owner(At, id) BY <1>2, <1>3, <2>1 DEF HeapOK, Owned
  <2>3. /\ id \in 1..Logs /\ made[id].whole \in 0..Blocks
        /\ made[id].whole > 0 => Header = Frame(id, 0) /\ WholeAt(dir[At], 0, id)
    BY <1>2, <1>3, <2>1, <2>2, HeaderTells DEF Header
  <2>4. made[id].whole = 0 BY <1>7, <2>3, Magic, Constants
  <2>5. plan'[1] = Unlink(At) /\ plan'[1].do = "unlink"
    <3>1. At \in Places /\ dir[At] \in FileSet BY <1>2, EntryKinds DEF Files, Inv1, CardOK
    <3>2. plan'[1] = Unlink(At) BY <1>7, <3>1, DeletePlan
    <3> QED BY <3>2 DEF Unlink
  <2>6. Changed' = At BY <1>1, <1>7 DEF Changed, At
  <2>7. Owner(At, id)' BY <1>1, <2>2, OwnerSame, <1>7 DEF Owner, At
  <2>8. Changing'
    <3>1. \E i \in 1..log'.id : /\ Owner(Changed, i)'
                                /\ plan'[1].do = "entry" => plan'[1].file.blocks = made'[i].whole
                                /\ plan'[1].do = "unlink" => made'[i].whole = 0
      BY <1>1, <2>2, <2>4, <2>5, <2>6, <2>7 DEF Owner
    <3> QED BY <2>1, <2>6, <3>1 DEF Changing
  <2> QED BY <1>1, <1>3, <1>7, <2>8 DEF Inv2, Making, Logging, Finding
<1>8. CASE UNCHANGED <<pc, lo, hi, plan>> BY <1>1, <1>8, Inv2Quiet
<1> QED BY <1>6, <1>7, <1>8 DEF ReadHeader

(* A step of the bisection keeps the log's length between its ends. *)
LEMMA ProbeHeap == ASSUME Inv1, Inv2, Probe PROVE Inv2'
<1> DEFINE mid == lo + (hi - lo) \div 2
<1>1. /\ dir' = dir /\ heap' = heap /\ pc = "find" /\ pc' = pc /\ plan' = plan /\ log' = log /\ made' = made
      /\ todo' = todo /\ lo < hi
      /\ IF WholeAt(dir[At], mid, Header.id) THEN lo' = mid + 1 /\ hi' = hi ELSE hi' = mid /\ lo' = lo
  BY DEF Probe, card
<1>2. lo \in Nat /\ hi \in Nat /\ lo > 0 /\ hi =< Blocks BY <1>1, Constants DEF Inv1, StateType, FindOK
<1>3. mid \in Nat /\ lo =< mid /\ mid < hi BY <1>1, <1>2, Middle
<1> HIDE DEF mid
<1>4. todo # {} /\ plan = <<>> BY <1>1 DEF Inv1, TodoOK, IdleOK
<1>5. At \in Files /\ IsCandidate(dir[At]) BY <1>1, <1>4, AtIn DEF Inv1, TodoOK
<1>6. At # 1 BY <1>1 DEF Inv2, Finding
<1>7. PICK id \in 1..log.id : /\ Owner(At, id) /\ Header = Frame(id, 0)
                              /\ lo =< made[id].whole /\ made[id].whole =< hi
  BY <1>1 DEF Inv2, Finding
<1>8. made[id].whole \in Nat /\ Holds(At, id)
  BY <1>5, <1>6, <1>7, HeaderTells, Constants DEF Inv2
<1>9. Header.id = id BY <1>7, Magic
<1>10. WholeAt(dir[At], mid, id) <=> mid < made[id].whole
  <2>1. ASSUME mid < made[id].whole PROVE WholeAt(dir[At], mid, id)
    <3>1. mid \in 0..made[id].whole - 1 BY <1>3, <1>8, <2>1
    <3> QED BY <1>8, <3>1 DEF Holds
  <2>2. ASSUME mid >= made[id].whole PROVE ~WholeAt(dir[At], mid, id)
    <3>1. dir[At].blocks = Blocks BY <1>5 DEF IsCandidate
    <3>2. mid \in made[id].whole..dir[At].blocks - 1 BY <1>2, <1>3, <1>8, <2>2, <3>1, Constants
    <3>3. heap[BlockAt(dir[At], mid)].tail # Frame(id, mid) BY <1>8, <3>2 DEF Holds
    <3> QED BY <3>3 DEF WholeAt
  <2> QED BY <1>3, <1>8, <2>1, <2>2
<1>11. lo' =< made[id].whole /\ made[id].whole =< hi' BY <1>1, <1>2, <1>3, <1>7, <1>8, <1>9, <1>10
<1>12. At' = At BY <1>1 DEF At
<1>13. Header' = Header BY <1>1, <1>12 DEF Header, BlockAt
<1>14. Owner(At, id)' BY <1>1, <1>7, <1>12 DEF Owner
<1>15. Finding' BY <1>1, <1>6, <1>7, <1>11, <1>12, <1>13, <1>14 DEF Finding, Frame
<1>16. HeapOK' BY <1>1, HeapSame DEF Inv2
<1> QED BY <1>1, <1>4, <1>15, <1>16 DEF Inv2, Making, Logging, Changing

LEMMA FoundHeap == ASSUME Inv1, Inv2, Found PROVE Inv2'
<1>1. /\ dir' = dir /\ heap' = heap /\ pc = "find" /\ pc' = "recover" /\ lo >= hi /\ todo' = todo /\ log' = log
      /\ made' = made /\ plan' = Trim(At, dir[At], lo)
  BY DEF Found, card
<1>2. lo \in 1..Blocks /\ lo = hi /\ lo \in Nat BY <1>1, Constants DEF Inv1, FindOK, StateType
<1>3. todo # {} /\ plan = <<>> BY <1>1 DEF Inv1, TodoOK, IdleOK
<1>4. At \in Files /\ IsCandidate(dir[At]) BY <1>1, <1>3, AtIn DEF Inv1, TodoOK
<1>5. At \in Places /\ dir[At] \in FileSet BY <1>4, EntryKinds DEF Files, Inv1, CardOK
<1>6. PICK id \in 1..log.id : Owner(At, id) /\ lo =< made[id].whole /\ made[id].whole =< hi
  BY <1>1 DEF Inv2, Finding
<1>7. made[id].whole \in 0..Blocks BY <1>6, OwnerOnce DEF Inv1
<1>8. made[id].whole = lo BY <1>2, <1>6, <1>7, Constants
<1>9. plan'[1].do = "entry" /\ plan'[1].file.blocks = lo
  <2> DEFINE g == File(dir[At].first, lo, lo)
             s == Trim(At, dir[At], lo)
  <2>1. s[1] = Entry(At, g) BY <1>2, <1>4, <1>5, TrimPlan
  <2>2. g.blocks = lo BY FileFields
  <2> HIDE DEF g, s
  <2>3. s[1].do = "entry" /\ s[1].file = g BY <2>1 DEF Entry
  <2>4. plan' = s BY <1>1 DEF s
  <2> QED BY <2>2, <2>3, <2>4
<1>10. Changed' = At BY <1>1 DEF Changed, At
<1>11. Owner(At, id)' BY <1>1, <1>6 DEF Owner, At
<1>12. At # 1 BY <1>1 DEF Inv2, Finding
<1>13. Changing'
  <2>1. \E i \in 1..log'.id : /\ Owner(Changed, i)'
                              /\ plan'[1].do = "entry" => plan'[1].file.blocks = made'[i].whole
                              /\ plan'[1].do = "unlink" => made'[i].whole = 0
    BY <1>1, <1>6, <1>8, <1>9, <1>10, <1>11 DEF Owner
  <2> QED BY <1>10, <1>12, <2>1 DEF Changing
<1>14. HeapOK' BY <1>1, HeapSame DEF Inv2
<1> QED BY <1>1, <1>13, <1>14 DEF Inv2, Making, Logging, Finding

LEMMA CloseHeap == ASSUME Inv1, Inv2, Close PROVE Inv2'
<1>1. /\ dir' = dir /\ heap' = heap /\ pc = "log" /\ pc' = "close" /\ plan = <<>> /\ Whole > 0
      /\ plan' = Trim(log.place, log.file, Whole) /\ log' = log /\ made' = made
  BY DEF Close, card
<1>2. LogReady BY <1>1 DEF Inv1, LogOK
<1>3. log.place \in Places /\ log.file \in FileSet /\ IsCandidate(log.file)
  BY <1>2 DEF LogReady, Inv1, StateType
<1>4. Owner(log.place, log.id) /\ log.place # 1 BY <1>1 DEF Inv2, Logging
<1>5. Whole \in 1..Blocks
  <2>1. Whole \in 0..Blocks BY <1>4, OwnerOnce DEF Inv1, Whole
  <2> QED BY <2>1, <1>1, Constants
<1>6. plan'[1].do = "entry" /\ plan'[1].file.blocks = Whole
  <2> DEFINE g == File(log.file.first, Whole, Whole)
             s == Trim(log.place, log.file, Whole)
  <2>1. s[1] = Entry(log.place, g) BY <1>3, <1>5, TrimPlan
  <2>2. g.blocks = Whole BY FileFields
  <2> HIDE DEF g, s
  <2>3. s[1].do = "entry" /\ s[1].file = g BY <2>1 DEF Entry
  <2>4. plan' = s BY <1>1 DEF s
  <2> QED BY <2>2, <2>3, <2>4
<1>7. Changed' = log.place BY <1>1 DEF Changed
<1>8. Owner(log.place, log.id)' BY <1>1, <1>4 DEF Owner
<1>9. log.id \in 1..log.id BY <1>4 DEF Owner
<1>10. Changing'
  <2>1. \E i \in 1..log'.id : /\ Owner(Changed, i)'
                              /\ plan'[1].do = "entry" => plan'[1].file.blocks = made'[i].whole
                              /\ plan'[1].do = "unlink" => made'[i].whole = 0
    BY <1>1, <1>6, <1>7, <1>8, <1>9 DEF Owner, Whole
  <2> QED BY <1>4, <1>7, <2>1 DEF Changing
<1>11. Logging' BY <1>1, <1>4, <1>8 DEF Logging
<1>12. HeapOK' BY <1>1, HeapSame DEF Inv2
<1> QED BY <1>1, <1>10, <1>11, <1>12 DEF Inv2, Making, Finding

LEMMA WriteBlockHeap == ASSUME Inv1, Inv2, WriteBlock PROVE Inv2'
<1>1. /\ dir' = dir /\ heap' = heap /\ pc = "log" /\ pc' = pc /\ log' = log /\ made' = made
      /\ plan' = <<HeadOf(log.file, log.id, Whole), TailOf(log.file, log.id, Whole)>>
  BY DEF WriteBlock, card
<1>2. HeapOK' BY <1>1, HeapSame DEF Inv2
<1>3. Owner(log.place, log.id)' /\ log.place # 1 BY <1>1 DEF Inv2, Logging, Owner
<1>4. Len(plan') = 2 BY <1>1
<1>5. \A w : plan' # <<w>> BY <1>4
<1>6. Logging' BY <1>1, <1>3, <1>5 DEF Logging
<1> QED BY <1>1, <1>2, <1>6 DEF Inv2, Making, Changing, Finding

(* A log is made under a number, and at a place, that nothing has yet. *)
LEMMA MakeHeap == ASSUME Inv1, Inv2, Make PROVE Inv2'
<1> DEFINE f == File(Min(FreeRuns), Blocks, 0)
           p == Min(FreePlaces)
           k == log.id + 1
<1>1. /\ dir' = dir /\ heap' = heap /\ pc' = "make" /\ log.id < Logs
      /\ FreeRuns # {} /\ FreePlaces # {}
      /\ log' = [id |-> k, place |-> p, file |-> f]
      /\ plan' = Create(p, f)
      /\ made' = [made EXCEPT ![k].place = p]
  BY DEF Make, Idle, card
<1>2. f \in FileSet /\ p \in FreePlaces /\ p \in Places BY <1>1, MakeChooses
<1> HIDE DEF f, p
<1>3. p \notin Files
  <2>1. p \in Nat /\ p + 2 \in Nat /\ p =< p + 2 BY <1>2, PlaceFacts
  <2>2. p \in p..p + 2 BY <2>1
  <2>3. ~InUse(dir[p]) BY <1>2, <2>2 DEF FreePlaces
  <2> QED BY <2>3 DEF InUse, Files
<1>4. log.id \in Nat /\ k \in 1..Logs /\ k > log.id BY <1>1, Constants DEF Inv1, StateType
<1> HIDE DEF k
<1>5. made \in [1..Logs -> [place : Places, whole : 0..Blocks]] BY DEF Inv1, StateType
<1>6. /\ made'[k].place = p /\ made'[k].whole = made[k].whole
      /\ \A i \in 1..Logs : i # k => made'[i] = made[i]
  BY <1>1, <1>4, <1>5
<1>7. log'.id = k /\ log'.place = p /\ log'.file = f BY <1>1
<1>8. k = log.id + 1 /\ k \in Nat BY <1>4 DEF k
<1>9. \A q \in Files, i \in 1..log.id : Owner(q, i) => Owner(q, i)'
  <2> TAKE q \in Files, i \in 1..log.id
  <2> HAVE Owner(q, i)
  <2>1. i \in 1..Logs /\ i # k /\ i \in 1..k /\ i \in Nat BY <1>4, <1>8, Constants
  <2>2. made'[i].place = q BY <1>6, <2>1 DEF Owner
  <2>3. ASSUME NEW j \in 1..k, j > i PROVE made'[j].place # q
    <3>1. CASE j = k BY <3>1, <1>3, <1>6
    <3>2. CASE j # k
      <4>1. j \in 1..log.id /\ j \in 1..Logs BY <3>2, <1>4, <1>8, Constants
      <4> QED BY <4>1, <3>2, <2>3, <1>6 DEF Owner
    <3> QED BY <3>1, <3>2
  <2> QED BY <2>1, <2>2, <2>3, <1>7 DEF Owner
<1>10. made[k].whole = 0
  <2>1. made[k].whole \in 0..Blocks BY <1>4, <1>5
  <2>2. made[k].whole > 0 => k \in 1..log.id BY <1>4 DEF Inv2, HeapOK, Kept, Owner
  <2> QED BY <2>1, <2>2, <1>4, Constants
<1>11. Files' = Files BY <1>1 DEF Files
<1>12. Fresh'
  <2>1. \A x \in 0..log.id \cup {Logs + 1} : x \in 0..k \cup {Logs + 1} BY <1>4, <1>8
  <2> QED BY <2>1, <1>1, <1>7 DEF Inv2, HeapOK, Fresh
<1>13. First' BY <1>1 DEF Inv2, HeapOK, First
<1>14. Owned'
  <2> SUFFICES ASSUME NEW q \in Files \ {1} PROVE \E i \in 1..log'.id : Owner(q, i)' /\ Holds(q, i)'
    BY <1>11 DEF Owned
  <2>1. PICK i \in 1..log.id : Owner(q, i) /\ Holds(q, i) BY DEF Inv2, HeapOK, Owned
  <2>2. i \in 1..Logs /\ i # k /\ i \in 1..k BY <1>4, <1>8, Constants
  <2>3. Holds(q, i)' BY <2>1, <2>2, <1>1, <1>6, HoldsSame
  <2> QED BY <2>1, <2>2, <2>3, <1>7, <1>9
<1>15. Kept'
  <2> SUFFICES ASSUME NEW i \in 1..Logs, made'[i].whole > 0
               PROVE  (made[i].place \in Files \ {1} /\ Owner(made[i].place, i))'
    BY DEF Kept
  <2>1. i # k /\ made'[i] = made[i] BY <1>6, <1>10
  <2>2. PICK q \in Files \ {1} : q = made[i].place /\ Owner(q, i) BY <2>1 DEF Inv2, HeapOK, Kept
  <2>3. i \in 1..log.id BY <2>2 DEF Owner
  <2>4. Owner(q, i)' BY <1>9, <2>2, <2>3
  <2> QED BY <1>11, <2>1, <2>2, <2>4 DEF Owner
<1>16. Making'
  <2>1. Owner(log.place, log.id)'
    <3>1. \A j \in 1..k : ~(j > k) BY <1>8
    <3>2. k \in 1..k BY <1>4, <1>8
    <3> QED BY <3>1, <3>2, <1>6, <1>7 DEF Owner
  <2>2. made'[log'.id].whole = 0 BY <1>6, <1>7, <1>10
  <2>3. \A b \in Blocks0 : heap'[b].head.id # log'.id /\ heap'[b].tail.id # log'.id
    <3>1. k \notin 0..log.id \cup {Logs + 1} BY <1>4, Constants
    <3> QED BY <3>1, <1>1, <1>7 DEF Inv2, HeapOK, Fresh
  <2>4. \E i \in 1..Len(plan') : plan'[i].do = "frame"
    <3> DEFINE s == Create(p, f)
    <3>1. \E i \in 1..Len(s) : s[i].do = "frame" BY <1>2, CreatePlan
    <3>2. plan' = s BY <1>1
    <3> HIDE DEF s
    <3> QED BY <3>1, <3>2
  <2> QED BY <2>1, <2>2, <2>3, <2>4 DEF Making
<1>17. Logging' /\ Changing' /\ Finding' BY <1>1 DEF Logging, Changing, Finding
<1> QED BY <1>12, <1>13, <1>14, <1>15, <1>16, <1>17 DEF Inv2, HeapOK

LEMMA HostDeletesHeap == ASSUME Inv1, Inv2, HostDeletes PROVE Inv2'
<1>1. PICK id \in 1..Logs :
        /\ made[id].whole > 0
        /\ dir' = [dir EXCEPT ![made[id].place] = Unused, ![made[id].place + 1] = Unused,
                              ![made[id].place + 2] = Unused]
        /\ made' = [made EXCEPT ![id].whole = 0]
  BY DEF HostDeletes
<1>2. pc' = "idle" /\ plan' = <<>> /\ heap' = heap /\ log' = log BY DEF HostDeletes, Idle
<1> DEFINE p == made[id].place
<1>3. p \in Files \ {1} /\ Owner(p, id) BY <1>1 DEF Inv2, HeapOK, Kept
<1>4. Files' = Files \ {p} /\ \A q \in Files \ {p} : dir'[q] = dir[q]
  BY <1>1, <1>3, UnlinkKept DEF Inv1
<1>5. made \in [1..Logs -> [place : Places, whole : 0..Blocks]] BY DEF Inv1, StateType
<1>6. /\ \A i \in 1..Logs : made'[i].place = made[i].place /\ (i # id => made'[i] = made[i])
      /\ made'[id].whole = 0
  BY <1>1, <1>5
<1> HIDE DEF p
<1>7. \A q, i : Owner(q, i)' <=> Owner(q, i)
  <2>1. \A i \in 1..log.id : i \in 1..Logs BY Constants DEF Inv1, StateType
  <2> QED BY <1>2, <1>6, <2>1 DEF Owner
<1>8. 1 \in Files \ {p} BY <1>3, OneIsAFile DEF Inv2
<1>9. Fresh' BY <1>2 DEF Inv2, HeapOK, Fresh
<1>10. First' BY <1>2, <1>4, <1>8 DEF Inv2, HeapOK, First
<1>11. Owned'
  <2> SUFFICES ASSUME NEW q \in Files \ {1, p} PROVE \E i \in 1..log'.id : Owner(q, i)' /\ Holds(q, i)'
    BY <1>4 DEF Owned
  <2>1. PICK i \in 1..log.id : Owner(q, i) /\ Holds(q, i) BY DEF Inv2, HeapOK, Owned
  <2>2. i \in 1..Logs BY <2>1, OwnerOnce DEF Inv1
  <2>3. i # id BY <2>1, <1>3 DEF Owner, p
  <2>4. made'[i].whole = made[i].whole BY <2>2, <2>3, <1>6
  <2>5. Holds(q, i)' BY <2>1, <2>2, <2>4, <1>2, <1>4, HoldsSame
  <2> QED BY <2>1, <2>5, <1>2, <1>7
<1>12. Kept'
  <2> SUFFICES ASSUME NEW i \in 1..Logs, made'[i].whole > 0
               PROVE  (made[i].place \in Files \ {1} /\ Owner(made[i].place, i))'
    BY DEF Kept
  <2>1. i # id /\ made'[i] = made[i] BY <1>6
  <2>2. PICK q \in Files \ {1} : q = made[i].place /\ Owner(q, i) BY <2>1 DEF Inv2, HeapOK, Kept
  <2>3. q # p BY <1>3, <2>1, <2>2, OwnerOnce DEF Inv1
  <2>4. Owner(q, i)' BY <1>7, <2>2
  <2> QED BY <1>4, <2>1, <2>2, <2>3, <2>4 DEF Owner
<1>13. Making' /\ Logging' /\ Changing' /\ Finding' BY <1>2 DEF Making, Logging, Changing, Finding
<1> QED BY <1>9, <1>10, <1>11, <1>12, <1>13 DEF Inv2, HeapOK

(* The blocks of two files are apart. *)
LEMMA FilesApart ==
    ASSUME CardOK, NEW p \in Files, NEW f \in FileSet, FileClusters(dir[p]) \cap FileClusters(f) = {},
           NEW m \in Nat, m < f.blocks
    PROVE  \A n \in Nat : n < dir[p].blocks => BlockAt(dir[p], n) # BlockAt(f, m) /\ BlockAt(dir[p], n) \in Blocks0
<1> TAKE n \in Nat
<1> HAVE n < dir[p].blocks
<1>1. dir[p] \in FileSet BY EntryKinds DEF Files, CardOK
<1> QED BY <1>1, BlocksApart, BlockPlace

(* An owner stays the owner while no log is made and no place changes. *)
LEMMA OwnerKept ==
    ASSUME StateType, log' = log, \A i \in 1..Logs : made'[i].place = made[i].place
    PROVE  \A q, i : Owner(q, i)' <=> Owner(q, i)
<1>1. \A i \in 1..log.id : i \in 1..Logs BY Constants DEF StateType
<1> QED BY <1>1 DEF Owner

(* What a write that makes a log does to what the blocks hold. *)
LEMMA MakeWriteHeap ==
    ASSUME Inv1, Inv2, plan # <<>>, pc = "make", Apply(plan[1]), log' = log, made' = made, Len(plan) # 1
    PROVE  HeapOK'
<1> DEFINE b == BlockAt(log.file, 0)
<1>1. /\ Files' = Files /\ \A q \in Files : dir'[q] = dir[q]
      /\ \/ heap' = heap
         \/ /\ \A c \in Blocks0 : c # b => heap'[c] = heap[c]
            /\ heap'[b] = [heap[b] EXCEPT !.head = Clear]
  BY MakeWrite
<1>2. log.file \in FileSet /\ \A q \in Files : FileClusters(dir[q]) \cap FileClusters(log.file) = {}
  BY DEF Inv1, MakeOK, MakeReady, StateType
<1>3. b \in Blocks0 /\ 0 < log.file.blocks /\ 0 \in Nat BY <1>2, FirstIsOwn, FileFacts, Constants
<1>4. \A q \in Files, n \in Nat : n < dir[q].blocks => heap'[BlockAt(dir[q], n)] = heap[BlockAt(dir[q], n)]
  <2> TAKE q \in Files, n \in Nat
  <2> HAVE n < dir[q].blocks
  <2>1. BlockAt(dir[q], n) # b /\ BlockAt(dir[q], n) \in Blocks0 BY <1>2, <1>3, FilesApart DEF Inv1
  <2> QED BY <1>1, <2>1
<1> HIDE DEF b
<1>5. Fresh'
  <2>1. heap \in [Blocks0 -> [head : FrameSet, tail : FrameSet]] BY DEF Inv1, CardOK, CardType
  <2>2. Clear.id \in 0..log.id \cup {Logs + 1} BY Magic, Constants DEF Inv1, StateType
  <2> SUFFICES ASSUME NEW c \in Blocks0
               PROVE  {heap'[c].head.id, heap'[c].tail.id} \subseteq 0..log.id \cup {Logs + 1}
    BY DEF Fresh
  <2>3. {heap[c].head.id, heap[c].tail.id} \subseteq 0..log.id \cup {Logs + 1} BY DEF Inv2, HeapOK, Fresh
  <2>4. CASE heap'[c] = heap[c] BY <2>3, <2>4
  <2>5. CASE c = b /\ heap'[b] = [heap[b] EXCEPT !.head = Clear]
    <3>1. heap'[c].head = Clear /\ heap'[c].tail = heap[c].tail BY <2>1, <2>5
    <3> QED BY <2>2, <2>3, <3>1
  <2> QED BY <1>1, <2>4, <2>5
<1>6. First'
  <2>1. 1 \in Files /\ dir[1] = Foreign /\ 0 \in Nat /\ 0 < Foreign.blocks
    BY OneIsAFile, ForeignFacts, Constants DEF Inv2
  <2>2. heap'[BlockAt(Foreign, 0)] = heap[BlockAt(Foreign, 0)] BY <1>4, <2>1
  <2> QED BY <1>1, <2>1, <2>2 DEF Inv2, HeapOK, First
<1>7. Owned'
  <2> SUFFICES ASSUME NEW q \in Files \ {1} PROVE \E i \in 1..log'.id : Owner(q, i)' /\ Holds(q, i)'
    BY <1>1 DEF Owned
  <2>1. PICK i \in 1..log.id : Owner(q, i) /\ Holds(q, i) BY DEF Inv2, HeapOK, Owned
  <2>2. i \in 1..Logs BY <2>1, OwnerOnce DEF Inv1
  <2>3. Holds(q, i)' BY <2>1, <2>2, <1>1, <1>4, HoldsSame
  <2> QED BY <2>1, <2>3, OwnerSame
<1>8. Kept' BY <1>1 DEF Inv2, HeapOK, Kept, Owner
<1> QED BY <1>5, <1>6, <1>7, <1>8 DEF HeapOK

LEMMA MakeEntryHeap ==
    ASSUME Inv1, Inv2, plan # <<>>, pc = "make", Apply(plan[1]), log' = log, made' = made, Len(plan) = 1
    PROVE  HeapOK'
<1>1. /\ heap' = heap /\ log.place \notin Files /\ Files' = Files \cup {log.place} /\ dir'[log.place] = log.file
      /\ \A q \in Files : dir'[q] = dir[q]
  BY MakeEntry
<1>2. 1 \in Files BY OneIsAFile DEF Inv2
<1>3. Fresh' /\ First' BY <1>1, <1>2 DEF Inv2, HeapOK, Fresh, First
<1>4. Kept' BY <1>1 DEF Inv2, HeapOK, Kept, Owner
<1>5. Owner(log.place, log.id) /\ made[log.id].whole = 0 BY DEF Inv2, Making
<1>6. plan[1] = Entry(log.place, log.file) /\ IsCandidate(log.file) BY DEF Inv1, MakeOK, MakeReady
<1>7. heap[BlockAt(log.file, 0)].head = Clear
  <2>1. \A i \in 1..Len(plan) : plan[i].do # "frame" BY <1>6 DEF Entry
  <2> QED BY <2>1 DEF Inv2, Making
<1>8. Holds(log.place, log.id)'
  <2>1. \A n \in Nat : n < log.file.blocks => BlockAt(log.file, n) \in Blocks0
    BY BlockPlace DEF Inv1, StateType
  <2>2. \A n \in 0..log.file.blocks - 1 : heap[BlockAt(log.file, n)].tail # Frame(log.id, n)
    <3> TAKE n \in 0..log.file.blocks - 1
    <3>1. log.file.blocks \in Nat BY <1>6, Constants DEF IsCandidate
    <3>2. BlockAt(log.file, n) \in Blocks0 BY <2>1, <3>1
    <3>3. heap[BlockAt(log.file, n)].tail.id # log.id BY <3>2 DEF Inv2, Making
    <3> QED BY <3>3, Magic
  <2>3. PICK f : f = log.file OBVIOUS
  <2>4. PICK p : p = log.place OBVIOUS
  <2>5. dir'[p] = f /\ made'[log'.id].whole = 0 BY <1>1, <1>5, <2>3, <2>4
  <2>6. \A n \in 0..made'[log'.id].whole - 1 : WholeAt(f, n, log.id)' BY <2>5
  <2>7. \A n \in 0..f.blocks - 1 : heap'[BlockAt(f, n)].tail # Frame(log.id, n) BY <2>2, <2>3, <1>1
  <2>8. heap'[BlockAt(f, 0)].head = Clear /\ IsCandidate(f) BY <1>1, <1>6, <1>7, <2>3
  <2>9. Holds(p, log.id)'
    BY <2>5, <2>6, <2>7, <2>8 DEF Holds, IsCandidate, BlockAt, Frame, Clear
  <2> QED BY <2>4, <2>9 DEF Holds, WholeAt, IsCandidate, BlockAt, Frame
<1>9. Owned'
  <2> SUFFICES ASSUME NEW q \in Files' \ {1} PROVE \E i \in 1..log'.id : Owner(q, i)' /\ Holds(q, i)'
    BY DEF Owned
  <2>1. CASE q \in Files
    <3>1. PICK i \in 1..log.id : Owner(q, i) /\ Holds(q, i) BY <2>1 DEF Inv2, HeapOK, Owned
    <3>2. i \in 1..Logs BY <3>1, OwnerOnce DEF Inv1
    <3>3. Holds(q, i)' BY <2>1, <3>1, <3>2, <1>1, HoldsSame
    <3> QED BY <3>1, <3>3, OwnerSame
  <2>2. CASE q = log.place
    <3>1. log.id \in 1..log'.id BY <1>5 DEF Owner
    <3>2. Owner(log.place, log.id)' /\ Holds(log.place, log.id)' BY <1>5, <1>8 DEF Owner
    <3>3. PICK i \in 1..log'.id : i = log.id BY <3>1
    <3>4. Owner(q, i)' BY <1>5, <2>2, <3>3 DEF Owner
    <3>5. Holds(q, i)' BY <3>2, <2>2, <3>3 DEF Holds, WholeAt, IsCandidate, BlockAt, Frame
    <3> QED BY <3>4, <3>5
  <2> QED BY <1>1, <2>1, <2>2
<1> QED BY <1>3, <1>4, <1>9 DEF HeapOK

LEMMA HoldsNow ==
    ASSUME NEW p, NEW id, NEW f, NEW w, dir'[p] = f, made'[id].whole = w,
           IsCandidate(f) \/ (w > 0 /\ f.blocks = w /\ f.valid = w),
           \A n \in 0..w - 1 : heap'[BlockAt(f, n)] = [head |-> Frame(id, n), tail |-> Frame(id, n)],
           \A n \in w..f.blocks - 1 : heap'[BlockAt(f, n)].tail # Frame(id, n),
           w = 0 => heap'[BlockAt(f, 0)].head \in {Clear, Frame(id, 0)}
    PROVE  Holds(p, id)'
BY DEF Holds, WholeAt, IsCandidate

(* A frame of the block that is written to the open log. *)
LEMMA LogWriteHeap ==
    ASSUME Inv1, Inv2, plan # <<>>, pc = "log", Apply(plan[1]), log' = log,
           made' = IF Len(plan) = 1 THEN [made EXCEPT ![log.id].whole = @ + 1] ELSE made
    PROVE  HeapOK'
<1> DEFINE f == log.file
           w == Whole
           b == BlockAt(log.file, Whole)
           k == log.id
<1>1. LogReady /\ w < Blocks BY DEF Inv1, LogOK, LogReady
<1>2. /\ dir' = dir /\ Files' = Files
      /\ \A c \in Blocks0 : c # b => heap'[c] = heap[c]
      /\ \/ /\ Len(plan) = 2 /\ heap'[b] = [heap[b] EXCEPT !.head = Frame(k, w)]
         \/ /\ Len(plan) = 1 /\ plan = <<TailOf(f, k, w)>> /\ heap'[b] = [heap[b] EXCEPT !.tail = Frame(k, w)]
  BY LogWrite
<1>3. /\ w \in Nat /\ f \in FileSet /\ w < f.blocks /\ b \in Blocks0 BY <1>1, LogWrites
<1>4. /\ k > 0 /\ log.place \in Files /\ dir[log.place] = f /\ IsCandidate(f) /\ f.blocks = Blocks
  BY <1>1 DEF LogReady, IsCandidate
<1>5. Owner(log.place, k) /\ log.place # 1 BY DEF Inv2, Logging
<1>6. k \in 1..Logs /\ k \in Nat /\ made[k].whole = w /\ k \in 1..log.id
  BY <1>5, OwnerOnce DEF Inv1, Whole, Owner
<1>7. heap \in [Blocks0 -> [head : FrameSet, tail : FrameSet]] BY DEF Inv1, CardOK, CardType
<1>8. /\ \A i \in 1..Logs : made'[i].place = made[i].place /\ (i # k => made'[i] = made[i])
      /\ made'[k].whole = IF Len(plan) = 1 THEN w + 1 ELSE w
  <2>1. made \in [1..Logs -> [place : Places, whole : 0..Blocks]] BY DEF Inv1, StateType
  <2>2. CASE Len(plan) = 1
    <3>1. made' = [made EXCEPT ![k].whole = @ + 1] BY <2>2
    <3> HIDE DEF k
    <3>2. \A i \in 1..Logs : made'[i].place = made[i].place /\ (i # k => made'[i] = made[i]) BY <2>1, <3>1, <1>6
    <3>3. made'[k].whole = made[k].whole + 1 BY <2>1, <3>1, <1>6
    <3> QED BY <2>2, <3>2, <3>3, <1>6
  <2>3. CASE Len(plan) # 1 BY <2>3, <1>6
  <2> QED BY <2>2, <2>3
<1>9. \A q, i : Owner(q, i)' <=> Owner(q, i) BY <1>8, OwnerKept DEF Inv1
<1>10. \A q \in Files, n \in Nat : q # log.place /\ n < dir[q].blocks => heap'[BlockAt(dir[q], n)] = heap[BlockAt(dir[q], n)]
  <2> TAKE q \in Files, n \in Nat
  <2> HAVE q # log.place /\ n < dir[q].blocks
  <2>1. FileClusters(dir[q]) \cap FileClusters(f) = {} BY <1>4 DEF Inv1, CardOK, Apart
  <2>2. BlockAt(dir[q], n) # b /\ BlockAt(dir[q], n) \in Blocks0 BY <1>3, <2>1, FilesApart DEF Inv1
  <2> QED BY <1>2, <2>2
<1>11. \A n \in Nat : n < f.blocks /\ n # w => heap'[BlockAt(f, n)] = heap[BlockAt(f, n)]
  <2> TAKE n \in Nat
  <2> HAVE n < f.blocks /\ n # w
  <2>1. BlockAt(f, n) # b BY <1>3, BlocksDiffer
  <2>2. BlockAt(f, n) \in Blocks0 BY <1>3, BlockPlace
  <2> QED BY <1>2, <2>1, <2>2
<1>12. heap[b] \in [head : FrameSet, tail : FrameSet] BY <1>3, <1>7
<1> HIDE DEF f, w, b, k
<1>13. \/ Len(plan) = 2 /\ heap'[b].head = Frame(k, w) /\ heap'[b].tail = heap[b].tail
       \/ Len(plan) = 1 /\ heap'[b].tail = Frame(k, w) /\ heap'[b].head = heap[b].head /\ plan = <<TailOf(f, k, w)>>
  BY <1>2, <1>12
<1>14. Fresh'
  <2> SUFFICES ASSUME NEW c \in Blocks0
               PROVE  {heap'[c].head.id, heap'[c].tail.id} \subseteq 0..log.id \cup {Logs + 1}
    BY DEF Fresh
  <2>1. {heap[c].head.id, heap[c].tail.id} \subseteq 0..log.id \cup {Logs + 1} BY DEF Inv2, HeapOK, Fresh
  <2>2. Frame(k, w).id \in 0..log.id \cup {Logs + 1} BY Magic, <1>6 DEF k
  <2>3. CASE c # b BY <2>1, <2>3, <1>2
  <2>4. CASE c = b BY <2>1, <2>2, <2>4, <1>13
  <2> QED BY <2>3, <2>4
<1>15. First'
  <2>1. 1 \in Files /\ dir[1] = Foreign /\ 0 \in Nat /\ 0 < Foreign.blocks
    BY OneIsAFile, ForeignFacts, Constants DEF Inv2
  <2>2. heap'[BlockAt(Foreign, 0)] = heap[BlockAt(Foreign, 0)] BY <1>5, <1>10, <2>1
  <2> QED BY <1>2, <2>2 DEF Inv2, HeapOK, First
<1>16. \A q, i : q = log.place /\ i = k => Holds(q, i)'
  <2> SUFFICES ASSUME NEW q, NEW i, q = log.place, i = k, NEW g, g = f, NEW v, v = w PROVE Holds(q, i)'
    OBVIOUS
  <2>1. Holds(log.place, k) BY <1>4, <1>5, OwnedBy DEF Inv2, k
  <2>2. /\ \A n \in 0..w - 1 : WholeAt(f, n, k)
        /\ \A n \in w..f.blocks - 1 : heap[BlockAt(f, n)].tail # Frame(k, n)
    BY <2>1, <1>4, <1>6 DEF Holds
  <2>3. \A n \in 0..w - 1 : heap'[BlockAt(f, n)] = [head |-> Frame(k, n), tail |-> Frame(k, n)]
    <3> TAKE n \in 0..w - 1
    <3>1. n \in Nat /\ n < f.blocks /\ n # w BY <1>3, <1>4, Constants
    <3> QED BY <1>11, <2>2, <3>1 DEF WholeAt
  <2>4. \A n \in w + 1..f.blocks - 1 : heap'[BlockAt(f, n)].tail # Frame(k, n)
    <3> TAKE n \in w + 1..f.blocks - 1
    <3>1. n \in Nat /\ n < f.blocks /\ n # w /\ n \in w..f.blocks - 1 BY <1>3, <1>4, Constants
    <3> QED BY <1>11, <2>2, <3>1
  <2>5. BlockAt(f, w) = b BY DEF b, f, w
  <2>6. dir'[log.place] = f /\ IsCandidate(f) BY <1>2, <1>4
  <2>7. CASE Len(plan) = 2
    <3>1. made'[k].whole = w BY <1>8, <2>7
    <3>2. heap'[b].head = Frame(k, w) /\ heap'[b].tail = heap[b].tail BY <1>13, <2>7
    <3>3. \A n \in w..f.blocks - 1 : heap'[BlockAt(f, n)].tail # Frame(k, n)
      <4> TAKE n \in w..f.blocks - 1
      <4>1. CASE n = w BY <4>1, <2>2, <2>5, <3>2
      <4>2. CASE n # w
        <5>1. n \in w + 1..f.blocks - 1 BY <4>2, <1>3, <1>4, Constants
        <5> QED BY <5>1, <2>4
      <4> QED BY <4>1, <4>2
    <3>4. w = 0 => heap'[BlockAt(f, 0)].head = Frame(k, 0) BY <2>5, <3>2
    <3> QED BY <2>3, <2>6, <3>1, <3>3, <3>4, HoldsNow
  <2>8. CASE Len(plan) = 1
    <3>1. made'[k].whole = w + 1 BY <1>8, <2>8
    <3>2. heap'[b].tail = Frame(k, w) /\ heap'[b].head = heap[b].head /\ plan = <<TailOf(f, k, w)>> BY <1>13, <2>8
    <3>3. heap[b].head = Frame(k, w) BY <3>2 DEF Inv2, Logging, b, f, k, w
    <3>4. heap'[b] = [head |-> Frame(k, w), tail |-> Frame(k, w)]
      <4>1. heap' \in [Blocks0 -> [head : FrameSet, tail : FrameSet]] BY PlanWrite DEF CardOK, CardType
      <4>2. heap'[b] \in [head : FrameSet, tail : FrameSet] BY <4>1, <1>3 DEF b
      <4> QED BY <4>2, <3>2, <3>3
    <3>5. \A n \in 0..w + 1 - 1 : heap'[BlockAt(f, n)] = [head |-> Frame(k, n), tail |-> Frame(k, n)]
      <4> TAKE n \in 0..w + 1 - 1
      <4>1. n = w \/ n \in 0..w - 1 BY <1>3
      <4> QED BY <4>1, <2>3, <2>5, <3>4
    <3>6. w + 1 # 0 BY <1>3
    <3>7. PICK u : u = v + 1 OBVIOUS
    <3>8. \A n \in 0..u - 1 : heap'[BlockAt(g, n)] = [head |-> Frame(i, n), tail |-> Frame(i, n)]
      <4>1. g = f /\ i = k /\ u - 1 = w BY <1>3, <3>7
      <4>2. 0..w + 1 - 1 = 0..w BY <1>3
      <4>3. \A n \in 0..w : heap'[BlockAt(f, n)] = [head |-> Frame(k, n), tail |-> Frame(k, n)]
        BY <3>5, <4>2
      <4> QED BY <4>1, <4>3
    <3>9. \A n \in u..g.blocks - 1 : heap'[BlockAt(g, n)].tail # Frame(i, n) BY <2>4, <3>7
    <3>10. dir'[q] = g /\ made'[i].whole = u /\ IsCandidate(g) /\ u # 0 BY <2>6, <3>1, <3>6, <3>7
    <3> QED BY <3>8, <3>9, <3>10, HoldsNow
  <2> QED BY <1>13, <2>7, <2>8
<1>17. Owned'
  <2> SUFFICES ASSUME NEW q \in Files \ {1} PROVE \E i \in 1..log'.id : Owner(q, i)' /\ Holds(q, i)'
    BY <1>2 DEF Owned
  <2>1. PICK i \in 1..log.id : Owner(q, i) /\ Holds(q, i) BY DEF Inv2, HeapOK, Owned
  <2>2. i \in 1..Logs BY <2>1, OwnerOnce DEF Inv1
  <2>3. CASE q = log.place
    <3>1. i = k BY <2>1, <2>3, <1>5, OwnerOnce DEF Inv1, k
    <3>2. Holds(q, i)' BY <1>16, <2>3, <3>1
    <3> QED BY <2>1, <3>2, <1>9
  <2>4. CASE q # log.place
    <3>1. i # k BY <2>1, <2>4, <1>5 DEF Owner, k
    <3>2. made'[i].whole = made[i].whole BY <1>8, <2>2, <3>1
    <3>3. Holds(q, i)' BY <2>1, <2>2, <2>4, <3>2, <1>2, <1>10, HoldsSame
    <3> QED BY <2>1, <3>3, <1>9
  <2> QED BY <2>3, <2>4
<1>18. Kept'
  <2> SUFFICES ASSUME NEW i \in 1..Logs, made'[i].whole > 0
               PROVE  (made[i].place \in Files \ {1} /\ Owner(made[i].place, i))'
    BY DEF Kept
  <2>1. PICK q \in Files \ {1} : q = made[i].place /\ Owner(q, i)
    <3>1. CASE i = k BY <3>1, <1>4, <1>5 DEF Owner, k
    <3>2. CASE i # k
      <4>1. made[i].whole > 0 BY <1>8, <3>2
      <4> QED BY <4>1 DEF Inv2, HeapOK, Kept
    <3> QED BY <3>1, <3>2
  <2>2. made'[i].place = q BY <1>8, <2>1
  <2>3. Owner(q, i)' BY <1>9, <2>1
  <2> QED BY <1>2, <2>1, <2>2, <2>3 DEF Owner
<1> QED BY <1>14, <1>15, <1>17, <1>18 DEF HeapOK

(* A file's entry shortened or removed, or clusters given back. *)
LEMMA ChangeWriteHeap ==
    ASSUME Inv1, Inv2, plan # <<>>, pc \in {"close", "recover"}, Apply(plan[1]), log' = log, made' = made
    PROVE  HeapOK'
<1> DEFINE p == Changed
<1>1. ChangeReady BY DEF Inv1, ChangeOK
<1>2. /\ heap' = heap /\ Files' \subseteq Files
      /\ \A q \in Files : q # p => q \in Files' /\ dir'[q] = dir[q]
      /\ \/ Shortens /\ plan[1].do = "entry" /\ Files' = Files /\ dir'[p] = plan[1].file
         \/ Deletes /\ plan[1].do = "unlink" /\ Files' = Files \ {p}
         \/ Frees /\ plan[1].do = "mark" /\ dir' = dir /\ Files' = Files
  BY <1>1, ChangeWrite
<1>3. p # 1 BY DEF Inv2, Changing
<1>4. 1 \in Files BY OneIsAFile DEF Inv2
<1>5. \A q \in Files \ {1, p} : \E i \in 1..log'.id : Owner(q, i)' /\ Holds(q, i)'
  <2> TAKE q \in Files \ {1, p}
  <2>1. PICK i \in 1..log.id : Owner(q, i) /\ Holds(q, i) BY DEF Inv2, HeapOK, Owned
  <2>2. i \in 1..Logs BY <2>1, OwnerOnce DEF Inv1
  <2>3. Holds(q, i)' BY <1>2, <2>1, <2>2, HoldsSame
  <2> QED BY <2>1, <2>3, OwnerSame
<1> HIDE DEF p
<1>6. Fresh' /\ First' BY <1>2, <1>3, <1>4 DEF Inv2, HeapOK, Fresh, First
<1>7. CASE Frees /\ plan[1].do = "mark" /\ dir' = dir /\ Files' = Files BY <1>2, <1>7, HeapSame DEF Inv2
<1>8. CASE Shortens /\ plan[1].do = "entry" /\ Files' = Files /\ dir'[p] = plan[1].file
  <2>1. p \in Files /\ p \in Places /\ IsCandidate(dir[p]) BY <1>8 DEF Shortens, p, Files
  <2>2. PICK n \in 1..Blocks : plan[1] = Entry(p, File(dir[p].first, n, n)) BY <1>8 DEF Shortens, p
  <2>3. PICK i \in 1..log.id : Owner(p, i) /\ plan[1].file.blocks = made[i].whole
    BY <1>8 DEF Inv2, Changing, p
  <2>4. Holds(p, i) /\ i \in 1..Logs BY <1>3, <2>1, <2>3, OwnedBy, OwnerOnce DEF Inv1, Inv2
  <2> DEFINE g == File(dir[p].first, n, n)
  <2>5. g.first = dir[p].first /\ g.blocks = n /\ g.valid = n BY FileFields
  <2> HIDE DEF g
  <2>6. dir'[p] = g /\ made[i].whole = n /\ n > 0 /\ n \in Nat
    <3>1. plan[1].file = g BY <2>2 DEF Entry, g
    <3> QED BY <3>1, <1>8, <2>3, <2>5, Constants
  <2>7. \A q : q = p => Holds(q, i)'
    <3> SUFFICES ASSUME NEW q, q = p, NEW h, h = g PROVE Holds(q, i)'
      OBVIOUS
    <3>1. PICK f : f = dir[p] OBVIOUS
    <3>2. \A m \in 0..n - 1 : WholeAt(f, m, i) BY <2>4, <2>6, <3>1 DEF Holds
    <3>3. g.first = f.first BY <2>5, <3>1
    <3>4. \A m : BlockAt(g, m) = BlockAt(f, m) BY <3>3 DEF BlockAt
    <3>5. \A m \in 0..n - 1 : heap'[BlockAt(g, m)] = [head |-> Frame(i, m), tail |-> Frame(i, m)]
      BY <1>2, <3>2, <3>4 DEF WholeAt
    <3>6. \A m \in n..g.blocks - 1 : FALSE BY <2>5, <2>6
    <3>7. made'[i].whole = n /\ n # 0 BY <2>6
    <3>8. \A m \in 0..n - 1 : heap'[BlockAt(h, m)] = [head |-> Frame(i, m), tail |-> Frame(i, m)] BY <3>5
    <3>9. dir'[q] = h /\ n > 0 /\ h.blocks = n /\ h.valid = n BY <2>5, <2>6
    <3> QED BY <3>6, <3>7, <3>8, <3>9, HoldsNow
  <2>9. Owned'
    <3> SUFFICES ASSUME NEW q \in Files \ {1} PROVE \E j \in 1..log'.id : Owner(q, j)' /\ Holds(q, j)'
      BY <1>8 DEF Owned
    <3>1. CASE q # p BY <1>5, <3>1
    <3>2. CASE q = p
      <4>1. Owner(q, i)' BY <2>3, <3>2, OwnerSame
      <4>2. Holds(q, i)' BY <2>7, <3>2
      <4> QED BY <4>1, <4>2, <2>3
    <3> QED BY <3>1, <3>2
  <2>10. Kept' BY <1>8 DEF Inv2, HeapOK, Kept, Owner
  <2> QED BY <1>6, <2>9, <2>10 DEF HeapOK
<1>9. CASE Deletes /\ plan[1].do = "unlink" /\ Files' = Files \ {p}
  <2>1. PICK i \in 1..log.id : Owner(p, i) /\ made[i].whole = 0 BY <1>9 DEF Inv2, Changing, p
  <2>2. Owned' BY <1>5, <1>9 DEF Owned
  <2>3. Kept'
    <3> SUFFICES ASSUME NEW j \in 1..Logs, made[j].whole > 0
                 PROVE  (made[j].place \in Files \ {1} /\ Owner(made[j].place, j))'
      BY DEF Kept
    <3>1. PICK q \in Files \ {1} : q = made[j].place /\ Owner(q, j) BY DEF Inv2, HeapOK, Kept
    <3>2. q # p
      <4>1. SUFFICES ASSUME q = p PROVE FALSE OBVIOUS
      <4>2. j = i BY <2>1, <3>1, <4>1, OwnerOnce DEF Inv1
      <4> QED BY <2>1, <4>2
    <3>3. Owner(q, j)' BY <3>1, OwnerSame
    <3> QED BY <1>9, <3>1, <3>2, <3>3 DEF Owner
  <2> QED BY <1>6, <2>2, <2>3 DEF HeapOK
<1> QED BY <1>2, <1>7, <1>8, <1>9 DEF p

LEMMA WriteHeap ==
    ASSUME Inv1, Inv2, plan # <<>>, Apply(plan[1]), log' = log,
           made' = IF pc = "log" /\ Len(plan) = 1 THEN [made EXCEPT ![log.id].whole = @ + 1] ELSE made
    PROVE  HeapOK'
<1>1. pc \in {"make", "log", "close", "recover"} BY DEF Inv1, StateType, IdleOK
<1>2. CASE pc = "make" BY <1>2, MakeWriteHeap, MakeEntryHeap
<1>3. CASE pc = "log" BY <1>3, LogWriteHeap
<1>4. CASE pc \in {"close", "recover"} BY <1>4, ChangeWriteHeap
<1> QED BY <1>1, <1>2, <1>3, <1>4

LEMMA WriteFailsHeap == ASSUME Inv1, Inv2, WriteFails PROVE Inv2'
<1>1. /\ plan # <<>> /\ log' = log /\ plan' = <<>> /\ pc' \in {"idle", "recover"}
      /\ \/ UNCHANGED <<card, made>>
         \/ /\ Apply(Head(plan))
            /\ made' = IF pc = "log" /\ Len(plan) = 1 THEN [made EXCEPT ![log.id].whole = @ + 1] ELSE made
  BY DEF WriteFails
<1>2. Head(plan) = plan[1]
  <2>1. plan \in Seq(WriteSet) BY DEF Inv1, StateType
  <2> QED BY <1>1, <2>1, TailFacts
<1>3. HeapOK'
  <2>1. CASE UNCHANGED <<card, made>> BY <1>1, <2>1, HeapSame DEF Inv2, card
  <2>2. CASE /\ Apply(Head(plan))
             /\ made' = IF pc = "log" /\ Len(plan) = 1 THEN [made EXCEPT ![log.id].whole = @ + 1] ELSE made
    BY <1>1, <1>2, <2>2, WriteHeap
  <2> QED BY <1>1, <2>1, <2>2
<1>4. Making' /\ Logging' /\ Changing' /\ Finding' BY <1>1 DEF Making, Logging, Changing, Finding
<1> QED BY <1>3, <1>4 DEF Inv2

LEMMA CardWritesHeap == ASSUME Inv1, Inv2, CardWrites PROVE Inv2'
<1>1. /\ plan # <<>> /\ Apply(Head(plan)) /\ plan' = Tail(plan) /\ log' = log
      /\ plan' # <<>> => pc' = pc /\ todo' = todo /\ made' = made
      /\ plan' = <<>> =>
            /\ pc' = CASE pc \in {"make", "log"} -> "log" [] pc = "close" -> "idle" [] OTHER -> pc
            /\ made' = IF pc = "log" THEN [made EXCEPT ![log.id].whole = @ + 1] ELSE made
  BY DEF CardWrites
<1>2. plan \in Seq(WriteSet) BY DEF Inv1, StateType
<1>3. /\ Head(plan) = plan[1] /\ Len(plan) \in Nat /\ Len(plan) > 0 /\ Len(Tail(plan)) = Len(plan) - 1
      /\ \A i \in 1..Len(plan) - 1 : Tail(plan)[i] = plan[i + 1]
      /\ (Tail(plan) = <<>> <=> Len(plan) = 1)
  BY <1>1, <1>2, TailFacts
<1>4. Apply(plan[1]) BY <1>1, <1>3
<1>5. made' = IF pc = "log" /\ Len(plan) = 1 THEN [made EXCEPT ![log.id].whole = @ + 1] ELSE made
  BY <1>1, <1>3
<1>6. HeapOK' BY <1>1, <1>4, <1>5, WriteHeap
<1>7. pc \in {"make", "log", "close", "recover"} BY <1>1 DEF Inv1, StateType, IdleOK
<1>8. Making'
  <2> SUFFICES ASSUME pc' = "make"
               PROVE  /\ Owner(log.place, log.id)' /\ made'[log'.id].whole = 0
                      /\ \A b \in Blocks0 : heap'[b].head.id # log'.id /\ heap'[b].tail.id # log'.id
                      /\ (\A i \in 1..Len(plan') : plan'[i].do # "frame") => heap'[BlockAt(log'.file, 0)].head = Clear
    BY DEF Making, BlockAt, Clear, Frame
  <2>1. pc = "make" /\ made' = made /\ Len(plan) # 1 BY <1>1, <1>3, <1>7
  <2>2. Owner(log.place, log.id) /\ made[log.id].whole = 0 /\ log.id > 0
    BY <2>1 DEF Inv1, Inv2, MakeOK, MakeReady, Making
  <2>3. Owner(log.place, log.id)' BY <1>1, <2>1, <2>2 DEF Owner
  <2> DEFINE a == BlockAt(log.file, 0)
  <2>4. \/ plan[1].do # "frame" /\ heap' = heap
        \/ /\ plan[1].do = "frame"
           /\ \A c \in Blocks0 : c # a => heap'[c] = heap[c]
           /\ heap'[a] = [heap[a] EXCEPT !.head = Clear]
    BY <1>4, <2>1, MakeWrite
  <2>5. a \in Blocks0 BY FirstIsOwn DEF Inv1, StateType
  <2>6. heap \in [Blocks0 -> [head : FrameSet, tail : FrameSet]] BY DEF Inv1, CardOK, CardType
  <2> HIDE DEF a
  <2>7. plan[1].do = "frame" => heap'[a].head = Clear /\ heap'[a].tail = heap[a].tail BY <2>4, <2>5, <2>6
  <2>8. \A b \in Blocks0 : heap[b].head.id # log.id /\ heap[b].tail.id # log.id BY <2>1 DEF Inv2, Making
  <2>9. Clear.id # log.id BY <2>2, Magic
  <2>10. \A b \in Blocks0 : heap'[b].head.id # log.id /\ heap'[b].tail.id # log.id
    <3> TAKE b \in Blocks0
    <3>1. CASE b = a BY <3>1, <2>4, <2>7, <2>8, <2>9
    <3>2. CASE b # a BY <3>2, <2>4, <2>8
    <3> QED BY <3>1, <3>2
  <2>11. (\A i \in 1..Len(plan') : plan'[i].do # "frame") => heap'[a].head = Clear
    <3> HAVE \A i \in 1..Len(plan') : plan'[i].do # "frame"
    <3>1. CASE plan[1].do = "frame" BY <3>1, <2>7
    <3>2. CASE plan[1].do # "frame"
      <4>1. \A i \in 1..Len(plan) : plan[i].do # "frame"
        <5> TAKE i \in 1..Len(plan)
        <5>1. CASE i = 1 BY <5>1, <3>2
        <5>2. CASE i # 1
          <6>1. i - 1 \in 1..Len(plan) - 1 /\ (i - 1) + 1 = i BY <5>2, <1>3
          <6>2. Tail(plan)[i - 1] = plan[i] BY <6>1, <1>3
          <6>3. i - 1 \in 1..Len(plan') BY <6>1, <1>1, <1>3
          <6> QED BY <6>2, <6>3, <1>1
        <5> QED BY <5>1, <5>2
      <4>2. heap[a].head = Clear BY <2>1, <4>1 DEF Inv2, Making, a
      <4> QED BY <2>4, <3>2, <4>2
    <3> QED BY <3>1, <3>2
  <2> QED BY <1>1, <2>1, <2>2, <2>3, <2>10, <2>11 DEF a
<1>9. Logging'
  <2>1. ASSUME pc' \in {"log", "close"} PROVE Owner(log.place, log.id)' /\ log'.place # 1
    <3>1. pc \in {"make", "log", "close"} BY <1>1, <1>7, <2>1
    <3>2. Owner(log.place, log.id) BY <3>1 DEF Inv2, Making, Logging
    <3>3. log.place # 1
      <4>1. CASE pc = "make"
        <5>1. pc' # "make" /\ Len(plan) = 1 BY <1>1, <1>3, <2>1, <4>1
        <5>2. log.place \notin Files BY <1>4, <4>1, <5>1, MakeEntry
        <5> QED BY <5>2, OneIsAFile DEF Inv2
      <4>2. CASE pc # "make" BY <3>1, <4>2 DEF Inv2, Logging
      <4> QED BY <4>1, <4>2
    <3>4. \A i \in 1..Logs : made'[i].place = made[i].place
      <4>1. made \in [1..Logs -> [place : Places, whole : 0..Blocks]] BY DEF Inv1, StateType
      <4> QED BY <4>1, <1>5
    <3>5. \A q, i : Owner(q, i)' <=> Owner(q, i) BY <1>1, <3>4, OwnerKept DEF Inv1
    <3>6. PICK q, i : q = log.place /\ i = log.id OBVIOUS
    <3>7. Owner(q, i)' BY <3>2, <3>5, <3>6
    <3>8. Owner(log.place, log.id)' BY <1>1, <3>6, <3>7 DEF Owner
    <3> QED BY <1>1, <3>3, <3>8
  <2>2. ASSUME pc' = "log", plan' = <<TailOf(log'.file, log'.id, Whole')>>
        PROVE  heap'[BlockAt(log'.file, Whole')].head = Frame(log'.id, Whole')
    <3>1. plan' # <<>> BY <2>2
    <3>2. pc = "log" /\ made' = made /\ Len(plan) # 1 BY <1>1, <1>3, <2>2, <3>1
    <3>3. Whole' = Whole BY <1>1, <3>2 DEF Whole
    <3>4. heap'[BlockAt(log.file, Whole)] = [heap[BlockAt(log.file, Whole)] EXCEPT !.head = Frame(log.id, Whole)]
      BY <1>1, <1>4, <3>2, LogWrite
    <3>5. heap[BlockAt(log.file, Whole)] \in [head : FrameSet, tail : FrameSet]
      <4>1. LogReady /\ Whole < Blocks BY <1>1, <3>2 DEF Inv1, LogOK, LogReady
      <4>2. BlockAt(log.file, Whole) \in Blocks0 BY <4>1, LogWrites
      <4> QED BY <4>2 DEF Inv1, CardOK, CardType
    <3>6. heap'[BlockAt(log.file, Whole)].head = Frame(log.id, Whole) BY <3>4, <3>5
    <3> QED BY <1>1, <3>3, <3>6
  <2> QED BY <2>1, <2>2 DEF Logging, TailOf, BlockAt, Frame
<1>10. Changing'
  <2> SUFFICES ASSUME pc' \in {"close", "recover"}, plan' # <<>>
               PROVE  Changed' # 1 /\ plan'[1].do \notin {"entry", "unlink"}
    BY DEF Changing
  <2>1. pc \in {"close", "recover"} /\ Changed' = Changed BY <1>1 DEF Changed, At
  <2>2. Changed # 1 /\ ChangeReady BY <1>1, <2>1 DEF Inv1, Inv2, Changing, ChangeOK
  <2>3. plan'[1] = plan[2] /\ 2 \in 2..Len(plan) BY <1>1, <1>3
  <2>4. plan[2].do = "mark" BY <2>2, <2>3 DEF ChangeReady
  <2> QED BY <2>1, <2>2, <2>3, <2>4
<1>11. Finding' BY <1>1, <1>7 DEF Finding
<1> QED BY <1>6, <1>8, <1>9, <1>10, <1>11 DEF Inv2

LEMMA Inv2Next == ASSUME Inv1, Inv2, [Next]_vars PROVE Inv2'
<1>1. CASE Program
  BY <1>1, WriteBlockHeap, CloseHeap, QuietKeeps, ReadHeaderHeap, ProbeHeap, FoundHeap, CardWritesHeap DEF Program
<1>2. CASE Make \/ StartRecover BY <1>2, MakeHeap, QuietKeeps
<1>3. CASE GatherFails \/ ReadFails \/ WriteFails \/ Cut \/ HostDeletes
  BY <1>3, QuietKeeps, WriteFailsHeap, HostDeletesHeap
<1>4. CASE UNCHANGED vars
  <2>1. /\ dir' = dir /\ heap' = heap /\ pc' = pc /\ plan' = plan /\ log' = log /\ made' = made
        /\ todo' = todo /\ lo' = lo /\ hi' = hi
    BY <1>4 DEF vars, card, recovery
  <2>2. HeapOK' BY <2>1, HeapSame DEF Inv2
  <2>3. Whole' = Whole /\ Changed' = Changed /\ At' = At /\ Header' = Header
    BY <2>1 DEF Whole, Changed, At, Header, BlockAt
  <2>4. \A q, i : Owner(q, i)' <=> Owner(q, i) BY <2>1, OwnerSame
  <2>5. Making' BY <2>1, <2>4 DEF Inv2, Making, Owner, BlockAt, Clear, Frame
  <2>6. Logging' BY <2>1, <2>3, <2>4 DEF Inv2, Logging, Owner, TailOf, BlockAt, Frame
  <2>7. Changing' BY <2>1, <2>3, <2>4 DEF Inv2, Changing, Owner
  <2>8. Finding' BY <2>1, <2>3, <2>4 DEF Inv2, Finding, Owner, Frame
  <2> QED BY <2>2, <2>5, <2>6, <2>7, <2>8 DEF Inv2
<1> QED BY <1>1, <1>2, <1>3, <1>4 DEF Next

LEMMA HeapInv == Spec => []Inv2
<1>1. Inv1 /\ Inv2 /\ [Next]_vars => Inv2' BY Inv2Next
<1> QED BY Inv2Init, CardLogInv, <1>1, PTL DEF Spec

-----------------------------------------------------------------------------
(* The rounds of log_recover: which files a round gathers. *)
LEMMA CandidateFiles ==
    ASSUME CardOK
    PROVE  /\ Listed = Files /\ Candidates = {p \in Files : IsCandidate(dir[p])}
           /\ Candidates \in SUBSET Nat /\ IsFiniteSet(Candidates)
<1>1. Listed \subseteq Files BY DEF Listed, Files
<1>2. Files \subseteq Listed
  <2> SUFFICES ASSUME NEW p \in Files PROVE p \in Listed OBVIOUS
  <2>1. p \in Places /\ p \in Nat /\ dir[p] # End BY PlaceFacts, EntryKinds, Kinds DEF Files, CardOK
  <2>2. \A q \in 1..p : dir[q] # End
    <3> TAKE q \in 1..p
    <3>1. q \in Places /\ q \in Nat BY <2>1, Constants DEF Places
    <3>2. CASE q = p BY <3>2, <2>1
    <3>3. CASE q < p BY <3>1, <3>3, <2>1 DEF CardOK, EndsLast
    <3> QED BY <2>1, <3>1, <3>2, <3>3
  <2> QED BY <2>1, <2>2 DEF Listed, Files
<1>3. Places \subseteq Nat /\ IsFiniteSet(Places)
  <2>1. 1 \in Int /\ DirSectors * Slots \in Int BY Constants
  <2> QED BY <2>1, PlaceFacts, FS_Interval DEF Places
<1>4. Candidates \in SUBSET Places BY DEF Candidates, Listed
<1>5. IsFiniteSet(Candidates) BY <1>3, <1>4, FS_Subset
<1> QED BY <1>1, <1>2, <1>3, <1>4, <1>5 DEF Candidates

LEMMA SeenGrows ==
    ASSUME CardOK
    PROVE  /\ \A p \in Candidates : Seen(p) \in Nat /\ IsFiniteSet({q \in Candidates : q < p})
           /\ \A p, q \in Candidates : q < p => Seen(q) < Seen(p)
           /\ \A p, q \in Candidates : Seen(q) = Seen(p) => q = p
<1>1. Candidates \in SUBSET Nat /\ IsFiniteSet(Candidates) BY CandidateFiles
<1>2. ASSUME NEW p \in Candidates PROVE Seen(p) \in Nat /\ IsFiniteSet({q \in Candidates : q < p})
  <2>1. {q \in Candidates : q < p} \in SUBSET Candidates OBVIOUS
  <2>2. IsFiniteSet({q \in Candidates : q < p}) BY <1>1, <2>1, FS_Subset
  <2> QED BY <2>2, FS_CardinalityType DEF Seen
<1>3. ASSUME NEW p \in Candidates, NEW q \in Candidates, q < p PROVE Seen(q) < Seen(p)
  <2> DEFINE S == {r \in Candidates : r < p}
             T == {r \in Candidates : r < q}
  <2>1. p \in Nat /\ q \in Nat BY <1>1
  <2>2. T \in SUBSET S
    <3> SUFFICES ASSUME NEW r \in Candidates, r < q PROVE r < p OBVIOUS
    <3>1. r \in Nat BY <1>1
    <3> QED BY <1>3, <2>1, <3>1
  <2>3. q \in S /\ q \notin T BY <1>3, <2>1
  <2>4. IsFiniteSet(S) /\ Seen(p) \in Nat /\ Seen(q) \in Nat BY <1>2
  <2>5. Seen(p) = Cardinality(S) /\ Seen(q) = Cardinality(T) BY DEF Seen
  <2> HIDE DEF S, T
  <2>6. Cardinality(T) =< Cardinality(S) /\ (Cardinality(S) = Cardinality(T) => S = T) BY <2>2, <2>4, FS_Subset
  <2> QED BY <2>3, <2>4, <2>5, <2>6
<1>4. ASSUME NEW p \in Candidates, NEW q \in Candidates, Seen(q) = Seen(p) PROVE q = p
  <2>1. p \in Nat /\ q \in Nat /\ Seen(p) \in Nat /\ Seen(q) \in Nat BY <1>1, <1>2
  <2>2. ~(p < q) /\ ~(q < p) BY <1>3, <1>4, <2>1
  <2> QED BY <2>1, <2>2
<1> QED BY <1>2, <1>3, <1>4

(* Each candidate before p is seen after a number of candidates of its own. *)
LEMMA SeenTakesAll ==
    ASSUME CardOK, NEW p \in Candidates, NEW k \in 0..Seen(p) - 1
    PROVE  \E q \in Candidates : Seen(q) = k
<1>1. SUFFICES ASSUME \A q \in Candidates : Seen(q) # k PROVE FALSE OBVIOUS
<1> DEFINE B == {q \in Candidates : q < p}
           n == Seen(p)
           T == (0..n - 1) \ {k}
           f == [q \in B |-> Seen(q)]
<1>2. n \in Nat /\ IsFiniteSet(B) /\ Cardinality(B) = n BY SeenGrows DEF Seen
<1>3. IsFiniteSet(0..n - 1) /\ Cardinality(0..n - 1) = n
  <2> HIDE DEF n
  <2>1. 0 \in Int /\ n - 1 \in Int BY <1>2
  <2>2. IsFiniteSet(0..n - 1) /\ Cardinality(0..n - 1) = IF 0 > n - 1 THEN 0 ELSE n - 1 - 0 + 1
    BY <2>1, FS_Interval
  <2> QED BY <1>2, <2>2
<1>4. IsFiniteSet(T) /\ Cardinality(T) = n - 1
  <2> HIDE DEF n
  <2> QED BY <1>3, FS_RemoveElement DEF n
<1>5. f \in [B -> T]
  <2>1. ASSUME NEW q \in B PROVE Seen(q) \in T
    <3>1. q \in Candidates /\ q < p BY <2>1
    <3>2. Seen(q) \in Nat /\ Seen(q) < n /\ Seen(q) # k BY <3>1, <1>1, SeenGrows
    <3> HIDE DEF n
    <3> QED BY <3>2, <1>2
  <2> HIDE DEF T, B
  <2> QED BY <2>1
<1> HIDE DEF n, T
<1>6. Cardinality(T) < Cardinality(B) BY <1>2, <1>4
<1>7. \E x, y \in B : x # y /\ f[x] = f[y]
  <2> HIDE DEF B, f
  <2> QED BY <1>2, <1>4, <1>5, <1>6, FS_PigeonHole
<1>8. PICK x, y \in B : x # y /\ f[x] = f[y] BY <1>7
<1>9. x \in Candidates /\ y \in Candidates /\ Seen(x) = Seen(y) BY <1>8
<1> QED BY <1>8, <1>9, SeenGrows

(* A round that isn't full has gathered all that is left. *)
LEMMA LastRound ==
    ASSUME CardOK, skip \in Nat, Cardinality(Gathered) < MAX_OPEN
    PROVE  \A p \in Candidates : Seen(p) < skip + MAX_OPEN
<1> SUFFICES ASSUME NEW p \in Candidates, Seen(p) >= skip + MAX_OPEN PROVE FALSE
  <2>1. \A p \in Candidates : Seen(p) \in Nat BY SeenGrows
  <2> QED BY <2>1, Constants
<1> DEFINE m == skip + MAX_OPEN - 1
           S == skip..m
           g == [k \in S |-> CHOOSE q \in Candidates : Seen(q) = k]
<1>1. Seen(p) \in Nat /\ m \in Nat /\ skip =< m /\ m < Seen(p) /\ m - skip + 1 = MAX_OPEN
  <2>1. Seen(p) \in Nat BY SeenGrows
  <2>2. MAX_OPEN \in Nat /\ MAX_OPEN > 0 BY Constants
  <2> QED BY <2>1, <2>2
<1>2. IsFiniteSet(Gathered)
  <2>1. Gathered \in SUBSET Candidates BY DEF Gathered
  <2> QED BY <2>1, CandidateFiles, FS_Subset
<1> HIDE DEF m
<1>3. IsFiniteSet(S) /\ Cardinality(S) = MAX_OPEN
  <2>1. skip \in Int /\ m \in Int BY <1>1
  <2>2. IsFiniteSet(S) /\ Cardinality(S) = IF skip > m THEN 0 ELSE m - skip + 1 BY <2>1, FS_Interval
  <2> QED BY <1>1, <2>2
<1>4. \A k \in S : g[k] \in Candidates /\ Seen(g[k]) = k
  <2> TAKE k \in S
  <2>1. k \in 0..Seen(p) - 1 BY <1>1
  <2>2. \E q \in Candidates : Seen(q) = k BY <2>1, SeenTakesAll
  <2> QED BY <2>2
<1>5. g \in [S -> Gathered]
  <2>1. \A k \in S : g[k] \in Gathered BY <1>4 DEF Gathered, m
  <2> QED BY <2>1
<1> HIDE DEF g, S
<1>6. Cardinality(Gathered) < Cardinality(S) BY <1>3
<1>7. PICK x, y \in S : x # y /\ g[x] = g[y] BY <1>2, <1>3, <1>5, <1>6, FS_PigeonHole
<1> QED BY <1>4, <1>7

(* The first place is the first candidate. *)
LEMMA FirstSeen ==
    ASSUME Inv1, HeapOK
    PROVE  /\ 1 \in Candidates /\ Seen(1) = 0
           /\ \A p \in Candidates : Seen(p) = 0 => p = 1
<1>1. 1 \in Candidates BY OneIsAFile, CandidateFiles, ForeignFacts DEF Inv1
<1>2. Candidates \subseteq Places BY DEF Candidates, Listed
<1>3. \A p \in Candidates : p \in Nat /\ p > 0 BY <1>2, PlaceFacts
<1>4. {q \in Candidates : q < 1} = {} BY <1>3
<1>5. Seen(1) = 0 BY <1>4, FS_EmptySet DEF Seen
<1> QED BY <1>1, <1>5, SeenGrows DEF Inv1

LEMMA CandidatesSame == ASSUME dir' = dir PROVE Candidates' = Candidates
BY DEF Candidates, Listed, IsCandidate

LEMMA GatherRounds == ASSUME Inv1, Inv2, Rounds, Gather PROVE Rounds'
<1>1. /\ dir' = dir /\ pc = "recover" /\ pc' = pc /\ todo = {} /\ todo' = Gathered
      /\ last' = (Cardinality(todo') < MAX_OPEN) /\ skip' = skip /\ clean' = clean
  BY DEF Gather, card
<1>2. Candidates' = Candidates BY <1>1, CandidatesSame
<1>3. SUFFICES ASSUME clean PROVE Round' BY <1>1 DEF Rounds
<1>4. skip \in {0, 1} BY <1>1, <1>3 DEF Rounds, Round, Recovering
<1>5. /\ 1 \in Candidates /\ Seen(1) = 0
      /\ \A p \in Candidates : Seen(p) = 0 => p = 1
  BY FirstSeen DEF Inv2
<1>6. skip = 0 => 1 \in Gathered
  <2>1. 0 \in 0..0 + MAX_OPEN - 1 BY Constants
  <2> QED BY <2>1, <1>5 DEF Gathered
<1>7. skip = 1 => 1 \notin Gathered
  <2>1. 0 \notin 1..1 + MAX_OPEN - 1 BY Constants
  <2> QED BY <2>1, <1>5 DEF Gathered
<1>8. ASSUME Cardinality(Gathered) < MAX_OPEN PROVE Candidates \subseteq Gathered \cup {1}
  <2> SUFFICES ASSUME NEW p \in Candidates, p # 1 PROVE p \in Gathered
    OBVIOUS
  <2>1. Seen(p) \in Nat /\ Seen(p) # 0 BY <1>5, SeenGrows DEF Inv1
  <2>2. skip \in Nat BY <1>4
  <2>3. Seen(p) < skip + MAX_OPEN BY <1>8, <2>2, LastRound DEF Inv1
  <2>4. Seen(p) \in skip..skip + MAX_OPEN - 1 BY <1>4, <2>1, <2>2, <2>3, Constants
  <2> QED BY <2>4 DEF Gathered
<1> QED BY <1>1, <1>2, <1>4, <1>6, <1>7, <1>8 DEF Round

(* Only the PC's file is left alone: it is the first of all. *)
LEMMA ReadHeaderRounds == ASSUME Inv1, Inv2, Rounds, ReadHeader PROVE Rounds'
<1>1. dir' = dir /\ pc = "recover" /\ plan = <<>> /\ todo # {} /\ last' = last /\ clean' = clean
  BY DEF ReadHeader, card
<1>2. Candidates' = Candidates BY <1>1, CandidatesSame
<1>3. pc' # "recovered" BY <1>1 DEF ReadHeader
<1>4. SUFFICES ASSUME clean PROVE Round' BY <1>1, <1>3 DEF Rounds
<1>5. Round BY <1>1, <1>4 DEF Rounds, Recovering
<1>6. At \in todo /\ At \in Files /\ IsCandidate(dir[At]) BY <1>1, AtIn DEF Inv1, TodoOK
<1>7. CASE UNCHANGED <<todo, skip>> BY <1>1, <1>2, <1>5, <1>7 DEF Round
<1>8. CASE Header # Clear /\ ~IsMagic(Header) /\ Done /\ PassOver
  <2>1. At = 1
    <3> SUFFICES ASSUME At # 1 PROVE FALSE OBVIOUS
    <3>1. PICK id \in 1..log.id : Owner(At, id) BY <1>6 DEF Inv2, HeapOK, Owned
    <3>2. /\ id \in 1..Logs /\ made[id].whole \in 0..Blocks
          /\ made[id].whole > 0 => Header = Frame(id, 0)
          /\ made[id].whole = 0 => Header \in {Clear, Frame(id, 0)}
      BY <1>6, <3>1, HeaderTells DEF Header, Inv2
    <3>3. Header \in {Clear, Frame(id, 0)} BY <3>2, Constants
    <3> QED BY <1>8, <3>2, <3>3, Magic
  <2>2. skip = 0 /\ skip' = 1 BY <1>5, <1>6, <1>8, <2>1 DEF Round, PassOver
  <2>3. todo' = todo \ {1} BY <1>8, <2>1 DEF Done
  <2>4. last' => Candidates' \subseteq todo' \cup {1} BY <1>1, <1>2, <1>5, <2>3 DEF Round
  <2> QED BY <2>2, <2>3, <2>4 DEF Round
<1> QED BY <1>7, <1>8 DEF ReadHeader

(* A file that has been shortened or deleted is a candidate no more. *)
LEMMA ChangedIsNone ==
    ASSUME Inv1, Inv1', pc = "recover", plan # <<>>, Apply(plan[1])
    PROVE  Candidates' \subseteq Candidates \ {At}
<1>1. ChangeReady /\ Changed = At BY DEF Inv1, ChangeOK, Changed
<1>2. /\ Files' \subseteq Files
      /\ \A q \in Files : q # At => q \in Files' /\ dir'[q] = dir[q]
      /\ At \in Files' => ~IsCandidate(dir'[At])
  BY <1>1, ChangeWrite
<1>3. Candidates = {p \in Files : IsCandidate(dir[p])} BY CandidateFiles DEF Inv1
<1>4. Candidates' \subseteq {p \in Files' : IsCandidate(dir'[p])}
  BY DEF Candidates, Listed, Files, IsCandidate
<1> SUFFICES ASSUME NEW p \in Files', IsCandidate(dir'[p]) PROVE p \in Candidates \ {At}
  BY <1>4
<1>5. p # At BY <1>2
<1>6. p \in Files /\ dir'[p] = dir[p] BY <1>2, <1>5
<1> QED BY <1>3, <1>5, <1>6

LEMMA CardWritesRounds == ASSUME Inv1, Inv1', Inv2, Rounds, CardWrites PROVE Rounds'
<1>1. /\ plan # <<>> /\ Apply(Head(plan)) /\ plan' = Tail(plan) /\ skip' = skip /\ last' = last /\ clean' = clean
      /\ plan' # <<>> => pc' = pc /\ todo' = todo
      /\ plan' = <<>> =>
            /\ pc' = CASE pc \in {"make", "log"} -> "log" [] pc = "close" -> "idle" [] OTHER -> pc
            /\ IF pc = "recover" THEN Done ELSE UNCHANGED todo
  BY DEF CardWrites
<1>2. Head(plan) = plan[1]
  <2>1. plan \in Seq(WriteSet) BY DEF Inv1, StateType
  <2> QED BY <1>1, <2>1, TailFacts
<1>3. pc \in {"make", "log", "close", "recover"} BY <1>1 DEF Inv1, StateType, IdleOK
<1>4. pc' # "recovered" /\ (Recovering' => pc = "recover") BY <1>1, <1>3 DEF Recovering
<1>5. SUFFICES ASSUME clean, pc = "recover" PROVE Round' BY <1>1, <1>4 DEF Rounds
<1>6. Round BY <1>5 DEF Rounds, Recovering
<1>7. Candidates' \subseteq Candidates \ {At} BY <1>1, <1>2, <1>5, ChangedIsNone
<1>8. At # 1 BY <1>1, <1>5 DEF Inv2, Changing, Changed
<1>9. todo' = todo \/ todo' = todo \ {At} BY <1>1 DEF Done
<1>10. todo # {} BY <1>1, <1>5 DEF Inv1, TodoOK
<1>11. skip = 0 => 1 \in todo' BY <1>6, <1>8, <1>9, <1>10 DEF Round
<1> QED BY <1>1, <1>6, <1>7, <1>9, <1>11 DEF Round

LEMMA RoundsNext == ASSUME Inv1, Inv1', Inv2, Rounds, [Next]_vars PROVE Rounds'
<1>1. CASE Gather \/ ReadHeader \/ CardWrites BY <1>1, GatherRounds, ReadHeaderRounds, CardWritesRounds
<1>2. CASE WriteBlock \/ Close \/ Make BY <1>2 DEF WriteBlock, Close, Make, Rounds, Recovering
<1>3. CASE Probe \/ Found
  <2>1. /\ dir' = dir /\ pc = "find" /\ pc' \in {"find", "recover"} /\ todo' = todo /\ skip' = skip
        /\ last' = last /\ clean' = clean
    BY <1>3 DEF Probe, Found, card
  <2>2. Candidates' = Candidates BY <2>1, CandidatesSame
  <2> QED BY <2>1, <2>2 DEF Rounds, Round, Recovering
<1>4. CASE Recovered
  <2>1. /\ dir' = dir /\ pc = "recover" /\ todo = {} /\ last /\ pc' = "recovered" /\ clean' = clean
    BY <1>4 DEF Recovered, card
  <2>2. Candidates' = Candidates BY <2>1, CandidatesSame
  <2> QED BY <2>1, <2>2 DEF Rounds, Round, Recovering
<1>5. CASE StartRecover BY <1>5 DEF StartRecover, Rounds, Round, Recovering
<1>6. CASE GatherFails \/ ReadFails \/ Cut \/ HostDeletes
  BY <1>6 DEF GatherFails, ReadFails, Cut, HostDeletes, Rounds, Recovering
<1>7. CASE WriteFails
  <2>1. pc' = "idle" \/ clean' = FALSE BY <1>7 DEF WriteFails
  <2> QED BY <2>1 DEF Rounds, Recovering
<1>8. CASE UNCHANGED vars
  <2>1. dir' = dir /\ pc' = pc /\ todo' = todo /\ skip' = skip /\ last' = last /\ clean' = clean
    BY <1>8 DEF vars, card, recovery
  <2>2. Candidates' = Candidates BY <2>1, CandidatesSame
  <2> QED BY <2>1, <2>2 DEF Rounds, Round, Recovering
<1> QED BY <1>1, <1>2, <1>3, <1>4, <1>5, <1>6, <1>7, <1>8 DEF Next, Program

LEMMA RoundsInv == Spec => []Rounds
<1>1. Init => Rounds BY DEF Init, Rounds, Recovering
<1>2. Inv1 /\ Inv1' /\ Inv2 /\ Rounds /\ [Next]_vars => Rounds' BY RoundsNext
<1> QED BY CardLogInv, HeapInv, <1>1, <1>2, PTL DEF Spec

(* A log_recover in which nothing failed leaves each log a file of just the
   blocks written whole, no log open, and the PC's file as it was
   (logfile.h:36-46), for every volume and every number of logs, cuts and
   failures. *)
THEOREM CardLogRecoveredExact == Spec => []RecoveredExact
<1>1. ASSUME Inv1, Inv2, Rounds PROVE RecoveredExact
  <2> SUFFICES ASSUME pc = "recovered", clean
               PROVE  /\ \A id \in 1..Logs : made[id].whole > 0 => made[id].place \in Listed /\ IsLog(made[id].place, id)
                      /\ \A p \in Listed \ {1} : \E id \in 1..Logs : made[id].whole > 0 /\ made[id].place = p
                      /\ 1 \in Listed /\ dir[1] = Foreign
    BY DEF RecoveredExact
  <2>1. Listed = Files /\ Candidates = {p \in Files : IsCandidate(dir[p])} BY <1>1, CandidateFiles DEF Inv1
  <2>2. \A p \in Files \ {1} : ~IsCandidate(dir[p]) BY <1>1, <2>1 DEF Rounds
  <2>3. ASSUME NEW id \in 1..Logs, made[id].whole > 0
        PROVE  made[id].place \in Listed /\ IsLog(made[id].place, id)
    <3>1. made[id].place \in Files \ {1} /\ Owner(made[id].place, id) BY <1>1, <2>3 DEF Inv2, HeapOK, Kept
    <3>2. Holds(made[id].place, id) BY <1>1, <3>1, OwnedBy DEF Inv2
    <3> QED BY <2>1, <2>2, <3>1, <3>2 DEF Holds, IsLog
  <2>4. ASSUME NEW p \in Files \ {1} PROVE \E id \in 1..Logs : made[id].whole > 0 /\ made[id].place = p
    <3>1. PICK id \in 1..log.id : Owner(p, id) /\ Holds(p, id) BY <1>1 DEF Inv2, HeapOK, Owned
    <3>2. id \in 1..Logs /\ made[id].place = p BY <1>1, <3>1, OwnerOnce DEF Inv1
    <3>3. made[id].whole > 0 BY <2>2, <3>1 DEF Holds
    <3> QED BY <3>2, <3>3
  <2>5. 1 \in Files /\ dir[1] = Foreign BY <1>1, OneIsAFile DEF Inv2
  <2> QED BY <2>1, <2>3, <2>4, <2>5
<1> QED BY CardLogInv, HeapInv, RoundsInv, <1>1, PTL
=====
