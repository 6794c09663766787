---------------------------- MODULE YmodemProofs ----------------------------
(***************************************************************************)
(* For any package, modulus of the packet numbers, patience and number of  *)
(* losses, cuts and refused writes: what lfstage.bin's block 0 names is    *)
(* all there, and what the receiver reports as taken is what was sent.     *)
(* The line is first in, first out, so the packets kept have rising        *)
(* numbers; as many as the package has are all of the package, and that    *)
(* is counted before block 0 goes in.                                      *)
(***************************************************************************)
EXTENDS Ymodem, Integers, TLAPS

Messages == {Pkt(n) : n \in 0..Packets} \cup {Eot, Cancels, Fin, Bad}
Answers == {"C", "ACK", "NAK", "CAN"}
Contents == Seq([version : 0..Attempts, packet : Nat])

YmodemTypes ==
    /\ who \in {"ymodem", "ymrecv"}
    /\ rx \in {"off", "header", "data", "eot", "next", "store", "check", "done", "failed"}
    /\ expected \in Nat /\ got \in Nat /\ errors \in Nat /\ eots \in Nat /\ polls \in Nat
    /\ ior \in BOOLEAN
    /\ block0 \in Contents /\ buf \in Contents /\ stage \in [Block -> Contents]
    /\ tx \in {"idle", "header", "c", "data", "eot", "batch", "end", "over"} /\ k \in 0..Packets
    /\ toR \in Seq(Messages) /\ toS \in Seq(Answers)
    /\ attempt \in 0..Attempts
    /\ losses \in Nat /\ troubles \in Nat /\ deaf \in BOOLEAN

(* The packets on a line are numbered from low to high, in order. *)
Ordered(q, low, high) ==
    /\ \A i \in 1..Len(q) : q[i].kind = "packet" => q[i].n \in low..high
    /\ \A i, j \in 1..Len(q) :
          q[i].kind = "packet" /\ q[j].kind = "packet" /\ i < j => q[i].n <= q[j].n

(* The first n packets of block b. *)
From(v, b, n) == [i \in 1..n |-> Data(v, b * PerBlock + i)]

(* What the receiver holds when it has kept packets 1 to got. *)
AtWork == rx \in {"header", "data", "eot", "next", "store"}
Exact ==
    /\ block0 = IF InBlock = 0 THEN From(attempt, 0, got) ELSE Content(attempt, 0)
    /\ buf = IF InBlock = 0 THEN <<>> ELSE From(attempt, InBlock, got % PerBlock)
    /\ AtWork /\ ~ior => \A b \in Block : 0 < b /\ b < InBlock => stage[b] = Content(attempt, b)

(* The packets kept have rising numbers up to `last`, so there are no more
   than `last` of them, and if there are as many they are all. *)
KeptUpTo(last) ==
    /\ last \in 0..k /\ Ordered(toR, last, k)
    /\ got <= last /\ expected = Number(last + 1)
    /\ got = last => Exact
Kept == \E last \in Nat : KeptUpTo(last)

(* The sender has not begun; ymrecv.c has counted; what is taken is whole. *)
Counted ==
    /\ tx \in {"idle", "header", "c"} => k = 0
    /\ rx = "eot" => who = "ymrecv"
    /\ rx = "check" => who = "ymodem"
    /\ who = "ymrecv" => ~ior
    /\ who = "ymrecv" /\ rx \in {"eot", "store"} => got = Packets
    /\ who = "ymrecv" /\ rx = "next" => Whole(attempt)
    /\ rx = "done" => Whole(attempt)

(* Until it is stored, block 0 in the file is not the new one, and with
   ymodem.c it is zeros as soon as another block may have been replaced. *)
Held ==
    /\ \A v \in Nat : v > attempt => stage[0] # Content(v, 0)
    /\ who = "ymrecv" /\ AtWork /\ rx # "next" => stage[0] # Content(attempt, 0)
    /\ who = "ymodem" /\ AtWork /\ got >= PerBlock /\ ~ior => stage[0] = Zeros

YmodemInv == YmodemTypes /\ Kept /\ Counted /\ Held /\ TakenIsWhole

-----------------------------------------------------------------------------
(* The constants, whole division and the packet numbers. *)
LEMMA Constants ==
    /\ Receivers \subseteq {"ymodem", "ymrecv"}
    /\ Blocks \in Nat /\ Blocks > 0 /\ PerBlock \in Nat /\ PerBlock > 0
    /\ Retries \in Nat /\ Polls \in Nat /\ Attempts \in Nat /\ Attempts > 0
    /\ Modulus \in Nat /\ Modulus > 2 /\ MaxLosses \in Nat /\ MaxTroubles \in Nat
    /\ Packets \in Nat /\ 0 \in Block /\ PerBlock <= Packets
<1>1. /\ Receivers \subseteq {"ymodem", "ymrecv"}
      /\ Blocks \in Nat /\ Blocks > 0 /\ PerBlock \in Nat /\ PerBlock > 0
      /\ Retries \in Nat /\ Polls \in Nat /\ Attempts \in Nat /\ Attempts > 0
      /\ Modulus \in Nat /\ Modulus > 2 /\ MaxLosses \in Nat /\ MaxTroubles \in Nat
  BY YmodemAssumption
<1>2. PICK m \in Nat : Blocks = m + 1
  <2>1. Blocks - 1 \in Nat /\ Blocks = (Blocks - 1) + 1 BY <1>1
  <2> QED BY <2>1
<1>3. Packets = m * PerBlock + PerBlock BY <1>1, <1>2 DEF Packets
<1>4. m * PerBlock \in Nat BY <1>1, <1>2
<1> QED BY <1>1, <1>3, <1>4 DEF Block

LEMMA Swapped ==
    ASSUME NEW a \in Nat, NEW d \in Nat, NEW q \in Nat, NEW r \in Nat, a = d * q + r
    PROVE  a = q * d + r
OBVIOUS

LEMMA Divides ==
    ASSUME NEW a \in Nat, NEW d \in Nat, d > 0
    PROVE  \E q, r \in Nat : /\ q = a \div d /\ r = a % d /\ r < d
                            /\ q * d \in Nat /\ a = q * d + r
<1>1. a \in Int /\ d \in Int OBVIOUS
<1>2. a = d * (a \div d) + (a % d) BY <1>1, Z3
<1>3. PICK q \in Nat : q = a \div d OBVIOUS
<1>4. PICK r \in Nat : r = a % d /\ r < d OBVIOUS
<1>5. a = d * q + r BY <1>2, <1>3, <1>4
<1>6. a = q * d + r /\ q * d \in Nat BY <1>5, Swapped
<1> QED BY <1>3, <1>4, <1>6

(* d times a number that is greater by one or more is greater by d or more. *)
LEMMA TimesGrows ==
    ASSUME NEW d \in Nat, NEW p \in Nat, NEW q \in Nat, q > p
    PROVE  p * d \in Nat /\ q * d \in Nat /\ q * d >= p * d + d
<1>1. PICK m \in Nat : q = p + 1 + m
  <2>1. q - (p + 1) \in Nat /\ q = p + 1 + (q - (p + 1)) OBVIOUS
  <2> QED BY <2>1
<1>2. q * d = p * d + d + m * d BY <1>1
<1>3. m * d \in Nat /\ p * d \in Nat /\ q * d \in Nat OBVIOUS
<1> QED BY <1>2, <1>3

LEMMA DivisionOf ==
    ASSUME NEW d \in Nat, d > 0, NEW q \in Nat, NEW r \in Nat, r < d,
           NEW a \in Nat, a = q * d + r
    PROVE  a \div d = q /\ a % d = r
<1>1. PICK p, s \in Nat : /\ p = a \div d /\ s = a % d /\ s < d
                         /\ p * d \in Nat /\ a = p * d + s
  BY Divides
<1>2. q * d \in Nat OBVIOUS
<1>3. CASE p > q
  <2>1. p * d >= q * d + d BY <1>3, TimesGrows
  <2> QED BY <1>1, <1>2, <2>1
<1>4. CASE q > p
  <2>1. q * d >= p * d + d BY <1>4, TimesGrows
  <2> QED BY <1>1, <1>2, <2>1
<1>5. CASE p = q BY <1>1, <1>2, <1>5
<1> QED BY <1>3, <1>4, <1>5

(* One more: within the same group of d, or at the start of the next. *)
LEMMA OneMore ==
    ASSUME NEW d \in Nat, d > 0, NEW a \in Nat
    PROVE  /\ a % d = d - 1 => (a + 1) % d = 0 /\ (a + 1) \div d = a \div d + 1
           /\ a % d # d - 1 => (a + 1) % d = (a % d) + 1 /\ (a + 1) \div d = a \div d
<1>1. PICK q, r \in Nat : /\ q = a \div d /\ r = a % d /\ r < d
                         /\ q * d \in Nat /\ a = q * d + r
  BY Divides
<1>2. ASSUME r = d - 1 PROVE (a + 1) % d = 0 /\ (a + 1) \div d = q + 1
  <2>1. a + 1 = (q + 1) * d + 0 BY <1>1, <1>2
  <2>2. q + 1 \in Nat /\ a + 1 \in Nat /\ 0 \in Nat /\ 0 < d OBVIOUS
  <2> QED BY <2>1, <2>2, DivisionOf
<1>3. ASSUME r # d - 1 PROVE (a + 1) % d = r + 1 /\ (a + 1) \div d = q
  <2>1. r + 1 \in Nat /\ r + 1 < d /\ a + 1 = q * d + (r + 1) /\ a + 1 \in Nat
    BY <1>1, <1>3
  <2> QED BY <2>1, DivisionOf
<1> QED BY <1>1, <1>2, <1>3

(* The number that follows a packet's is found from its number alone, and
   is not its own. *)
LEMMA Numbers ==
    ASSUME NEW a \in Nat
    PROVE  /\ Number(a) \in Nat /\ Number(a + 1) # Number(a)
           /\ Number(a + 1) = Number(Number(a) + 1)
<1>1. Modulus \in Nat /\ Modulus > 2 /\ Modulus > 0 BY Constants
<1>2. a % Modulus \in Nat /\ a % Modulus < Modulus BY <1>1
<1>3. CASE a % Modulus = Modulus - 1
  <2>1. (a + 1) % Modulus = 0 BY <1>1, <1>3, OneMore, Zenon
  <2>2. (a % Modulus) + 1 = 1 * Modulus + 0 BY <1>1, <1>3
  <2>3. (a % Modulus) + 1 \in Nat BY <1>2
  <2>4. ((a % Modulus) + 1) % Modulus = 0 BY <1>1, <2>2, <2>3, DivisionOf
  <2> QED BY <1>1, <1>2, <1>3, <2>1, <2>4 DEF Number
<1>4. CASE a % Modulus # Modulus - 1
  <2>1. (a + 1) % Modulus = (a % Modulus) + 1 BY <1>1, <1>4, OneMore, Zenon
  <2>2. (a % Modulus) + 1 \in Nat /\ (a % Modulus) + 1 < Modulus BY <1>1, <1>2, <1>4
  <2>3. (a % Modulus) + 1 = 0 * Modulus + ((a % Modulus) + 1) BY <1>1, <2>2
  <2>4. ((a % Modulus) + 1) % Modulus = (a % Modulus) + 1 BY <1>1, <2>2, <2>3, DivisionOf
  <2> QED BY <1>2, <2>1, <2>4 DEF Number
<1> QED BY <1>3, <1>4

(* Where packet g + 1 goes. *)
LEMMA Places ==
    ASSUME NEW g \in Nat
    PROVE  \E q, r \in Nat :
             /\ q = g \div PerBlock /\ r = g % PerBlock /\ r < PerBlock
             /\ q * PerBlock \in Nat /\ g = q * PerBlock + r
             /\ g < Packets => q \in Block
             /\ g < PerBlock <=> q = 0
             /\ q = 0 => r = g
<1>1. PerBlock \in Nat /\ PerBlock > 0 /\ Blocks \in Nat BY Constants
<1>2. PICK q, r \in Nat : /\ q = g \div PerBlock /\ r = g % PerBlock /\ r < PerBlock
                         /\ q * PerBlock \in Nat /\ g = q * PerBlock + r
  BY <1>1, Divides
<1>3. ASSUME g < Packets PROVE q \in Block
  <2>1. SUFFICES ASSUME q >= Blocks PROVE FALSE BY <1>1 DEF Block
  <2>2. CASE q = Blocks BY <1>1, <1>2, <1>3, <2>2 DEF Packets
  <2>3. CASE q > Blocks
    <3>1. Blocks * PerBlock \in Nat /\ q * PerBlock >= Blocks * PerBlock + PerBlock
      BY <1>1, <2>3, TimesGrows
    <3> QED BY <1>1, <1>2, <1>3, <3>1 DEF Packets
  <2> QED BY <1>1, <2>1, <2>2, <2>3
<1>4. ASSUME q = 0 PROVE g < PerBlock /\ r = g BY <1>1, <1>2, <1>4
<1>5. ASSUME q > 0 PROVE g >= PerBlock
  <2>1. q * PerBlock >= 0 * PerBlock + PerBlock BY <1>1, <1>5, TimesGrows
  <2> QED BY <1>1, <1>2, <2>1
<1> QED BY <1>1, <1>2, <1>3, <1>4, <1>5

(* The package ends where its last block does. *)
LEMMA LastPlace == Packets \div PerBlock = Blocks /\ Packets % PerBlock = 0
<1>1. PerBlock \in Nat /\ PerBlock > 0 /\ Blocks \in Nat /\ Packets \in Nat BY Constants
<1>2. Packets = Blocks * PerBlock + 0 BY <1>1 DEF Packets
<1> QED BY <1>1, <1>2, DivisionOf

-----------------------------------------------------------------------------
(* The contents of blocks. *)
LEMMA FromFacts ==
    ASSUME NEW v \in Nat, NEW b \in Nat
    PROVE  /\ From(v, b, 0) = <<>>
           /\ From(v, b, PerBlock) = Content(v, b)
           /\ \A n \in Nat : Append(From(v, b, n), Data(v, b * PerBlock + (n + 1))) = From(v, b, n + 1)
<1>1. From(v, b, 0) = <<>> BY DEF From
<1>2. From(v, b, PerBlock) = Content(v, b) BY DEF From, Content
<1>3. ASSUME NEW n \in Nat
      PROVE  Append(From(v, b, n), Data(v, b * PerBlock + (n + 1))) = From(v, b, n + 1)
  <2> DEFINE d(i) == Data(v, b * PerBlock + i)
  <2>1. From(v, b, n) = [i \in 1..n |-> d(i)] /\ From(v, b, n + 1) = [i \in 1..n + 1 |-> d(i)]
    BY DEF From
  <2> HIDE DEF d
  <2>2. Append([i \in 1..n |-> d(i)], d(n + 1)) = [i \in 1..n + 1 |-> d(i)] OBVIOUS
  <2>3. d(n + 1) = Data(v, b * PerBlock + (n + 1)) BY DEF d
  <2> QED BY <2>1, <2>2, <2>3
<1> QED BY <1>1, <1>2, <1>3

LEMMA ContentFacts ==
    ASSUME NEW v \in Nat, NEW b \in Nat
    PROVE  /\ Content(v, b) # Zeros
           /\ \A w \in Nat : Content(v, b) = Content(w, b) => v = w
<1>1. 1 \in 1..PerBlock BY Constants
<1>2. Content(v, b) # Zeros
  <2>1. DOMAIN Content(v, b) = 1..PerBlock BY DEF Content
  <2>2. DOMAIN Zeros = {} BY DEF Zeros
  <2> QED BY <1>1, <2>1, <2>2
<1>3. ASSUME NEW w \in Nat, Content(v, b) = Content(w, b) PROVE v = w
  <2>1. Content(v, b)[1].version = v BY <1>1 DEF Content, Data
  <2>2. Content(w, b)[1].version = w BY <1>1 DEF Content, Data
  <2> QED BY <1>3, <2>1, <2>2
<1> QED BY <1>2, <1>3

LEMMA ContentTypes ==
    /\ Zeros \in Contents
    /\ \A v \in 0..Attempts, b \in Block : Content(v, b) \in Contents
    /\ \A v \in 0..Attempts, n \in Nat : Data(v, n) \in [version : 0..Attempts, packet : Nat]
<1>1. Zeros \in Contents BY DEF Zeros, Contents
<1>2. \A v \in 0..Attempts, n \in Nat : Data(v, n) \in [version : 0..Attempts, packet : Nat]
  BY DEF Data
<1>3. ASSUME NEW v \in 0..Attempts, NEW b \in Block PROVE Content(v, b) \in Contents
  <2>1. PerBlock \in Nat /\ b \in Nat BY Constants DEF Block
  <2>2. \A i \in 1..PerBlock : b * PerBlock + i \in Nat BY <2>1
  <2>3. \A i \in 1..PerBlock : Data(v, b * PerBlock + i) \in [version : 0..Attempts, packet : Nat]
    BY <1>2, <2>2
  <2> QED BY <2>1, <2>3 DEF Content, Contents
<1> QED BY <1>1, <1>2, <1>3

-----------------------------------------------------------------------------
(* The line. *)
LEMMA TailFacts ==
    ASSUME NEW S, NEW s \in Seq(S), s # <<>>
    PROVE  /\ Head(s) = s[1] /\ s[1] \in S /\ Tail(s) \in Seq(S)
           /\ Len(s) \in Nat /\ Len(s) > 0 /\ Len(Tail(s)) = Len(s) - 1
           /\ \A i \in 1..Len(Tail(s)) : Tail(s)[i] = s[i + 1] /\ i + 1 \in 1..Len(s)
<1>1. Len(s) \in Nat /\ Len(s) > 0 OBVIOUS
<1>2. Head(s) = s[1] /\ s[1] \in S BY <1>1
<1>3. Tail(s) \in Seq(S) /\ Len(Tail(s)) = Len(s) - 1 OBVIOUS
<1>4. \A i \in 1..Len(s) - 1 : Tail(s)[i] = s[i + 1] OBVIOUS
<1> QED BY <1>1, <1>2, <1>3, <1>4

LEMMA MessageTypes ==
    /\ {Eot, Cancels, Fin, Bad} \subseteq Messages
    /\ \A n \in 0..Packets : Pkt(n) \in Messages /\ Pkt(n).n = n
    /\ \A m \in Messages : m.kind = "packet" => m.n \in Nat
    /\ \A m \in {Eot, Cancels, Fin, Bad} : m.kind # "packet"
<1>1. Packets \in Nat BY Constants
<1> QED BY <1>1 DEF Messages, Pkt, Eot, Cancels, Fin, Bad

(* Taken from the front: what is left is numbered from what was taken. *)
LEMMA TailOrdered ==
    ASSUME NEW q \in Seq(Messages), q # <<>>, NEW low \in Nat, NEW high \in Nat,
           Ordered(q, low, high)
    PROVE  /\ Ordered(Tail(q), low, high)
           /\ Head(q).kind = "packet" =>
                Head(q).n \in low..high /\ Ordered(Tail(q), Head(q).n, high)
<1>1. /\ Head(q) = q[1] /\ q[1] \in Messages /\ Tail(q) \in Seq(Messages)
      /\ Len(q) \in Nat /\ Len(q) > 0 /\ Len(Tail(q)) = Len(q) - 1
      /\ \A i \in 1..Len(Tail(q)) : Tail(q)[i] = q[i + 1] /\ i + 1 \in 1..Len(q)
  BY TailFacts
<1>2. Ordered(Tail(q), low, high) BY <1>1 DEF Ordered
<1>3. ASSUME Head(q).kind = "packet"
      PROVE  Head(q).n \in low..high /\ Ordered(Tail(q), Head(q).n, high)
  <2>1. Head(q).n \in low..high BY <1>1, <1>3 DEF Ordered
  <2>2. ASSUME NEW i \in 1..Len(Tail(q)), Tail(q)[i].kind = "packet"
        PROVE  Tail(q)[i].n \in Head(q).n..high
    <3>1. 1 \in 1..Len(q) /\ i + 1 \in 1..Len(q) /\ 1 < i + 1 /\ Tail(q)[i] = q[i + 1] BY <1>1
    <3>2. q[1].n <= q[i + 1].n /\ q[i + 1].n \in low..high
      BY <1>1, <1>3, <2>2, <3>1 DEF Ordered
    <3> QED BY <1>1, <2>1, <3>1, <3>2
  <2> QED BY <1>2, <2>1, <2>2 DEF Ordered
<1> QED BY <1>2, <1>3

(* Sent: the last one on the line has the highest number. *)
LEMMA AppendOrdered ==
    ASSUME NEW q \in Seq(Messages), NEW low \in Nat, NEW high \in Nat, NEW top \in Nat,
           low <= high, high <= top, Ordered(q, low, high),
           NEW m \in Messages, m.kind = "packet" => m.n = top
    PROVE  Ordered(q, low, top) /\ Ordered(Append(q, m), low, top)
<1>1. \A i \in 1..Len(q) : q[i].kind = "packet" => q[i].n \in low..top BY DEF Ordered
<1>2. Ordered(q, low, top) BY <1>1 DEF Ordered
<1>3. /\ Len(Append(q, m)) = Len(q) + 1 /\ Len(q) \in Nat
      /\ Append(q, m)[Len(q) + 1] = m
      /\ \A i \in 1..Len(q) : Append(q, m)[i] = q[i]
  OBVIOUS
<1>4. \A i \in 1..Len(q) + 1 : i \in 1..Len(q) \/ i = Len(q) + 1 BY <1>3
<1>5. \A i \in 1..Len(q) + 1 :
         Append(q, m)[i].kind = "packet" => Append(q, m)[i].n \in low..top
  BY <1>1, <1>3, <1>4
<1>6. ASSUME NEW i \in 1..Len(q) + 1, NEW j \in 1..Len(q) + 1, i < j,
             Append(q, m)[i].kind = "packet", Append(q, m)[j].kind = "packet"
      PROVE  Append(q, m)[i].n <= Append(q, m)[j].n
  <2>1. i \in 1..Len(q) /\ Append(q, m)[i] = q[i] BY <1>3, <1>6
  <2>2. CASE j \in 1..Len(q) BY <1>3, <1>6, <2>1, <2>2 DEF Ordered
  <2>3. CASE j = Len(q) + 1
    <3>1. q[i].n \in low..top BY <1>1, <1>6, <2>1
    <3>2. Append(q, m)[j].n = top BY <1>3, <1>6, <2>3
    <3> QED BY <2>1, <3>1, <3>2
  <2> QED BY <1>4, <2>2, <2>3
<1> QED BY <1>2, <1>3, <1>5, <1>6 DEF Ordered

(* Damaged: a packet is none any more. *)
LEMMA BadOrdered ==
    ASSUME NEW q \in Seq(Messages), NEW low \in Nat, NEW high \in Nat, Ordered(q, low, high)
    PROVE  Ordered(<<Bad>> \o q, low, high)
<1>1. Bad.kind # "packet" BY MessageTypes
<1>2. /\ Len(<<Bad>> \o q) = Len(q) + 1 /\ Len(q) \in Nat /\ (<<Bad>> \o q)[1] = Bad
      /\ \A i \in 2..Len(q) + 1 : (<<Bad>> \o q)[i] = q[i - 1] /\ i - 1 \in 1..Len(q)
  OBVIOUS
<1>3. \A i \in 1..Len(q) + 1 : i = 1 \/ i \in 2..Len(q) + 1 BY <1>2
<1>4. \A i, j \in 1..Len(q) + 1 : i < j => i - 1 < j - 1 OBVIOUS
<1> QED BY <1>1, <1>2, <1>3, <1>4 DEF Ordered

-----------------------------------------------------------------------------
(* Types. *)
LEMMA Says1 ==
    ASSUME toS \in Seq(Answers)
    PROVE  /\ \A a \in Answers : toS \o <<a>> \in Seq(Answers)
           /\ \A a, b \in Answers : toS \o <<a, b>> \in Seq(Answers)
OBVIOUS

LEMMA TailTypes ==
    ASSUME YmodemTypes
    PROVE  /\ toR # <<>> => Tail(toR) \in Seq(Messages) /\ Head(toR) \in Messages
           /\ toS # <<>> => Tail(toS) \in Seq(Answers)
           /\ <<>> \in Seq(Messages) /\ <<>> \in Seq(Answers)
           /\ <<Bad>> \o Tail(toR) \in Seq(Messages) \/ toR = <<>>
<1>1. toR \in Seq(Messages) /\ toS \in Seq(Answers) BY DEF YmodemTypes
<1>2. toR # <<>> => Tail(toR) \in Seq(Messages) /\ Head(toR) \in Messages BY <1>1, TailFacts
<1>3. toS # <<>> => Tail(toS) \in Seq(Answers) BY <1>1, TailFacts
<1>4. Bad \in Messages BY MessageTypes
<1>5. \A q \in Seq(Messages) : <<Bad>> \o q \in Seq(Messages) BY <1>4
<1> QED BY <1>2, <1>3, <1>5

LEMMA AnswerTypes == {"C", "ACK", "NAK", "CAN"} \subseteq Answers
BY DEF Answers

LEMMA HeaderTypes ==
    ASSUME YmodemTypes,
           \/ PollHeader \/ NoSender \/ HeaderComes \/ FinComes \/ HeaderEot \/ HeaderBad
           \/ HeaderCancelled
    PROVE  YmodemTypes'
<1> USE DEF YmodemTypes, InHeader, buffers, sender, bounds, line, Comes, Says, Goes,
        WithoutHeader, PollsLeft
<1> USE Says1, TailTypes, AnswerTypes
<1>1. CASE PollHeader BY <1>1 DEF PollHeader
<1>2. CASE NoSender BY <1>2 DEF NoSender
<1>3. CASE HeaderComes BY <1>3 DEF HeaderComes
<1>4. CASE FinComes BY <1>4 DEF FinComes
<1>5. CASE HeaderEot BY <1>5 DEF HeaderEot
<1>6. CASE HeaderBad
  <2>1. rx' \in {"header", "next", "failed", "store", "done"} BY <1>6 DEF HeaderBad
  <2>2. toS' \in Seq(Answers) BY <1>6 DEF HeaderBad
  <2>3. errors' \in Nat /\ toR' \in Seq(Messages) /\ polls' \in Nat BY <1>6 DEF HeaderBad
  <2> QED BY <1>6, <2>1, <2>2, <2>3 DEF HeaderBad
<1>7. CASE HeaderCancelled BY <1>7 DEF HeaderCancelled
<1> QED BY <1>1, <1>2, <1>3, <1>4, <1>5, <1>6, <1>7

LEMMA KeepTypes ==
    ASSUME YmodemTypes, Keep PROVE YmodemTypes'
<1> DEFINE d == Data(attempt, Head(toR).n)
<1>1. toR # <<>> /\ Head(toR) \in Messages /\ Head(toR).kind = "packet" BY TailTypes DEF Keep
<1>2. Head(toR).n \in Nat BY <1>1, MessageTypes
<1>3. attempt \in 0..Attempts BY DEF YmodemTypes
<1>4. d \in [version : 0..Attempts, packet : Nat] BY <1>2, <1>3, ContentTypes
<1> HIDE DEF d
<1>5. Append(block0, d) \in Contents /\ Append(buf, d) \in Contents /\ <<>> \in Contents
  BY <1>4 DEF YmodemTypes, Contents
<1>6. block0' \in Contents /\ buf' \in Contents BY <1>5 DEF Keep, YmodemTypes, d
<1>7. Written(Append(buf, d)) \in Contents BY <1>5, ContentTypes DEF Written
<1>8. stage' \in [Block -> Contents] BY <1>7 DEF Keep, YmodemTypes, d
<1>9. expected' \in Nat /\ got' \in Nat /\ errors' \in Nat /\ eots' \in Nat
  <2>1. expected + 1 \in Nat BY DEF YmodemTypes
  <2>2. Number(expected + 1) \in Nat BY <2>1, Numbers
  <2> QED BY <2>2 DEF Keep, YmodemTypes, ExpectNext
<1>10. toR' \in Seq(Messages) BY TailTypes DEF Keep
<1>11. toS' \in Seq(Answers) BY Says1, AnswerTypes DEF Keep, Says, GiveUp, YmodemTypes
<1>12. rx' \in {"data", "failed"} BY DEF Keep, InData, GiveUp, Goes
<1>13. ior' \in BOOLEAN BY DEF Keep, YmodemTypes
<1>14. troubles' \in Nat BY DEF Keep, Trouble, YmodemTypes
<1> QED BY <1>6, <1>8, <1>9, <1>10, <1>11, <1>12, <1>13, <1>14 DEF Keep, InData, sender, YmodemTypes

LEMMA DataTypes ==
    ASSUME YmodemTypes,
           \/ Again \/ OutOfStep \/ DataBad \/ DataTimeout \/ DataCancelled \/ FirstEot
           \/ SecondEot \/ EotEnds \/ Store \/ Check
    PROVE  YmodemTypes'
<1> USE DEF YmodemTypes, InData, buffers, sender, bounds, line, counters, Comes, Says, Goes, GiveUp,
        AskAgain, Trouble, RepeatAnswer
<1> USE Says1, TailTypes, AnswerTypes
<1>1. CASE Again BY <1>1 DEF Again
<1>2. CASE OutOfStep BY <1>2 DEF OutOfStep
<1>3. CASE DataBad
  <2>1. rx' \in {"data", "failed"} BY <1>3 DEF DataBad
  <2>2. toS' \in Seq(Answers) BY <1>3 DEF DataBad
  <2>3. errors' \in Nat /\ troubles' \in Nat /\ toR' \in Seq(Messages) BY <1>3 DEF DataBad
  <2> QED BY <1>3, <2>1, <2>2, <2>3 DEF DataBad
<1>4. CASE DataTimeout
  <2>1. rx' \in {"data", "failed"} BY <1>4 DEF DataTimeout
  <2>2. toS' \in Seq(Answers) BY <1>4 DEF DataTimeout
  <2>3. errors' \in Nat /\ troubles' \in Nat /\ toR' \in Seq(Messages) BY <1>4 DEF DataTimeout
  <2> QED BY <1>4, <2>1, <2>2, <2>3 DEF DataTimeout
<1>5. CASE DataCancelled BY <1>5 DEF DataCancelled
<1>6. CASE FirstEot
  <2>1. rx' \in {"data", "eot", "failed"} BY <1>6 DEF FirstEot
  <2>2. toS' \in Seq(Answers) BY <1>6 DEF FirstEot
  <2>3. eots' \in Nat /\ errors' \in Nat /\ toR' \in Seq(Messages) BY <1>6 DEF FirstEot
  <2> QED BY <1>6, <2>1, <2>2, <2>3 DEF FirstEot
<1>7. CASE SecondEot BY <1>7 DEF SecondEot
<1>8. CASE EotEnds BY <1>8 DEF EotEnds
<1>9. CASE Store
  <2>1. stage' \in [Block -> Contents] BY <1>9 DEF Store
  <2>2. rx' \in {"check", "next", "failed"} BY <1>9 DEF Store
  <2>3. toS' \in Seq(Answers) BY <1>9 DEF Store
  <2>4. troubles' \in Nat /\ toR' \in Seq(Messages) BY <1>9 DEF Store
  <2> QED BY <1>9, <2>1, <2>2, <2>3, <2>4 DEF Store
<1>10. CASE Check BY <1>10 DEF Check
<1> QED BY <1>1, <1>2, <1>3, <1>4, <1>5, <1>6, <1>7, <1>8, <1>9, <1>10

LEMMA SenderTypes ==
    ASSUME YmodemTypes, SenderStep PROVE YmodemTypes'
<1> USE DEF YmodemTypes, Sender, counters, buffers, sender, bounds, line, Hears, Sends
<1> USE TailTypes, MessageTypes
<1>1. \A m \in Messages : Append(toR, m) \in Seq(Messages) OBVIOUS
<1>2. Packets \in Nat /\ Packets >= 1 BY Constants
<1>3. CASE SendHeader
  <2>1. toR' \in Seq(Messages) BY <1>1, <1>2, <1>3 DEF SendHeader
  <2>2. k' \in 0..Packets BY <1>2, <1>3 DEF SendHeader
  <2>3. toS' \in Seq(Answers) BY <1>3 DEF SendHeader
  <2> QED BY <1>3, <2>1, <2>2, <2>3 DEF SendHeader
<1>4. CASE HeaderTaken BY <1>4 DEF HeaderTaken
<1>5. CASE StartData
  <2>1. toR' \in Seq(Messages) BY <1>1, <1>2, <1>5 DEF StartData
  <2>2. k' \in 0..Packets BY <1>2, <1>5 DEF StartData
  <2>3. toS' \in Seq(Answers) BY <1>5 DEF StartData
  <2> QED BY <1>5, <2>1, <2>2, <2>3 DEF StartData
<1>6. CASE HeaderAgain BY <1>1, <1>2, <1>6 DEF HeaderAgain
<1>7. CASE NextPacket
  <2>4. k < Packets => k + 1 \in 0..Packets BY <1>2
  <2>5. k < Packets => Pkt(k + 1) \in Messages BY <2>4
  <2>1. toR' \in Seq(Messages) BY <1>1, <1>7, <2>5 DEF NextPacket
  <2>2. k' \in 0..Packets BY <1>2, <1>7 DEF NextPacket
  <2>3. toS' \in Seq(Answers) BY <1>7 DEF NextPacket
  <2> QED BY <1>7, <2>1, <2>2, <2>3 DEF NextPacket
<1>8. CASE SameAgain BY <1>1, <1>8 DEF SameAgain
<1>9. CASE EotAgain BY <1>1, <1>9 DEF EotAgain
<1>10. CASE EotTaken BY <1>10 DEF EotTaken
<1>11. CASE EndBatch BY <1>1, <1>11 DEF EndBatch
<1>12. CASE Finished BY <1>12 DEF Finished
<1>13. CASE Stopped BY <1>13 DEF Stopped
<1>14. CASE Ignore BY <1>14 DEF Ignore
<1> QED BY <1>3, <1>4, <1>5, <1>6, <1>7, <1>8, <1>9, <1>10, <1>11, <1>12, <1>13, <1>14
        DEF SenderStep

LEMMA OtherTypes ==
    ASSUME YmodemTypes, LosePacket \/ LoseAnswer \/ SenderStops \/ Cut \/ Restart \/ UNCHANGED vars
    PROVE  YmodemTypes'
<1> USE DEF YmodemTypes, counters, buffers, sender, bounds, line, Loss, Trouble
<1> USE TailTypes, MessageTypes, Constants
<1>1. CASE LosePacket
  <2>1. toR' \in Seq(Messages) BY <1>1 DEF LosePacket
  <2>2. losses' \in Nat BY <1>1 DEF LosePacket
  <2> QED BY <1>1, <2>1, <2>2 DEF LosePacket
<1>2. CASE LoseAnswer BY <1>2 DEF LoseAnswer
<1>3. CASE SenderStops
  <2>1. toR' \in Seq(Messages) BY <1>3 DEF SenderStops
  <2> QED BY <1>3, <2>1 DEF SenderStops
<1>4. CASE Cut
  <2>1. stage' \in [Block -> Contents] BY <1>4, ContentTypes DEF Cut
  <2> QED BY <1>4, <2>1 DEF Cut
<1>5. CASE Restart
  <2>1. <<>> \in Contents BY DEF Contents
  <2> QED BY <1>5, <2>1 DEF Restart, Clear
<1>6. CASE UNCHANGED vars BY <1>6 DEF vars
<1> QED BY <1>1, <1>2, <1>3, <1>4, <1>5, <1>6

LEMMA StepTypes == ASSUME YmodemTypes, [Next]_vars PROVE YmodemTypes'
BY HeaderTypes, KeepTypes, DataTypes, SenderTypes, OtherTypes DEF Next, Receiver

LEMMA InitTypes == ASSUME Init PROVE YmodemTypes
<1>1. 0 \in 0..Attempts /\ Receivers \subseteq {"ymodem", "ymrecv"} /\ Packets \in Nat BY Constants
<1>2. \A b \in Block : Content(0, b) \in Contents BY <1>1, ContentTypes
<1>3. stage \in [Block -> Contents] BY <1>2 DEF Init
<1>4. <<>> \in Contents /\ <<>> \in Seq(Messages) /\ <<>> \in Seq(Answers) BY DEF Contents
<1>5. 1 \in Nat /\ 0 \in 0..Packets BY <1>1
<1>6. who \in {"ymodem", "ymrecv"} BY <1>1 DEF Init
<1> QED BY <1>1, <1>3, <1>4, <1>5, <1>6 DEF Init, YmodemTypes

-----------------------------------------------------------------------------
(* The steps that keep nothing: what is held and where it is written stay,
   and the receiver moves on as the code does. *)
MovesOn ==
    \/ rx' = rx
    \/ rx' \in {"off", "failed"}
    \/ rx = "header" /\ rx' = "data"
    \/ rx = "data" /\ who = "ymrecv" /\ got >= Packets /\ rx' = "eot"
    \/ rx = "data" /\ who = "ymodem" /\ rx' = "next"
    \/ rx = "eot" /\ rx' = "store"
    \/ rx = "next" /\ who = "ymodem" /\ rx' = "store"
    \/ rx = "next" /\ who = "ymrecv" /\ rx' = "done"
    \/ rx = "check" /\ Whole(attempt) /\ rx' = "done"

LEMMA NoneKept ==
    ASSUME YmodemTypes, Kept, Counted, Held, TakenIsWhole, MovesOn,
           UNCHANGED <<who, expected, got, ior, block0, buf, stage, tx, k, attempt>>,
           \/ toR' \in {toR, <<>>}
           \/ toR # <<>> /\ toR' \in {Tail(toR), <<Bad>> \o Tail(toR)}
    PROVE  Kept' /\ Counted' /\ Held' /\ TakenIsWhole'
<1>1. got \in Nat /\ k \in Nat /\ k <= Packets /\ Packets \in Nat /\ toR \in Seq(Messages)
  BY Constants DEF YmodemTypes
<1>2. PICK last \in Nat : KeptUpTo(last) BY DEF Kept
<1>3. Ordered(toR', last, k)
  <2>1. Ordered(toR, last, k) BY <1>2 DEF KeptUpTo
  <2>2. Ordered(<<>>, last, k) BY DEF Ordered
  <2>3. ASSUME toR # <<>> PROVE Ordered(Tail(toR), last, k) /\ Ordered(<<Bad>> \o Tail(toR), last, k)
    <3>1. Tail(toR) \in Seq(Messages) BY <1>1, <2>3, TailFacts
    <3> QED BY <1>1, <2>1, <2>3, <3>1, TailOrdered, BadOrdered
  <2> QED BY <2>1, <2>2, <2>3
<1>4. AtWork' => AtWork BY DEF MovesOn, AtWork
<1>5. Exact => Exact' BY <1>4 DEF Exact, InBlock
<1>6. KeptUpTo(last)' BY <1>2, <1>3, <1>5 DEF KeptUpTo
<1>7. Kept' BY <1>6 DEF Kept
<1>8. got >= Packets => got = Packets BY <1>1, <1>2 DEF KeptUpTo
<1>9. \A v : Whole(v)' <=> Whole(v) BY DEF Whole
<1>10. Counted' BY <1>8, <1>9 DEF Counted, MovesOn
<1>11. who = "ymrecv" /\ AtWork' /\ rx' # "next" => AtWork /\ rx # "next"
  BY DEF AtWork, MovesOn, YmodemTypes
<1>12. Held' BY <1>4, <1>11 DEF Held
<1>13. TakenIsWhole' BY <1>9 DEF TakenIsWhole
<1> QED BY <1>7, <1>10, <1>12, <1>13

LEMMA HeaderStep ==
    ASSUME YmodemTypes, Kept, Counted, Held, TakenIsWhole,
           \/ PollHeader \/ NoSender \/ HeaderComes \/ FinComes \/ HeaderEot \/ HeaderBad
           \/ HeaderCancelled
    PROVE  Kept' /\ Counted' /\ Held' /\ TakenIsWhole'
<1>1. UNCHANGED <<who, expected, got, ior, block0, buf, stage, tx, k, attempt>> /\ rx \in {"header", "next"}
  BY DEF PollHeader, NoSender, HeaderComes, FinComes, HeaderEot, HeaderBad, HeaderCancelled,
         InHeader, buffers, sender
<1>2. \/ toR' \in {toR, <<>>}
      \/ toR # <<>> /\ toR' \in {Tail(toR), <<Bad>> \o Tail(toR)}
  BY DEF PollHeader, NoSender, HeaderComes, FinComes, HeaderEot, HeaderBad, HeaderCancelled,
         Comes, line
<1>3. who \in {"ymodem", "ymrecv"} BY DEF YmodemTypes
<1>4. MovesOn
  BY <1>1, <1>3 DEF PollHeader, NoSender, HeaderComes, FinComes, HeaderEot, HeaderBad,
         HeaderCancelled, Goes, WithoutHeader, MovesOn
<1> QED BY <1>1, <1>2, <1>4, NoneKept

LEMMA DataStep ==
    ASSUME YmodemTypes, Kept, Counted, Held, TakenIsWhole,
           \/ Again \/ OutOfStep \/ DataBad \/ DataTimeout \/ DataCancelled \/ FirstEot
           \/ SecondEot \/ EotEnds \/ Check
    PROVE  Kept' /\ Counted' /\ Held' /\ TakenIsWhole'
<1>1. UNCHANGED <<who, expected, got, ior, block0, buf, stage, tx, k, attempt>>
  BY DEF Again, OutOfStep, DataBad, DataTimeout, DataCancelled, FirstEot, SecondEot, EotEnds,
         Check, InData, buffers, sender, counters
<1>2. \/ toR' \in {toR, <<>>}
      \/ toR # <<>> /\ toR' \in {Tail(toR), <<Bad>> \o Tail(toR)}
  BY DEF Again, OutOfStep, DataBad, DataTimeout, DataCancelled, FirstEot, SecondEot, EotEnds,
         Check, Comes, line
<1>3. who \in {"ymodem", "ymrecv"} /\ got \in Nat /\ Packets \in Nat BY Constants DEF YmodemTypes
<1>4. MovesOn
  <2>1. CASE Again BY <2>1 DEF Again, MovesOn
  <2>2. CASE OutOfStep BY <2>2 DEF OutOfStep, GiveUp, Goes, MovesOn
  <2>3. CASE DataBad BY <2>3 DEF DataBad, AskAgain, GiveUp, Goes, MovesOn
  <2>4. CASE DataTimeout BY <2>4 DEF DataTimeout, AskAgain, GiveUp, Goes, MovesOn
  <2>5. CASE DataCancelled BY <2>5 DEF DataCancelled, Goes, MovesOn
  <2>6. CASE FirstEot
    <3>1. ~Short => got >= Packets BY <1>3 DEF Short
    <3> QED BY <1>3, <2>6, <3>1 DEF FirstEot, InData, GiveUp, Goes, MovesOn
  <2>7. CASE SecondEot BY <2>7 DEF SecondEot, InData, Goes, MovesOn
  <2>8. CASE EotEnds BY <2>8 DEF EotEnds, Goes, MovesOn
  <2>9. CASE Check BY <2>9 DEF Check, Goes, MovesOn
  <2> QED BY <2>1, <2>2, <2>3, <2>4, <2>5, <2>6, <2>7, <2>8, <2>9
<1> QED BY <1>1, <1>2, <1>4, NoneKept

-----------------------------------------------------------------------------
(* The last block's last packet is in, and nothing was skipped. *)
LEMMA AllKept ==
    ASSUME YmodemTypes, Kept, got = Packets, ~ior, AtWork
    PROVE  /\ block0 = Content(attempt, 0)
           /\ \A b \in Block : b # 0 => stage[b] = Content(attempt, b)
<1>1. /\ got \in Nat /\ k \in Nat /\ k <= Packets /\ Packets \in Nat
      /\ Blocks \in Nat /\ Blocks > 0
  BY Constants DEF YmodemTypes
<1>2. PICK last \in Nat : KeptUpTo(last) BY DEF Kept
<1>3. last = got BY <1>1, <1>2 DEF KeptUpTo
<1>4. Exact BY <1>2, <1>3 DEF KeptUpTo
<1>5. InBlock = Blocks BY LastPlace DEF InBlock
<1>6. \A b \in Block : b # 0 => 0 < b /\ b < InBlock BY <1>1, <1>5 DEF Block
<1> QED BY <1>1, <1>4, <1>5, <1>6 DEF Exact

(* Block 0 goes in: the file holds the package, or is left as it is. *)
LEMMA StoreStep ==
    ASSUME YmodemTypes, Kept, Counted, Held, TakenIsWhole, Store
    PROVE  Kept' /\ Counted' /\ Held' /\ TakenIsWhole'
<1>1. /\ who \in {"ymodem", "ymrecv"} /\ rx = "store" /\ attempt \in Nat /\ 0 \in Block
      /\ stage \in [Block -> Contents] /\ AtWork
  BY Constants DEF YmodemTypes, Store, AtWork
<1>2. UNCHANGED <<who, expected, got, ior, block0, buf, tx, k, toR, attempt>>
  BY DEF Store, buffers, sender
<1>3. CASE stage' = stage /\ rx' = "failed"
  <2>1. MovesOn BY <1>3 DEF MovesOn
  <2> QED BY <1>2, <1>3, <2>1, NoneKept
<1>4. CASE AllCame /\ stage' = [stage EXCEPT ![0] = block0]
           /\ rx' = IF who = "ymodem" THEN "check" ELSE "next"
  <2>1. got = Packets /\ ~ior BY <1>1, <1>4 DEF AllCame, Counted
  <2>2. /\ block0 = Content(attempt, 0)
        /\ \A b \in Block : b # 0 => stage[b] = Content(attempt, b)
    BY <1>1, <2>1, AllKept
  <2>3. stage'[0] = Content(attempt, 0) /\ \A b \in Block : b # 0 => stage'[b] = stage[b]
    BY <1>1, <1>4, <2>2
  <2>4. Whole(attempt)' BY <1>2, <2>2, <2>3 DEF Whole
  <2>5. Kept'
    <3>1. PICK last \in Nat : KeptUpTo(last) BY DEF Kept
    <3>2. Exact => Exact' BY <1>1, <1>2, <2>3 DEF Exact, InBlock, AtWork, Block
    <3>3. KeptUpTo(last)' BY <1>2, <3>1, <3>2 DEF KeptUpTo
    <3> QED BY <3>3 DEF Kept
  <2>6. Counted' BY <1>1, <1>2, <1>4, <2>4 DEF Counted
  <2>7. Held'
    <3>1. \A v \in Nat : v > attempt => stage'[0] # Content(v, 0) BY <1>1, <2>3, ContentFacts
    <3> QED BY <1>1, <1>2, <1>4, <3>1 DEF Held, AtWork
  <2>8. TakenIsWhole'
    <3>1. \A v \in Nat : stage'[0] = Content(v, 0) => v = attempt BY <1>1, <2>3, ContentFacts
    <3>2. \A v \in 0..Attempts : v \in Nat BY Constants
    <3> QED BY <1>2, <2>4, <3>1, <3>2 DEF TakenIsWhole
  <2> QED BY <2>5, <2>6, <2>7, <2>8
<1> QED BY <1>1, <1>3, <1>4 DEF Store, Goes, GiveUp

-----------------------------------------------------------------------------
(* A packet is kept: its number is above the last one's, and if none was
   skipped it is the next one of the package. *)
LEMMA KeptHigher ==
    ASSUME YmodemTypes, Keep, NEW last \in Nat, KeptUpTo(last)
    PROVE  LET n == Head(toR).n IN
           /\ n \in Nat /\ last < n /\ n <= k
           /\ Ordered(toR', n, k) /\ expected' = Number(n + 1)
<1> DEFINE n == Head(toR).n
<1>1. toR \in Seq(Messages) /\ toR # <<>> /\ Head(toR).kind = "packet" /\ k \in Nat
  BY Constants DEF Keep, YmodemTypes
<1>2. toR' = Tail(toR) /\ Number(n) = expected /\ expected' = Number(expected + 1)
  BY DEF Keep, ExpectNext
<1>3. Ordered(toR, last, k) /\ expected = Number(last + 1) BY DEF KeptUpTo
<1>4. n \in last..k /\ Ordered(toR', n, k) BY <1>1, <1>2, <1>3, TailOrdered
<1>5. n \in Nat /\ n <= k /\ last <= n BY <1>1, <1>4
<1> HIDE DEF n
<1>6. n # last BY <1>2, <1>3, Numbers
<1>7. Number(n + 1) = Number(Number(n) + 1) BY <1>5, Numbers
<1>8. last < n BY <1>5, <1>6
<1> QED BY <1>2, <1>4, <1>5, <1>7, <1>8 DEF n

(* What is held after packet got + 1, when it was the next one. *)
LEMMA KeepExact ==
    ASSUME YmodemTypes, Keep, Exact, Head(toR).n = got + 1, got < Packets
    PROVE  Exact'
<1> DEFINE d == Data(attempt, got + 1)
<1>1. /\ got \in Nat /\ attempt \in Nat /\ attempt' = attempt /\ got' = got + 1 /\ rx = "data"
      /\ PerBlock \in Nat /\ PerBlock > 0 /\ stage \in [Block -> Contents]
      /\ who \in {"ymodem", "ymrecv"}
  BY Constants DEF YmodemTypes, Keep, InData
<1>2. PICK q, r \in Nat : /\ q = InBlock /\ r = got % PerBlock /\ r < PerBlock
                          /\ q * PerBlock \in Nat /\ got = q * PerBlock + r
                          /\ q \in Block /\ (q = 0 => r = got)
  BY <1>1, Places DEF InBlock
<1>3. /\ r = PerBlock - 1 => BlockEnds /\ InBlock' = q + 1 /\ (got % PerBlock)' = 0
      /\ r # PerBlock - 1 => ~BlockEnds /\ InBlock' = q /\ (got % PerBlock)' = r + 1
  <2>1. /\ r = PerBlock - 1 => (got + 1) % PerBlock = 0 /\ (got + 1) \div PerBlock = q + 1
        /\ r # PerBlock - 1 => (got + 1) % PerBlock = r + 1 /\ (got + 1) \div PerBlock = q
    BY <1>1, <1>2, OneMore DEF InBlock
  <2> QED BY <1>1, <2>1 DEF InBlock, BlockEnds
<1>4. d = Data(attempt, q * PerBlock + (r + 1))
  <2>1. got + 1 = q * PerBlock + (r + 1) BY <1>1, <1>2
  <2> QED BY <2>1
<1>5. Append(From(attempt, q, r), d) = From(attempt, q, r + 1)
  <2>1. \A n \in Nat : Append(From(attempt, q, n), Data(attempt, q * PerBlock + (n + 1)))
                       = From(attempt, q, n + 1)
    BY <1>1, FromFacts, Zenon
  <2> QED BY <1>4, <2>1, Zenon
<1>6. From(attempt, q, PerBlock) = Content(attempt, q) BY <1>1, <1>2, FromFacts
<1>7. From(attempt, q + 1, 0) = <<>> BY <1>1, <1>2, FromFacts
<1>8. /\ block0' = IF q = 0 THEN Append(block0, d) ELSE block0
      /\ buf' = IF q = 0 \/ BlockEnds THEN <<>> ELSE Append(buf, d)
  BY <1>2 DEF Keep
<1>9. \/ /\ stage' = IF WritesNow THEN [stage EXCEPT ![q] = Written(Append(buf, d))] ELSE stage
         /\ rx' = rx /\ ior' = ior
      \/ WritesNow /\ stage' = stage /\ (ior' = TRUE \/ rx' = "failed")
  BY <1>2 DEF Keep, GiveUp, Goes
<1> HIDE DEF d
<1>10. /\ block0 = IF q = 0 THEN From(attempt, 0, r) ELSE Content(attempt, 0)
       /\ buf = IF q = 0 THEN <<>> ELSE From(attempt, q, r)
       /\ ~ior => \A b \in Block : 0 < b /\ b < q => stage[b] = Content(attempt, b)
  BY <1>1, <1>2 DEF Exact, AtWork
<1>11. CASE r # PerBlock - 1
  <2>1. ~BlockEnds /\ InBlock' = q /\ (got % PerBlock)' = r + 1 BY <1>3, <1>11
  <2>2. block0' = IF q = 0 THEN From(attempt, 0, r + 1) ELSE Content(attempt, 0)
    BY <1>5, <1>8, <1>10
  <2>3. q = 0 => got' = r + 1 BY <1>1, <1>2
  <2>4. buf' = IF q = 0 THEN <<>> ELSE From(attempt, q, r + 1) BY <1>5, <1>8, <1>10, <2>1
  <2>5. stage' = stage /\ ior' = ior BY <1>9, <2>1 DEF WritesNow
  <2> QED BY <1>1, <1>10, <2>1, <2>2, <2>3, <2>4, <2>5 DEF Exact
<1>12. CASE r = PerBlock - 1
  <2>1. BlockEnds /\ InBlock' = q + 1 /\ (got % PerBlock)' = 0 /\ r + 1 = PerBlock
    BY <1>1, <1>3, <1>12
  <2>2. Append(From(attempt, q, r), d) = Content(attempt, q) BY <1>5, <1>6, <2>1
  <2>3. block0' = Content(attempt, 0) BY <1>8, <1>10, <2>2
  <2>4. buf' = <<>> BY <1>8, <2>1
  <2>5. q + 1 # 0 BY <1>2
  <2>6. ASSUME AtWork', ~ior', NEW b \in Block, 0 < b, b < q + 1
        PROVE  stage'[b] = Content(attempt, b)
    <3>1. q # 0 /\ b \in Nat /\ (b < q \/ b = q) BY <1>2, <2>6 DEF Block
    <3>2. stage' = IF WritesNow THEN [stage EXCEPT ![q] = Written(Append(buf, d))] ELSE stage
      BY <1>9, <2>6 DEF AtWork
    <3>3. ior' = ior BY <1>9, <2>6 DEF AtWork
    <3>4. stage' = [stage EXCEPT ![q] = Written(Append(buf, d))]
      BY <1>2, <2>1, <2>6, <3>1, <3>2, <3>3 DEF WritesNow
    <3>5. Written(Append(buf, d)) = Content(attempt, q)
      BY <1>2, <1>10, <2>2, <3>1 DEF Written
    <3>6. b < q => stage[b] = Content(attempt, b) BY <1>10, <2>6, <3>3
    <3> QED BY <1>1, <2>6, <3>1, <3>4, <3>5, <3>6
  <2> QED BY <1>1, <1>7, <2>1, <2>3, <2>4, <2>5, <2>6 DEF Exact
<1> QED BY <1>11, <1>12

LEMMA KeepStep ==
    ASSUME YmodemTypes, Kept, Counted, Held, TakenIsWhole, Keep
    PROVE  Kept' /\ Counted' /\ Held' /\ TakenIsWhole'
<1>1. /\ got \in Nat /\ k \in Nat /\ k <= Packets /\ Packets \in Nat /\ attempt \in Nat
      /\ PerBlock \in Nat /\ PerBlock > 0 /\ PerBlock <= Packets /\ 0 \in Block
      /\ stage \in [Block -> Contents] /\ who \in {"ymodem", "ymrecv"}
  BY Constants DEF YmodemTypes
<1>2. /\ UNCHANGED <<who, tx, k, attempt>> /\ rx = "data" /\ got' = got + 1
      /\ rx' \in {"data", "failed"}
  BY DEF Keep, InData, sender, GiveUp, Goes
<1>3. PICK last \in Nat : KeptUpTo(last) BY DEF Kept
<1>4. PICK n \in Nat : /\ n = Head(toR).n /\ last < n /\ n <= k
                       /\ Ordered(toR', n, k) /\ expected' = Number(n + 1)
  BY <1>3, KeptHigher
<1>5. got <= last /\ got + 1 <= n /\ got < Packets BY <1>1, <1>3, <1>4 DEF KeptUpTo
<1>6. Kept'
  <2>1. ASSUME got + 1 = n PROVE Exact'
    <3>1. got = last BY <1>1, <1>4, <1>5, <2>1
    <3>2. Exact BY <1>3, <3>1 DEF KeptUpTo
    <3> QED BY <1>4, <1>5, <2>1, <3>2, KeepExact
  <2>2. n \in 0..k' /\ got' <= n BY <1>1, <1>2, <1>4, <1>5
  <2>3. KeptUpTo(n)' BY <1>2, <1>4, <2>1, <2>2 DEF KeptUpTo
  <2> QED BY <2>3 DEF Kept
<1>7. /\ InBlock \in Block
      /\ got < PerBlock <=> InBlock = 0
      /\ got + 1 = PerBlock => BlockEnds
  <2>1. PICK q, r \in Nat : /\ q = got \div PerBlock /\ q \in Block /\ (got < PerBlock <=> q = 0)
                            /\ r = got % PerBlock /\ (q = 0 => r = got)
    BY <1>1, <1>5, Places
  <2>2. got + 1 = PerBlock => r = PerBlock - 1 BY <1>1, <2>1
  <2>3. r = PerBlock - 1 => (got + 1) % PerBlock = 0 BY <1>1, <2>1, OneMore
  <2> QED BY <2>1, <2>2, <2>3 DEF InBlock, BlockEnds
(* The file: left alone, block 0 cleared, or a later block replaced. *)
<1>8. \/ stage' = stage
      \/ InBlock = 0 /\ who = "ymodem" /\ ~ior /\ stage'[0] = Zeros
      \/ InBlock # 0 /\ ~ior /\ stage'[0] = stage[0]
  <2>1. stage' = stage \/ (WritesNow /\ \E c : stage' = [stage EXCEPT ![InBlock] = Written(c)])
    BY DEF Keep
  <2>2. ASSUME WritesNow, NEW c, stage' = [stage EXCEPT ![InBlock] = Written(c)]
        PROVE  \/ InBlock = 0 /\ who = "ymodem" /\ ~ior /\ stage'[0] = Zeros
               \/ InBlock # 0 /\ ~ior /\ stage'[0] = stage[0]
    BY <1>1, <1>7, <2>2 DEF WritesNow, Written, Zeroed
  <2> QED BY <2>1, <2>2
<1>9. /\ who = "ymrecv" => ior' = ior
      /\ ~ior' => ~ior
  BY DEF Keep
<1>10. Counted' BY <1>2, <1>9 DEF Counted
<1>11. \A v \in Nat : Zeros # Content(v, 0) BY ContentFacts
<1>12. Held'
  <2>1. \A v \in Nat : v > attempt => stage'[0] # Content(v, 0) BY <1>8, <1>11 DEF Held
  <2>2. who = "ymrecv" => stage'[0] # Content(attempt, 0)
    <3>1. who = "ymrecv" => stage'[0] = stage[0] BY <1>8
    <3> QED BY <1>2, <3>1 DEF Held, AtWork
  <2>3. ASSUME who = "ymodem", got + 1 >= PerBlock, ~ior', rx' # "failed"
        PROVE  stage'[0] = Zeros
    <3>1. ~ior BY <1>9, <2>3
    <3>2. CASE got >= PerBlock
      <4>1. stage[0] = Zeros BY <1>2, <2>3, <3>1, <3>2 DEF Held, AtWork
      <4> QED BY <1>8, <4>1
    <3>3. CASE got < PerBlock
      <4>1. InBlock = 0 /\ BlockEnds BY <1>1, <1>7, <2>3, <3>3
      <4>2. WritesNow BY <2>3, <3>1, <4>1 DEF WritesNow, Zeroed
      <4>3. \E c : stage' = [stage EXCEPT ![InBlock] = Written(c)]
        BY <2>3, <4>2 DEF Keep
      <4> QED BY <1>1, <4>1, <4>3 DEF Written
    <3> QED BY <1>1, <3>2, <3>3
  <2> QED BY <1>2, <2>1, <2>2, <2>3 DEF Held, AtWork
<1>13. TakenIsWhole'
  <2>1. SUFFICES ASSUME NEW v \in 0..Attempts, v = attempt \/ who = "ymodem",
                        stage'[0] = Content(v, 0)
                 PROVE  Whole(v)'
    BY <1>2 DEF TakenIsWhole
  <2>2. v \in Nat BY Constants
  <2>3. CASE stage' = stage
    <3>1. Whole(v) BY <2>1, <2>3 DEF TakenIsWhole
    <3> QED BY <2>3, <3>1 DEF Whole
  <2>4. CASE InBlock = 0 /\ stage'[0] = Zeros BY <1>11, <2>1, <2>2, <2>4
  <2>5. CASE InBlock # 0 /\ ~ior /\ stage'[0] = stage[0]
    <3>1. got >= PerBlock BY <1>1, <1>7, <2>5
    <3>2. CASE who = "ymodem"
      <4>1. stage[0] = Zeros BY <1>2, <2>5, <3>1, <3>2 DEF Held, AtWork
      <4> QED BY <1>11, <2>1, <2>2, <2>5, <4>1
    <3>3. CASE who = "ymrecv"
      <4>1. stage[0] # Content(attempt, 0) BY <1>2, <3>3 DEF Held, AtWork
      <4> QED BY <2>1, <2>5, <3>3, <4>1
    <3> QED BY <1>1, <3>2, <3>3
  <2> QED BY <1>8, <2>3, <2>4, <2>5
<1> QED BY <1>6, <1>10, <1>12, <1>13

-----------------------------------------------------------------------------
(* The sender: what it sends is numbered from its own packet, which only
   goes up. *)
LEMMA Sent ==
    ASSUME YmodemTypes, Kept, Counted, Held, TakenIsWhole,
           UNCHANGED <<who, rx, expected, got, ior, block0, buf, stage, attempt>>,
           k' \in Nat, k <= k', tx' \in {"idle", "header", "c"} => k' = 0,
           toR' = toR \/ \E m \in Messages : /\ toR' = Append(toR, m)
                                             /\ m.kind = "packet" => m.n = k'
    PROVE  Kept' /\ Counted' /\ Held' /\ TakenIsWhole'
<1>1. got \in Nat /\ k \in Nat /\ toR \in Seq(Messages) BY Constants DEF YmodemTypes
<1>2. PICK last \in Nat : KeptUpTo(last) BY DEF Kept
<1>3. last <= k /\ Ordered(toR, last, k) BY <1>1, <1>2 DEF KeptUpTo
<1>4. Eot \in Messages /\ Eot.kind # "packet" BY MessageTypes
<1>5. Ordered(toR', last, k')
  <2>1. CASE toR' = toR BY <1>1, <1>3, <1>4, <2>1, AppendOrdered
  <2>2. CASE toR' # toR
    <3>1. PICK m \in Messages : toR' = Append(toR, m) /\ (m.kind = "packet" => m.n = k') BY <2>2
    <3> QED BY <1>1, <1>3, <3>1, AppendOrdered
  <2> QED BY <2>1, <2>2
<1>6. AtWork' = AtWork BY DEF AtWork
<1>7. Exact => Exact' BY <1>6 DEF Exact, InBlock
<1>8. last \in 0..k' BY <1>1, <1>3
<1>9. KeptUpTo(last)' BY <1>2, <1>5, <1>7, <1>8 DEF KeptUpTo
<1>10. \A v : Whole(v)' <=> Whole(v) BY DEF Whole
<1>11. Counted' BY <1>10 DEF Counted
<1>12. Held' BY <1>6 DEF Held
<1> QED BY <1>9, <1>10, <1>11, <1>12 DEF Kept, TakenIsWhole

LEMMA SenderSteps ==
    ASSUME YmodemTypes, Kept, Counted, Held, TakenIsWhole, SenderStep
    PROVE  Kept' /\ Counted' /\ Held' /\ TakenIsWhole'
<1>1. UNCHANGED <<who, rx, expected, got, ior, block0, buf, stage, attempt>>
  BY DEF SenderStep, SendHeader, HeaderTaken, StartData, HeaderAgain, NextPacket, SameAgain,
         EotAgain, EotTaken, EndBatch, Finished, Stopped, Ignore, Sender, counters, buffers
<1>2. k \in 0..Packets /\ Packets \in Nat /\ Packets >= 1 /\ k \in Nat BY Constants DEF YmodemTypes
<1>3. tx \in {"idle", "header", "c"} => k = 0 BY DEF Counted
<1>4. /\ \A n \in 0..Packets : Pkt(n) \in Messages /\ Pkt(n).n = n
      /\ Eot \in Messages /\ Fin \in Messages /\ Eot.kind # "packet" /\ Fin.kind # "packet"
  BY MessageTypes
<1> DEFINE Sent1 == toR' = toR \/ \E m \in Messages : /\ toR' = Append(toR, m)
                                                      /\ m.kind = "packet" => m.n = k'
           Steady == tx' \in {"idle", "header", "c"} => k' = 0
<1>5. CASE SendHeader \/ HeaderAgain
  <2>1. toR' = Append(toR, Pkt(0)) /\ k' = k /\ tx' = "header" /\ k = 0
    BY <1>3, <1>5 DEF SendHeader, HeaderAgain, Sends
  <2>2. Pkt(0) \in Messages /\ Pkt(0).n = 0 BY <1>2, <1>4
  <2> QED BY <1>1, <1>2, <2>1, <2>2, Sent
<1>6. CASE HeaderTaken \/ EotTaken \/ Finished \/ Stopped \/ Ignore
  <2>1. toR' = toR /\ k' = k /\ (tx' = tx \/ (tx = "header" /\ tx' = "c") \/ tx' \in {"batch", "over"})
    BY <1>6 DEF HeaderTaken, EotTaken, Finished, Stopped, Ignore, sender
  <2> QED BY <1>1, <1>2, <1>3, <2>1, Sent
<1>7. CASE StartData
  <2>1. toR' = Append(toR, Pkt(1)) /\ k' = 1 /\ tx' = "data" /\ k = 0
    BY <1>3, <1>7 DEF StartData, Sends
  <2>2. Pkt(1) \in Messages /\ Pkt(1).n = 1 BY <1>2, <1>4
  <2> QED BY <1>1, <2>1, <2>2, Sent
<1>8. CASE NextPacket
  <2>1. CASE k < Packets
    <3>1. toR' = Append(toR, Pkt(k + 1)) /\ k' = k + 1 /\ tx' = "data"
      BY <1>8, <2>1 DEF NextPacket, Sends
    <3>2. k + 1 \in 0..Packets BY <1>2, <2>1
    <3>3. Pkt(k + 1) \in Messages /\ Pkt(k + 1).n = k + 1 BY <1>4, <3>2
    <3> QED BY <1>1, <1>2, <3>1, <3>3, Sent
  <2>2. CASE ~(k < Packets)
    <3>1. toR' = Append(toR, Eot) /\ k' = k /\ tx' = "eot" BY <1>8, <2>2 DEF NextPacket, Sends
    <3> QED BY <1>1, <1>2, <1>4, <3>1, Sent
  <2> QED BY <2>1, <2>2
<1>9. CASE SameAgain
  <2>1. k' = k /\ tx' = tx /\ tx \in {"data", "eot", "end"} BY <1>9 DEF SameAgain, sender
  <2>2. \E m \in {Pkt(k), Eot, Fin} : toR' = Append(toR, m) BY <1>9, <2>1 DEF SameAgain, Sends
  <2>3. \A m \in {Pkt(k), Eot, Fin} : m \in Messages /\ (m.kind = "packet" => m.n = k)
    BY <1>2, <1>4
  <2> QED BY <1>1, <1>2, <2>1, <2>2, <2>3, Sent
<1>10. CASE EotAgain \/ EndBatch
  <2>1. /\ toR' = Append(toR, Eot) \/ toR' = Append(toR, Fin)
        /\ k' = k /\ tx' \in {"eot", "end"}
    BY <1>10 DEF EotAgain, EndBatch, Sends, sender
  <2> QED BY <1>1, <1>2, <1>4, <2>1, Sent
<1> QED BY <1>5, <1>6, <1>7, <1>8, <1>9, <1>10 DEF SenderStep

-----------------------------------------------------------------------------
(* The line, and what stops a transfer. *)
LEMMA Stops ==
    ASSUME YmodemTypes, Kept, Counted, Held, TakenIsWhole,
           LosePacket \/ LoseAnswer \/ SenderStops \/ Cut
    PROVE  Kept' /\ Counted' /\ Held' /\ TakenIsWhole'
<1>1. UNCHANGED <<who, expected, got, ior, block0, buf, k, attempt>>
  BY DEF LosePacket, LoseAnswer, SenderStops, Cut, Loss, counters, buffers, sender
<1>2. k \in Nat /\ k <= k /\ attempt \in Nat /\ stage \in [Block -> Contents] /\ 0 \in Block
  BY Constants DEF YmodemTypes
<1>3. CASE LosePacket \/ LoseAnswer
  <2>1. UNCHANGED <<stage, tx, rx>> BY <1>3 DEF LosePacket, LoseAnswer, Loss, sender
  <2>2. \/ toR' \in {toR, <<>>}
        \/ toR # <<>> /\ toR' \in {Tail(toR), <<Bad>> \o Tail(toR)}
    BY <1>3 DEF LosePacket, LoseAnswer
  <2>3. MovesOn BY <2>1 DEF MovesOn
  <2> QED BY <1>1, <2>1, <2>2, <2>3, NoneKept
<1>4. CASE SenderStops
  <2>1. UNCHANGED <<rx, stage>> /\ tx' = "over" /\ (toR' = toR \/ toR' = Append(toR, Cancels))
    BY <1>4 DEF SenderStops
  <2>2. Cancels \in Messages /\ Cancels.kind # "packet" BY MessageTypes
  <2> QED BY <1>1, <1>2, <2>1, <2>2, Sent
<1>5. CASE Cut
  <2>1. UNCHANGED tx /\ rx' = "off" /\ toR' = <<>> BY <1>5 DEF Cut, sender
  <2>2. CASE stage' = stage
    <3>1. MovesOn BY <2>1 DEF MovesOn
    <3> QED BY <1>1, <2>1, <2>2, <3>1, NoneKept
  <2>3. CASE stage' = [stage EXCEPT ![0] = Zeros]
    <3>1. stage'[0] = Zeros /\ \A v \in Nat : stage'[0] # Content(v, 0)
      BY <1>2, <2>3, ContentFacts
    <3>2. PICK last \in Nat : KeptUpTo(last) BY DEF Kept
    <3>3. Ordered(<<>>, last, k) BY DEF Ordered
    <3>4. ~AtWork' BY <2>1 DEF AtWork
    <3>5. Exact => Exact' BY <1>1, <3>4 DEF Exact, InBlock
    <3>6. KeptUpTo(last)' BY <1>1, <2>1, <3>2, <3>3, <3>5 DEF KeptUpTo
    <3>7. Kept' BY <3>6 DEF Kept
    <3>8. Counted' BY <1>1, <2>1 DEF Counted
    <3>9. Held' BY <3>1, <3>4 DEF Held
    <3>10. \A v \in 0..Attempts : v \in Nat BY Constants
    <3> QED BY <3>1, <3>7, <3>8, <3>9, <3>10 DEF TakenIsWhole
  <2> QED BY <1>5, <2>2, <2>3 DEF Cut
<1> QED BY <1>3, <1>4, <1>5

(* Nothing is kept yet of a new transfer. *)
Fresh == /\ attempt \in Nat /\ k = 0 /\ got = 0 /\ expected = 1
         /\ block0 = <<>> /\ buf = <<>> /\ toR = <<>>
LEMMA Begins == Fresh => Kept
<1> SUFFICES ASSUME Fresh PROVE Kept OBVIOUS
<1> USE DEF Fresh
<1>1. PerBlock \in Nat /\ PerBlock > 0 /\ Modulus \in Nat /\ Modulus > 2 BY Constants
<1>2. 0 \div PerBlock = 0 /\ 0 % PerBlock = 0
  <2>1. 0 = 0 * PerBlock + 0 BY <1>1
  <2> QED BY <1>1, <2>1, DivisionOf
<1>3. From(attempt, 0, 0) = <<>> BY FromFacts
<1>4. Exact BY <1>2, <1>3 DEF Exact, InBlock, Block
<1>5. Number(0 + 1) = 1
  <2>1. 1 = 0 * Modulus + 1 BY <1>1
  <2>2. 1 % Modulus = 1 BY <1>1, <2>1, DivisionOf
  <2> QED BY <2>2 DEF Number
<1>6. KeptUpTo(0) BY <1>4, <1>5 DEF KeptUpTo, Ordered
<1> QED BY <1>6 DEF Kept

LEMMA BeginsNext == Fresh' => Kept'
BY Begins, PTL

(* The next transfer: its version is in no file. *)
LEMMA RestartStep ==
    ASSUME YmodemTypes, Kept, Counted, Held, TakenIsWhole, Restart
    PROVE  Kept' /\ Counted' /\ Held' /\ TakenIsWhole'
<1>1. attempt \in Nat /\ PerBlock \in Nat /\ PerBlock > 0 /\ who \in {"ymodem", "ymrecv"}
  BY Constants DEF YmodemTypes
<1>2. /\ attempt' = attempt + 1 /\ UNCHANGED <<who, stage>> /\ rx' = "header"
      /\ expected' = 1 /\ got' = 0 /\ ior' = FALSE /\ block0' = <<>> /\ buf' = <<>>
      /\ tx' = "idle" /\ k' = 0 /\ toR' = <<>>
  BY DEF Restart, Clear
<1>3. Kept'
  <2>1. attempt' \in Nat BY <1>1, <1>2
  <2> QED BY <1>2, <2>1, BeginsNext DEF Fresh
<1>4. Counted' BY <1>2 DEF Counted
<1>5. \A v \in Nat : v > attempt => stage'[0] # Content(v, 0) BY <1>2 DEF Held
<1>6. Held'
  <2>1. \A v \in Nat : v > attempt' => v > attempt BY <1>1, <1>2
  <2>2. attempt' \in Nat /\ attempt' > attempt /\ ~(got' >= PerBlock) BY <1>1, <1>2
  <2> QED BY <1>5, <2>1, <2>2 DEF Held
<1>7. TakenIsWhole'
  <2>1. SUFFICES ASSUME NEW v \in 0..Attempts, v = attempt' \/ who = "ymodem",
                        stage[0] = Content(v, 0)
                 PROVE  Whole(v)
    BY <1>2 DEF TakenIsWhole, Whole
  <2>2. v # attempt' BY <1>1, <1>2, <1>5, <2>1
  <2> QED BY <2>1, <2>2 DEF TakenIsWhole
<1> QED BY <1>3, <1>4, <1>6, <1>7

LEMMA StepInv == ASSUME YmodemInv, [Next]_vars PROVE YmodemInv'
<1>1. YmodemTypes /\ Kept /\ Counted /\ Held /\ TakenIsWhole BY DEF YmodemInv
<1>2. YmodemTypes' BY <1>1, StepTypes
<1>3. CASE UNCHANGED vars
  <2>1. UNCHANGED <<who, expected, got, ior, block0, buf, stage, tx, k, attempt, rx, toR>>
    BY <1>3 DEF vars, counters, buffers, sender, line
  <2>2. MovesOn BY <2>1 DEF MovesOn
  <2> QED BY <1>1, <1>2, <2>1, <2>2, NoneKept DEF YmodemInv
<1>4. CASE Receiver
  <2>1. Kept' /\ Counted' /\ Held' /\ TakenIsWhole'
    BY <1>1, <1>4, HeaderStep, KeepStep, DataStep, StoreStep DEF Receiver
  <2> QED BY <1>2, <2>1 DEF YmodemInv
<1>5. CASE SenderStep \/ LosePacket \/ LoseAnswer \/ SenderStops \/ Cut \/ Restart
  <2>1. Kept' /\ Counted' /\ Held' /\ TakenIsWhole'
    BY <1>1, <1>5, SenderSteps, Stops, RestartStep
  <2> QED BY <1>2, <2>1 DEF YmodemInv
<1> QED BY <1>3, <1>4, <1>5 DEF Next

LEMMA InitInv == ASSUME Init PROVE YmodemInv
<1>1. YmodemTypes BY InitTypes
<1>2. 0 \in Nat /\ 0 \in Block BY Constants
<1>3. Kept BY <1>2, Begins DEF Init, Fresh
<1>4. Counted BY DEF Init, Counted
<1>5. stage[0] = Content(0, 0) /\ \A b \in Block : stage[b] = Content(0, b) BY <1>2 DEF Init
<1>6. Held
  <2>1. \A v \in Nat : v > 0 => stage[0] # Content(v, 0) BY <1>2, <1>5, ContentFacts
  <2> QED BY <2>1 DEF Init, Held, AtWork
<1>7. TakenIsWhole
  <2>1. \A v \in Nat : stage[0] = Content(v, 0) => v = 0 BY <1>2, <1>5, ContentFacts
  <2>2. \A v \in 0..Attempts : v \in Nat BY Constants
  <2> QED BY <1>5, <2>1, <2>2 DEF TakenIsWhole, Whole
<1> QED BY <1>1, <1>3, <1>4, <1>6, <1>7 DEF YmodemInv

(* The invariant of a transfer: the packets kept rise, up to the sender's,
   and until it is stored block 0 in the file is not the new one, and with
   ymodem.c is zeros once another block may be (ymodem.c:415-498, ymrecv.c:223-251). *)
THEOREM YmodemInvariant == Spec => []YmodemInv
<1>1. YmodemInv /\ [Next]_vars => YmodemInv' BY StepInv
<1> QED BY <1>1, InitInv, PTL DEF Spec

(* For any package, and any number of lost packets, lost answers, cuts and
   refused writes: what lfstage.bin's block 0 names is all there; the
   package goes in whole or not at all (ymodem.c:415-498, ymrecv.c:223-251). *)
THEOREM YmodemTakenIsWhole == Spec => []TakenIsWhole
<1>1. YmodemInv => TakenIsWhole BY DEF YmodemInv
<1> QED BY <1>1, YmodemInvariant, PTL

(* What the receiver reports as taken is what was sent, ymrecv.c's too, which
   does not read it back (ymodem.c:941-946, ymrecv.c:251-263). *)
THEOREM YmodemDoneIsWhole == Spec => []DoneIsWhole
<1>1. YmodemInv => DoneIsWhole BY DEF YmodemInv, Counted, DoneIsWhole
<1> QED BY <1>1, YmodemInvariant, PTL
=============================================================================
