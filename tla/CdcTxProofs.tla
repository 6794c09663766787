----------------------------- MODULE CdcTxProofs -----------------------------
(***************************************************************************)
(* Terminal output: what the host is offered next, and that no byte is     *)
(* lost on the way, for every ring size, packet length and index width.    *)
(***************************************************************************)
EXTENDS CdcTx, CdcRingProofs

(* What the ring holds are the last bytes written, First the oldest. *)
First == next - Waiting

Types ==
    /\ head \in Index /\ tail \in Index /\ last \in Index
    /\ data \in [Place -> Nat]
    /\ next \in Nat
    /\ v5f \in {"idle", "wait", "publish"}
    /\ bridge \in {"poll", "discard", "copy", "free", "arm"}
    /\ n \in 0..PacketSize
    /\ buf \in [0..PacketSize - 1 -> Nat] /\ len \in 0..PacketSize
    /\ armed \in BOOLEAN /\ ing \in BOOLEAN /\ recoded \in BOOLEAN
    /\ got \in Nat

(* The indices: what each side may still do with the ring. *)
Indices ==
    /\ Waiting <= RingSize /\ Waiting < next
    /\ v5f = "publish" => Waiting < RingSize /\ data[At(head)] = next
    /\ bridge = "copy" => n \in 1..Waiting
    /\ bridge = "free" => n \in 1..Waiting
    /\ bridge = "discard" => Count(last, tail) <= Waiting

(* The ring's bytes are consecutive; so are the ones on their way to the packet. *)
RingIs == \A i \in 0..Waiting - 1 : data[At(Advance(tail, i))] = First + i
Copied ==
    /\ bridge = "free" => \A i \in 0..n - 1 : buf[i] = First + i
    /\ bridge = "arm" => \A i \in 0..n - 1 : buf[i] = First - n + i

(* No packet waits while the next is prepared. *)
OnePacket ==
    /\ bridge \in {"copy", "free", "arm"} => ~ing
    /\ armed /\ ~recoded => ing

(* The oldest byte the host has not been offered, or is being offered. *)
Coming == IF bridge = "arm" THEN n ELSE 0
Offered == armed /\ len > 0
Low == IF Offered THEN buf[0] ELSE First - Coming

Order ==
    ~recoded =>
       /\ got < Low
       /\ (got + 1)..(Low - 1) \subseteq gone
       /\ Offered => /\ \A i \in 0..len - 1 : buf[i] = buf[0] + i
                     /\ buf[0] + len <= First
                     /\ (buf[0] + len)..(First - 1) \subseteq gone

TxInv == Types /\ Indices /\ RingIs /\ Copied /\ OnePacket /\ Order

-----------------------------------------------------------------------------
LEMMA TxNumbers ==
    ASSUME Types, Indices
    PROVE  /\ Waiting \in Nat /\ Waiting < IndexLimit /\ Waiting <= RingSize
           /\ First \in Nat /\ First > 0 /\ next = First + Waiting
           /\ PacketSize \in Nat /\ PacketSize > 0
<1>1. head \in Index /\ tail \in Index BY DEF Types
<1>2. Waiting \in Index BY <1>1, CountCases DEF Waiting
<1>3. IndexLimit \in Nat /\ RingSize \in Nat BY RingFacts
<1>4. Waiting \in Nat /\ Waiting < IndexLimit BY <1>2, <1>3 DEF Index
<1>5. PacketSize \in Nat /\ PacketSize > 0 BY PacketAssumption, RingFacts
<1> QED BY <1>4, <1>5 DEF First, Types, Indices

(* The places in the ring: the bytes that wait, and the one at the head. *)
LEMMA TxPlaces ==
    ASSUME Types, Indices
    PROVE  /\ Advance(tail, Waiting) = head
           /\ At(head) \in Place
           /\ \A i \in 0..Waiting - 1 : /\ Advance(tail, i) \in Index
                                        /\ At(Advance(tail, i)) \in Place
                                        /\ Waiting < RingSize => At(Advance(tail, i)) # At(head)
<1>1. /\ head \in Index /\ tail \in Index
      /\ Waiting \in Nat /\ Waiting < IndexLimit
  BY TxNumbers DEF Types
<1>2. Advance(tail, Waiting) = head BY <1>1, AdvanceCount DEF Waiting
<1>3. ASSUME NEW i \in 0..Waiting - 1
      PROVE  /\ Advance(tail, i) \in Index
             /\ At(Advance(tail, i)) \in Place
             /\ Waiting < RingSize => At(Advance(tail, i)) # At(head)
  <2>1. i \in Nat /\ i < Waiting /\ i < IndexLimit BY <1>1, RingFacts
  <2>2. Advance(tail, i) \in Index BY <1>1, <2>1, AdvanceCases
  <2>3. ASSUME Waiting < RingSize PROVE At(Advance(tail, i)) # At(head)
    <3>1. Waiting - i < RingSize BY <1>1, <2>1, <2>3, RingFacts
    <3>2. At(Advance(tail, i)) # At(Advance(tail, Waiting))
      BY <1>1, <2>1, <3>1, PlacesDiffer
    <3> QED BY <1>2, <3>2
  <2> QED BY <2>2, <2>3, AtIsAPlace
<1> QED BY <1>1, <1>2, <1>3, AtIsAPlace

(* The consumer moves the tail on by up to what waits. *)
LEMMA TailMoves ==
    ASSUME Types, Indices, RingIs, NEW c \in 0..Waiting,
           tail' = Advance(tail, c), UNCHANGED <<head, data, next>>
    PROVE  /\ tail' \in Index
           /\ Waiting' = Waiting - c /\ First' = First + c
           /\ RingIs'
<1>1. /\ head \in Index /\ tail \in Index
      /\ Waiting \in Nat /\ Waiting < IndexLimit /\ First \in Nat
      /\ next = First + Waiting /\ IndexLimit \in Nat
  BY TxNumbers, RingFacts DEF Types
<1>2. c \in Nat /\ c <= Waiting /\ c < IndexLimit BY <1>1
<1>3. tail' \in Index BY <1>1, <1>2, AdvanceCases
<1>4. Count(head, Advance(tail, c)) = Count(head, tail) - c
  BY <1>1, <1>2, CountShrinks DEF Waiting
<1>5. Waiting' = Waiting - c BY <1>4 DEF Waiting
<1>6. First' = First + c BY <1>1, <1>2, <1>5 DEF First
<1>7. ASSUME NEW i \in 0..Waiting' - 1
      PROVE  data'[At(Advance(tail', i))] = First' + i
  <2>1. /\ i \in Nat /\ c + i \in 0..Waiting - 1 /\ c + i < IndexLimit
    BY <1>1, <1>2, <1>5
  <2>2. Advance(tail', i) = Advance(tail, c + i) BY <1>1, <1>2, <2>1, AdvanceAdds
  <2>3. data[At(Advance(tail, c + i))] = First + (c + i) BY <2>1 DEF RingIs
  <2> QED BY <2>1, <2>2, <2>3, <1>1, <1>2, <1>6
<1> QED BY <1>3, <1>5, <1>6, <1>7 DEF RingIs

(* What a stretch of the ring holds. *)
LEMMA BytesAre ==
    ASSUME Types, Indices, RingIs, NEW k \in 0..Waiting
    PROVE  Bytes(tail, k) = First..First + k - 1
<1>1. Waiting \in Nat /\ First \in Nat BY TxNumbers
<1>2. \A i \in 0..k - 1 : data[At(Advance(tail, i))] = First + i
  <2>1. \A i \in 0..k - 1 : i \in 0..Waiting - 1 BY <1>1
  <2> QED BY <2>1 DEF RingIs
<1>3. ASSUME NEW b \in Bytes(tail, k) PROVE b \in First..First + k - 1
  <2>1. PICK i \in 0..k - 1 : b = data[At(Advance(tail, i))] BY <1>3 DEF Bytes
  <2>2. b = First + i BY <2>1, <1>2
  <2> QED BY <2>2, <1>1
<1>4. ASSUME NEW b \in First..First + k - 1 PROVE b \in Bytes(tail, k)
  <2> DEFINE j == b - First
  <2>3. b \in Int /\ First <= b /\ b <= First + k - 1 /\ k \in Nat BY <1>1
  <2>1. j \in 0..k - 1 /\ First + j = b BY <2>3, <1>1
  <2>2. data[At(Advance(tail, j))] = b BY <2>1, <1>2
  <2> QED BY <2>1, <2>2 DEF Bytes
<1> QED BY <1>3, <1>4

-----------------------------------------------------------------------------
LEMMA TxInitInv == Init => TxInv
<1> SUFFICES ASSUME Init PROVE TxInv OBVIOUS
<1>1. PacketSize \in Nat /\ PacketSize > 0 BY PacketAssumption, RingFacts
<1>2. 0 \in Index BY RingFacts DEF Index
<1>3. Types
  <2>1. data \in [Place -> Nat] /\ buf \in [0..PacketSize - 1 -> Nat] BY DEF Init
  <2>2. armed \in BOOLEAN /\ ing \in BOOLEAN /\ recoded \in BOOLEAN BY DEF Init
  <2>3. n \in 0..PacketSize /\ len \in 0..PacketSize BY <1>1 DEF Init
  <2>4. v5f \in {"idle", "wait", "publish"}
        /\ bridge \in {"poll", "discard", "copy", "free", "arm"} BY DEF Init
  <2>5. /\ head \in Index /\ tail \in Index /\ last \in Index
        /\ next \in Nat /\ got \in Nat
    BY <1>2 DEF Init
  <2> QED BY <2>1, <2>2, <2>3, <2>4, <2>5 DEF Types
<1>4. Waiting = 0
  <2>1. Count(0, 0) = 0 - 0 BY <1>2, CountCases
  <2> QED BY <2>1 DEF Init, Waiting
<1>5. Indices BY <1>4, RingFacts DEF Init, Indices
<1>6. First = 1 BY <1>4 DEF First, Init
<1>7. RingIs BY <1>4 DEF RingIs
<1>8. Copied /\ OnePacket BY DEF Init, Copied, OnePacket
<1>9. Order BY <1>6 DEF Init, Order, Low, Offered, Coming
<1> QED BY <1>3, <1>5, <1>7, <1>8, <1>9 DEF TxInv

(* Steps that leave the ring and the packet alone. *)
LEMMA QuietStep ==
    ASSUME TxInv, UNCHANGED <<ring, next, work, endpoint, ing, got, gone, recoded>>,
           v5f' \in {"idle", "wait", "publish"}, v5f' # v5f => v5f' # "publish"
    PROVE  TxInv'
<1> USE DEF TxInv, ring, work, endpoint
<1>1. Waiting' = Waiting BY DEF Waiting
<1>2. First' = First BY <1>1 DEF First
<1>3. Types' BY DEF Types
<1>4. Indices' BY <1>1 DEF Indices
<1>5. RingIs' BY <1>1, <1>2 DEF RingIs
<1>6. Copied' /\ OnePacket' BY <1>2 DEF Copied, OnePacket
<1>7. Low' = Low /\ Offered' = Offered BY <1>2 DEF Low, Offered, Coming
<1>8. Order' BY <1>2, <1>7 DEF Order
<1> QED BY <1>3, <1>4, <1>5, <1>6, <1>8

LEMMA PutWritesStep == TxInv /\ PutWrites => TxInv'
<1> SUFFICES ASSUME TxInv, PutWrites PROVE TxInv' OBVIOUS
<1> USE DEF TxInv, work, endpoint, flags, host, bounds
<1>1. UNCHANGED <<head, tail, next, work, endpoint, ing, got, gone, recoded>>
      /\ data' = [data EXCEPT ![At(head)] = next] /\ v5f' = "publish"
  BY DEF PutWrites
<1>2. Waiting' = Waiting BY <1>1 DEF Waiting
<1>3. First' = First BY <1>1, <1>2 DEF First
<1>4. At(head) \in Place BY TxPlaces
<1>5. Types' BY <1>1 DEF Types
<1>6. Waiting < RingSize
  <2>1. RingSize - Waiting # 0 BY DEF PutWrites, Space, Waiting
  <2>2. Waiting \in Nat /\ Waiting <= RingSize BY TxNumbers
  <2> QED BY <2>1, <2>2, RingFacts
<1>7. data'[At(head)] = next BY <1>1, <1>4 DEF Types
<1>8. Indices' BY <1>1, <1>2, <1>6, <1>7 DEF Indices
<1>9. ASSUME NEW i \in 0..Waiting - 1
      PROVE  data'[At(Advance(tail, i))] = First + i
  <2>1. /\ At(Advance(tail, i)) \in Place
        /\ At(Advance(tail, i)) # At(head)
    BY <1>6, TxPlaces
  <2>2. data'[At(Advance(tail, i))] = data[At(Advance(tail, i))]
    BY <1>1, <2>1 DEF Types
  <2> QED BY <2>2 DEF RingIs
<1>10. RingIs' BY <1>1, <1>2, <1>3, <1>9 DEF RingIs
<1>11. Copied' /\ OnePacket' BY <1>1, <1>3 DEF Copied, OnePacket
<1>12. Low' = Low /\ Offered' = Offered BY <1>1, <1>3 DEF Low, Offered, Coming
<1>13. Order' BY <1>1, <1>3, <1>12 DEF Order
<1> QED BY <1>5, <1>8, <1>10, <1>11, <1>13

LEMMA PutPublishesStep == TxInv /\ PutPublishes => TxInv'
<1> SUFFICES ASSUME TxInv, PutPublishes PROVE TxInv' OBVIOUS
<1> USE DEF TxInv, work, endpoint, flags, host, bounds
<1>1. /\ UNCHANGED <<tail, data, work, endpoint, ing, got, gone, recoded>>
      /\ head' = Advance(head, 1) /\ next' = next + 1
      /\ v5f = "publish" /\ v5f' = "idle"
  BY DEF PutPublishes
<1>2. /\ Waiting \in Nat /\ First \in Nat /\ next = First + Waiting
      /\ Waiting < RingSize /\ Waiting + 1 < IndexLimit /\ IndexLimit \in Nat
      /\ RingSize \in Nat /\ next \in Nat /\ Waiting < next
      /\ head \in Index /\ tail \in Index /\ last \in Index
  <2>1. Waiting < RingSize BY <1>1 DEF Indices
  <2>2. RingSize \in Nat /\ IndexLimit \in Nat /\ RingSize < IndexLimit BY RingFacts
  <2> QED BY <2>1, <2>2, TxNumbers DEF Types, Indices
<1>3. Waiting' = Waiting + 1
  <2>1. Count(Advance(head, 1), tail) = Count(head, tail) + 1
    BY <1>2, CountGrows DEF Waiting
  <2> QED BY <1>1, <2>1 DEF Waiting
<1>4. First' = First BY <1>1, <1>2, <1>3 DEF First
<1>5. Types'
  <2>1. head' \in Index
    <3>1. 1 < IndexLimit BY <1>2
    <3> QED BY <1>1, <1>2, <3>1, AdvanceCases
  <2> QED BY <1>1, <2>1 DEF Types
<1>6. Indices'
  <2>1. Waiting' <= RingSize /\ Waiting' < next' BY <1>1, <1>2, <1>3
  <2>2. \A k : k \in 1..Waiting => k \in 1..Waiting' BY <1>2, <1>3
  <2>3. \A k \in Nat : k <= Waiting => k <= Waiting' BY <1>2, <1>3
  <2>4. Count(last, tail) \in Nat
    <3>1. Count(last, tail) \in Index BY <1>2, CountCases
    <3> QED BY <3>1, <1>2 DEF Index
  <2> QED BY <1>1, <2>1, <2>2, <2>3, <2>4 DEF Indices
<1>7. ASSUME NEW i \in 0..Waiting
      PROVE  data[At(Advance(tail, i))] = First + i
  <2>1. CASE i \in 0..Waiting - 1 BY <2>1 DEF RingIs
  <2>2. CASE i = Waiting
    <3>1. Advance(tail, i) = head BY <2>2, TxPlaces
    <3>2. data[At(head)] = next BY <1>1 DEF Indices
    <3> QED BY <3>1, <3>2, <2>2, <1>2
  <2> QED BY <2>1, <2>2, <1>2
<1>8. RingIs'
  <2>1. 0..Waiting' - 1 = 0..Waiting BY <1>2, <1>3
  <2> QED BY <1>1, <1>4, <1>7, <2>1 DEF RingIs
<1>9. Copied' /\ OnePacket' BY <1>1, <1>4 DEF Copied, OnePacket
<1>10. Low' = Low /\ Offered' = Offered BY <1>1, <1>4 DEF Low, Offered, Coming
<1>11. Order' BY <1>1, <1>4, <1>10 DEF Order
<1> QED BY <1>5, <1>6, <1>8, <1>9, <1>11

LEMMA LookStep == TxInv /\ Look => TxInv'
<1> SUFFICES ASSUME TxInv, Look PROVE TxInv' OBVIOUS
<1> USE DEF TxInv, ring, endpoint, host, bounds
<1>1. /\ UNCHANGED <<ring, next, v5f, endpoint, ing, got, gone, recoded>>
      /\ bridge = "poll" /\ bridge' = ToDo
      /\ n' = (IF ToDo = "copy" THEN Smaller(Waiting, PacketSize) ELSE 0)
      /\ last' = (IF ToDo = "discard" THEN head ELSE 0)
  BY DEF Look
<1>2. /\ Waiting \in Nat /\ PacketSize \in Nat /\ PacketSize > 0
      /\ head \in Index /\ 0 \in Index
  BY TxNumbers, RingFacts DEF Types, Index
<1>3. Waiting' = Waiting /\ First' = First BY <1>1 DEF Waiting, First
<1>4. /\ ToDo \in {"poll", "discard", "copy", "arm"}
      /\ ToDo \in {"copy", "arm"} => ~ing
      /\ ToDo = "copy" => Waiting # 0
  BY DEF ToDo
<1>5. /\ n' \in 0..PacketSize
      /\ ToDo = "copy" => n' \in 1..Waiting
      /\ ToDo # "copy" => n' = 0
  <2>1. Waiting # 0 => /\ Smaller(Waiting, PacketSize) \in 1..Waiting
                       /\ Smaller(Waiting, PacketSize) \in 0..PacketSize
    BY <1>2 DEF Smaller
  <2> QED BY <1>1, <1>2, <1>4, <2>1
<1>6. Types' BY <1>1, <1>2, <1>4, <1>5 DEF Types
<1>7. Indices'
  <2>1. bridge' = "discard" => Count(last', tail) = Waiting BY <1>1 DEF Waiting
  <2> QED BY <1>1, <1>2, <1>3, <1>4, <1>5, <2>1 DEF Indices
<1>8. RingIs' BY <1>1, <1>3 DEF RingIs
<1>9. Copied' /\ OnePacket' BY <1>1, <1>4, <1>5 DEF Copied, OnePacket
<1>10. Low' = Low /\ Offered' = Offered
  <2>1. Coming' = 0 /\ Coming = 0 BY <1>1, <1>4, <1>5 DEF Coming
  <2> QED BY <1>1, <1>3, <2>1 DEF Low, Offered
<1>11. Order' BY <1>1, <1>3, <1>10 DEF Order
<1> QED BY <1>6, <1>7, <1>8, <1>9, <1>11

LEMMA DiscardStep == TxInv /\ Discard => TxInv'
<1> SUFFICES ASSUME TxInv, Discard PROVE TxInv' OBVIOUS
<1> USE DEF TxInv, endpoint, flags, bounds
<1> DEFINE c == Count(last, tail)
<1>1. /\ UNCHANGED <<head, data, v5f, next, n, endpoint, ing, got, recoded>>
      /\ bridge = "discard" /\ bridge' = "poll" /\ last' = 0
      /\ tail' = last /\ gone' = gone \cup Bytes(tail, c)
  BY DEF Discard
<1>2. /\ last \in Index /\ tail \in Index /\ 0 \in Index
      /\ Waiting \in Nat /\ First \in Nat /\ First > 0 /\ next \in Nat
      /\ Waiting <= RingSize /\ Waiting < next /\ RingSize \in Nat
  BY TxNumbers, RingFacts DEF Types, Index, Indices
<1>3. c \in 0..Waiting
  <2>1. c \in Index BY <1>2, CountCases
  <2>2. c \in Nat BY <2>1, RingFacts DEF Index
  <2>3. c <= Waiting BY <1>1 DEF Indices
  <2> QED BY <2>2, <2>3, <1>2
<1>4. tail' = Advance(tail, c) BY <1>1, <1>2, AdvanceCount
<1> HIDE DEF c
<1>5. /\ tail' \in Index /\ Waiting' = Waiting - c /\ First' = First + c /\ RingIs'
  BY <1>1, <1>3, <1>4, TailMoves
<1>6. gone' = gone \cup (First..First + c - 1) BY <1>1, <1>3, BytesAre
<1>7. Types' BY <1>1, <1>2, <1>5 DEF Types
<1>8. Indices'
  <2>1. Waiting' <= RingSize /\ Waiting' < next' /\ (Waiting < RingSize => Waiting' < RingSize)
    BY <1>1, <1>2, <1>3, <1>5
  <2> QED BY <1>1, <2>1 DEF Indices
<1>9. Copied' /\ OnePacket' BY <1>1 DEF Copied, OnePacket
<1>10. Order'
  <2>1. SUFFICES ASSUME ~recoded PROVE Order' BY <1>1 DEF Order
  <2>2. Coming = 0 /\ Coming' = 0 BY <1>1 DEF Coming
  <2>3. Offered' = Offered BY <1>1 DEF Offered
  <2>4. CASE Offered
    <3>1. Low' = Low /\ Low = buf[0] BY <1>1, <2>3, <2>4 DEF Low
    <3>2. /\ \A i \in 0..len - 1 : buf[i] = buf[0] + i
          /\ buf[0] + len <= First
          /\ (buf[0] + len)..(First - 1) \subseteq gone
          /\ got < Low /\ (got + 1)..(Low - 1) \subseteq gone
      BY <2>1, <2>4 DEF Order
    <3>3. buf[0] \in Nat /\ len \in Nat BY <1>2, <2>4, TxNumbers DEF Types, Offered
    <3>4. buf'[0] + len' <= First' BY <3>2, <3>3, <1>1, <1>2, <1>3, <1>5
    <3>5. (buf[0] + len)..(First' - 1) \subseteq gone'
      BY <3>2, <3>3, <1>2, <1>3, <1>5, <1>6
    <3> QED BY <1>1, <1>6, <2>3, <3>1, <3>2, <3>4, <3>5 DEF Order
  <2>5. CASE ~Offered
    <3>1. Low = First - 0 /\ Low' = First' - 0 BY <2>2, <2>3, <2>5 DEF Low
    <3>2. got < Low /\ (got + 1)..(Low - 1) \subseteq gone BY <2>1 DEF Order
    <3>3. got \in Nat BY DEF Types
    <3>4. got' < Low' BY <1>1, <1>2, <1>3, <1>5, <3>1, <3>2, <3>3
    <3>5. (got + 1)..(Low' - 1) \subseteq gone'
      BY <1>2, <1>3, <1>5, <1>6, <3>1, <3>2, <3>3
    <3> QED BY <1>1, <2>3, <2>5, <3>4, <3>5 DEF Order
  <2> QED BY <2>4, <2>5
<1> QED BY <1>5, <1>7, <1>8, <1>9, <1>10

LEMMA CopyStep == TxInv /\ Copy => TxInv'
<1> SUFFICES ASSUME TxInv, Copy PROVE TxInv' OBVIOUS
<1> USE DEF TxInv, ring, flags, host, bounds
<1>1. /\ UNCHANGED <<ring, next, v5f, n, last, len, armed, ing, got, gone, recoded>>
      /\ bridge = "copy" /\ bridge' = "free"
      /\ buf' = [i \in 0..PacketSize - 1 |->
                     IF i < n THEN data[At(Advance(tail, i))] ELSE buf[i]]
  BY DEF Copy
<1>2. /\ Waiting \in Nat /\ PacketSize \in Nat /\ n \in 1..Waiting /\ n \in 0..PacketSize
  BY <1>1, TxNumbers DEF Types, Indices
<1>3. Waiting' = Waiting /\ First' = First BY <1>1 DEF Waiting, First
<1>4. buf' \in [0..PacketSize - 1 -> Nat]
  <2>1. ASSUME NEW i \in 0..PacketSize - 1
        PROVE  (IF i < n THEN data[At(Advance(tail, i))] ELSE buf[i]) \in Nat
    <3>1. CASE i < n
      <4>1. i \in 0..Waiting - 1 BY <1>2, <3>1
      <4>2. At(Advance(tail, i)) \in Place BY <4>1, TxPlaces
      <4> QED BY <3>1, <4>2 DEF Types
    <3>2. CASE ~(i < n) BY <3>2 DEF Types
    <3> QED BY <3>1, <3>2
  <2> QED BY <1>1, <2>1
<1>5. Types' BY <1>1, <1>4 DEF Types
<1>6. Indices' BY <1>1, <1>2, <1>3 DEF Indices
<1>7. RingIs' BY <1>1, <1>3 DEF RingIs
<1>8. Copied'
  <2>1. ASSUME NEW i \in 0..n - 1 PROVE buf'[i] = First + i
    <3>1. i \in 0..PacketSize - 1 /\ i \in 0..Waiting - 1 /\ i < n BY <1>2
    <3> QED BY <1>1, <3>1 DEF RingIs
  <2> QED BY <1>1, <1>3, <2>1 DEF Copied
<1>9. OnePacket' /\ ~ing BY <1>1 DEF OnePacket
<1>10. Order'
  <2>1. SUFFICES ASSUME ~recoded PROVE Order' BY <1>1 DEF Order
  <2>2. ~armed BY <1>9, <2>1 DEF OnePacket, Types
  <2>3. ~Offered /\ ~Offered' BY <1>1, <2>2 DEF Offered
  <2>4. Low' = Low BY <1>1, <1>3, <2>3 DEF Low, Coming
  <2> QED BY <1>1, <2>3, <2>4 DEF Order
<1> QED BY <1>5, <1>6, <1>7, <1>8, <1>9, <1>10

LEMMA FreeStep == TxInv /\ Free => TxInv'
<1> SUFFICES ASSUME TxInv, Free PROVE TxInv' OBVIOUS
<1> USE DEF TxInv, endpoint, flags, host, bounds
<1>1. /\ UNCHANGED <<head, data, v5f, next, n, last, endpoint, ing, got, gone, recoded>>
      /\ bridge = "free" /\ bridge' = "arm"
      /\ tail' = Advance(tail, n)
  BY DEF Free
<1>2. /\ Waiting \in Nat /\ First \in Nat /\ next \in Nat
      /\ Waiting <= RingSize /\ Waiting < next /\ RingSize \in Nat
      /\ n \in 1..Waiting /\ n \in 0..Waiting
  BY <1>1, TxNumbers, RingFacts DEF Types, Indices
<1>3. /\ tail' \in Index /\ Waiting' = Waiting - n /\ First' = First + n /\ RingIs'
  BY <1>1, <1>2, TailMoves
<1>4. Types' BY <1>1, <1>3 DEF Types
<1>5. Indices'
  <2>1. Waiting' <= RingSize /\ Waiting' < next' /\ (Waiting < RingSize => Waiting' < RingSize)
    BY <1>1, <1>2, <1>3
  <2> QED BY <1>1, <2>1 DEF Indices
<1>6. Copied' /\ OnePacket' /\ ~ing
  <2>1. First' - n = First BY <1>2, <1>3
  <2> QED BY <1>1, <2>1 DEF Copied, OnePacket
<1>7. Order'
  <2>1. SUFFICES ASSUME ~recoded PROVE Order' BY <1>1 DEF Order
  <2>2. ~armed BY <1>6, <2>1, <1>1 DEF OnePacket, Types
  <2>3. ~Offered /\ ~Offered' BY <1>1, <2>2 DEF Offered
  <2>4. Low' = Low
    <3>1. Coming = 0 /\ Coming' = n BY <1>1 DEF Coming
    <3>2. First - 0 = First' - n BY <1>2, <1>3
    <3> QED BY <2>3, <3>1, <3>2 DEF Low
  <2> QED BY <1>1, <2>3, <2>4 DEF Order
<1> QED BY <1>3, <1>4, <1>5, <1>6, <1>7

LEMMA ArmStep == TxInv /\ Arm => TxInv'
<1> SUFFICES ASSUME TxInv, Arm PROVE TxInv' OBVIOUS
<1> USE DEF TxInv, ring, host, bounds
<1>1. /\ UNCHANGED <<ring, next, v5f, last, buf, got, gone, recoded>>
      /\ bridge = "arm" /\ bridge' = "poll" /\ n' = 0
      /\ ing' = TRUE /\ len' = n /\ armed' = TRUE
  BY DEF Arm
<1>2. Waiting' = Waiting /\ First' = First BY <1>1 DEF Waiting, First
<1>3. Types'
  <2>1. armed' \in BOOLEAN /\ ing' \in BOOLEAN /\ recoded' \in BOOLEAN BY <1>1 DEF Types
  <2>2. n' \in 0..PacketSize /\ len' \in 0..PacketSize BY <1>1, TxNumbers DEF Types
  <2> QED BY <1>1, <2>1, <2>2 DEF Types
<1>4. Indices' BY <1>1, <1>2 DEF Indices
<1>5. RingIs' BY <1>1, <1>2 DEF RingIs
<1>6. Copied' /\ OnePacket' BY <1>1 DEF Copied, OnePacket
<1>7. Order'
  <2>1. SUFFICES ASSUME ~recoded PROVE Order' BY <1>1 DEF Order
  <2>2. ~armed BY <1>1, <2>1 DEF OnePacket
  <2>3. Low = First - n BY <1>1, <2>2 DEF Low, Offered, Coming
  <2>4. /\ First \in Nat /\ n \in Nat BY TxNumbers DEF Types
  <2>5. got < Low /\ (got + 1)..(Low - 1) \subseteq gone BY <2>1 DEF Order
  <2>6. CASE n = 0
    <3>1. ~Offered' BY <1>1, <2>6 DEF Offered
    <3>2. Coming' = 0 BY <1>1 DEF Coming
    <3>3. Low' = Low BY <1>2, <2>3, <2>6, <3>1, <3>2 DEF Low
    <3> QED BY <1>1, <2>5, <3>1, <3>3 DEF Order
  <2>7. CASE n # 0
    <3>1. Offered' BY <1>1, <2>4, <2>7 DEF Offered
    <3>2. \A i \in 0..n - 1 : buf[i] = First - n + i BY <1>1 DEF Copied
    <3>3. 0 \in 0..n - 1 BY <2>4, <2>7
    <3>4. buf[0] = First - n BY <2>4, <3>2, <3>3
    <3>5. \A i \in 0..n - 1 : buf[i] = buf[0] + i BY <2>4, <3>2, <3>4
    <3>6. buf[0] + n = First BY <2>4, <3>4
    <3>7. (buf[0] + n)..(First - 1) = {} BY <2>4, <3>6
    <3>8. buf[0] + n <= First BY <2>4, <3>6
    <3>9. Low' = Low BY <1>1, <2>3, <3>1, <3>4 DEF Low
    <3> QED BY <1>1, <1>2, <2>5, <3>5, <3>7, <3>8, <3>9 DEF Order
  <2> QED BY <2>6, <2>7
<1> QED BY <1>3, <1>4, <1>5, <1>6, <1>7

LEMMA TakeStep == TxInv /\ Take => TxInv'
<1> SUFFICES ASSUME TxInv, Take PROVE TxInv' OBVIOUS
<1> USE DEF TxInv, ring, work, bounds
<1>1. /\ UNCHANGED <<ring, next, v5f, work, buf, len, gone, recoded>>
      /\ armed /\ armed' = FALSE /\ ing' = FALSE
      /\ got' = (IF len = 0 THEN got ELSE buf[len - 1])
  BY DEF Take
<1>2. Waiting' = Waiting /\ First' = First BY <1>1 DEF Waiting, First
<1>3. len \in Nat /\ len <= PacketSize /\ PacketSize \in Nat /\ First \in Nat
      /\ got \in Nat
  BY TxNumbers DEF Types
<1>4. got' \in Nat
  <2>1. CASE len = 0 BY <1>1, <1>3, <2>1
  <2>2. CASE len # 0
    <3>1. len - 1 \in 0..PacketSize - 1 BY <1>3, <2>2
    <3> QED BY <1>1, <2>2, <3>1 DEF Types
  <2> QED BY <2>1, <2>2
<1>5. Types'
  <2>1. armed' \in BOOLEAN /\ ing' \in BOOLEAN /\ recoded' \in BOOLEAN BY <1>1 DEF Types
  <2> QED BY <1>1, <1>4, <2>1 DEF Types
<1>6. Indices' BY <1>1, <1>2 DEF Indices
<1>7. RingIs' BY <1>1, <1>2 DEF RingIs
<1>8. Copied' BY <1>1, <1>2 DEF Copied
<1>9. OnePacket' BY <1>1 DEF OnePacket
<1>10. Order'
  <2>1. SUFFICES ASSUME ~recoded PROVE Order' BY <1>1 DEF Order
  <2>2. bridge \notin {"copy", "free", "arm"} BY <1>1, <2>1 DEF OnePacket
  <2>3. Coming = 0 /\ Coming' = 0 BY <1>1, <2>2 DEF Coming
  <2>4. ~Offered' BY <1>1 DEF Offered
  <2>5. Low' = First BY <1>2, <1>3, <2>3, <2>4 DEF Low
  <2>6. got < Low /\ (got + 1)..(Low - 1) \subseteq gone BY <2>1 DEF Order
  <2>7. CASE len = 0
    <3>1. Low = First BY <1>3, <2>3, <2>7 DEF Low, Offered
    <3> QED BY <1>1, <2>4, <2>5, <2>6, <2>7, <3>1 DEF Order
  <2>8. CASE len # 0
    <3>1. Offered BY <1>1, <1>3, <2>8 DEF Offered
    <3>2. /\ \A i \in 0..len - 1 : buf[i] = buf[0] + i
          /\ buf[0] + len <= First
          /\ (buf[0] + len)..(First - 1) \subseteq gone
      BY <2>1, <3>1 DEF Order
    <3>3. len - 1 \in 0..len - 1 /\ 0 \in 0..PacketSize - 1 BY <1>3, <2>8
    <3>4. buf[0] \in Nat BY <3>3 DEF Types
    <3>5. got' = buf[0] + (len - 1) BY <1>1, <2>8, <3>2, <3>3
    <3>6. got' < Low' BY <1>3, <2>5, <3>2, <3>4, <3>5
    <3>7. (got' + 1)..(Low' - 1) = (buf[0] + len)..(First - 1)
      BY <1>3, <2>5, <3>4, <3>5
    <3> QED BY <1>1, <2>4, <3>2, <3>6, <3>7 DEF Order
  <2> QED BY <2>7, <2>8
<1> QED BY <1>5, <1>6, <1>7, <1>8, <1>9, <1>10

LEMMA SetLineCodingStep == TxInv /\ SetLineCoding => TxInv'
<1> SUFFICES ASSUME TxInv, SetLineCoding PROVE TxInv' OBVIOUS
<1> USE DEF TxInv, ring, work, endpoint, host
<1>1. /\ UNCHANGED <<ring, next, v5f, work, endpoint, got, gone>>
      /\ ing' = FALSE /\ recoded' = (recoded \/ armed)
  BY DEF SetLineCoding, ParaInit
<1>2. Waiting' = Waiting /\ First' = First BY <1>1 DEF Waiting, First
<1>3. recoded' \in BOOLEAN /\ ing' \in BOOLEAN BY <1>1 DEF Types
<1>4. Types' BY <1>1, <1>3 DEF Types
<1>5. Indices' BY <1>1, <1>2 DEF Indices
<1>6. RingIs' BY <1>1, <1>2 DEF RingIs
<1>7. Copied' /\ OnePacket' BY <1>1, <1>2 DEF Copied, OnePacket
<1>8. Low' = Low /\ Offered' = Offered BY <1>1, <1>2 DEF Low, Offered, Coming
<1>9. Order' BY <1>1, <1>2, <1>8 DEF Order
<1> QED BY <1>4, <1>5, <1>6, <1>7, <1>9

LEMMA BusResetStep == TxInv /\ BusReset => TxInv'
<1> SUFFICES ASSUME TxInv, BusReset PROVE TxInv' OBVIOUS
<1> USE DEF TxInv, ring, work
<1>1. /\ UNCHANGED <<ring, next, v5f, work, buf, got, recoded>>
      /\ ing' = FALSE /\ armed' = FALSE /\ len' = 0
      /\ gone' = (IF armed THEN gone \cup {buf[i] : i \in 0..len - 1} ELSE gone)
  BY DEF BusReset, ParaInit
<1>2. Waiting' = Waiting /\ First' = First BY <1>1 DEF Waiting, First
<1>3. Types'
  <2>1. armed' \in BOOLEAN /\ ing' \in BOOLEAN /\ recoded' \in BOOLEAN BY <1>1 DEF Types
  <2>2. len' \in 0..PacketSize BY <1>1, TxNumbers
  <2> QED BY <1>1, <2>1, <2>2 DEF Types
<1>4. Indices' BY <1>1, <1>2 DEF Indices
<1>5. RingIs' BY <1>1, <1>2 DEF RingIs
<1>6. Copied' /\ OnePacket' BY <1>1, <1>2 DEF Copied, OnePacket
<1>7. Order'
  <2>1. SUFFICES ASSUME ~recoded PROVE Order' BY <1>1 DEF Order
  <2>2. ~Offered' BY <1>1 DEF Offered
  <2>3. got < Low /\ (got + 1)..(Low - 1) \subseteq gone BY <2>1 DEF Order
  <2>4. gone \subseteq gone' BY <1>1
  <2>5. First \in Nat /\ got \in Nat /\ PacketSize \in Nat /\ PacketSize > 0
        /\ len \in Nat
    BY TxNumbers DEF Types
  <2>6. CASE ~Offered
    <3>1. Low' = Low BY <1>1, <1>2, <2>2, <2>6 DEF Low, Coming
    <3> QED BY <1>1, <2>2, <2>3, <2>4, <3>1 DEF Order
  <2>7. CASE Offered
    <3>1. armed /\ ing /\ len > 0 BY <2>1, <2>7 DEF Offered, OnePacket
    <3>2. Coming' = 0 BY <1>1, <3>1 DEF Coming, OnePacket
    <3>3. Low = buf[0] /\ Low' = First BY <1>2, <2>2, <2>5, <2>7, <3>2 DEF Low
    <3>4. /\ \A i \in 0..len - 1 : buf[i] = buf[0] + i
          /\ buf[0] + len <= First
          /\ (buf[0] + len)..(First - 1) \subseteq gone
      BY <2>1, <2>7 DEF Order
    <3>5. buf[0] \in Nat
      <4>1. 0 \in 0..PacketSize - 1 BY <2>5
      <4> QED BY <4>1 DEF Types
    <3>6. got' < Low' BY <1>1, <2>3, <2>5, <3>1, <3>3, <3>4, <3>5
    <3>7. ASSUME NEW b \in (got + 1)..(First - 1) PROVE b \in gone'
      <4>1. b \in Int /\ got + 1 <= b /\ b <= First - 1 BY <2>5
      <4>2. CASE b < buf[0]
        <5>1. b \in (got + 1)..(Low - 1) BY <4>1, <4>2, <3>3, <3>5
        <5> QED BY <5>1, <2>3, <2>4
      <4>3. CASE b >= buf[0] + len
        <5>1. b \in (buf[0] + len)..(First - 1) BY <4>1, <4>3, <3>5, <2>5
        <5> QED BY <5>1, <3>4, <2>4
      <4>4. CASE buf[0] <= b /\ b < buf[0] + len
        <5> DEFINE i == b - buf[0]
        <5>1. i \in 0..len - 1 /\ buf[0] + i = b BY <4>1, <4>4, <3>5, <2>5
        <5>2. buf[i] = b BY <5>1, <3>4
        <5>3. b \in {buf[k] : k \in 0..len - 1} BY <5>1, <5>2
        <5> QED BY <1>1, <3>1, <5>3
      <4> QED BY <4>1, <4>2, <4>3, <4>4, <3>5, <2>5
    <3> QED BY <1>1, <2>2, <3>3, <3>6, <3>7 DEF Order
  <2> QED BY <2>6, <2>7
<1> QED BY <1>3, <1>4, <1>5, <1>6, <1>7

LEMMA TxStep == TxInv /\ [Next]_vars => TxInv'
<1> SUFFICES ASSUME TxInv, [Next]_vars PROVE TxInv' OBVIOUS
<1> USE DEF ring, work, endpoint, flags, host, bounds
<1>1. v5f \in {"idle", "wait", "publish"} BY DEF TxInv, Types
<1>2. CASE Put BY <1>1, <1>2, QuietStep DEF Put
<1>3. CASE PutDrops BY <1>1, <1>3, QuietStep DEF PutDrops
<1>4. CASE PutWrites BY <1>4, PutWritesStep
<1>5. CASE PutPublishes BY <1>5, PutPublishesStep
<1>6. CASE Look BY <1>6, LookStep
<1>7. CASE Discard BY <1>7, DiscardStep
<1>8. CASE Copy BY <1>8, CopyStep
<1>9. CASE Free BY <1>9, FreeStep
<1>10. CASE Arm BY <1>10, ArmStep
<1>11. CASE Take BY <1>11, TakeStep
<1>12. CASE Configure BY <1>1, <1>12, QuietStep DEF Configure
<1>13. CASE SetLineCoding BY <1>13, SetLineCodingStep
<1>14. CASE BusReset BY <1>14, BusResetStep
<1>15. CASE TimeOut BY <1>1, <1>15, QuietStep DEF TimeOut
<1>16. CASE \E dtr \in BOOLEAN : SetLineState(dtr)
  BY <1>1, <1>16, QuietStep DEF SetLineState
<1>17. CASE UNCHANGED vars BY <1>1, <1>17, QuietStep DEF vars
<1> QED BY <1>2, <1>3, <1>4, <1>5, <1>6, <1>7, <1>8, <1>9, <1>10, <1>11, <1>12, <1>13,
           <1>14, <1>15, <1>16, <1>17 DEF Next, Putc, Poll

-----------------------------------------------------------------------------
(* The ring holds what the V5F last wrote, in order, and what waits in
   endpoint 3 continues what the host took: the invariant the two promises
   below rest on (cdc_ring_put, cdc_ring_get, ring_to_host). *)
THEOREM CdcTxInv == Spec => []TxInv
<1>1. Init => TxInv BY TxInitInv
<1>2. TxInv /\ [Next]_vars => TxInv' BY TxStep
<1> QED BY <1>1, <1>2, PTL DEF Spec

LEMMA TxInvPacket == TxInv => PacketIsNext
<1> SUFFICES ASSUME TxInv, armed, ~recoded, NEW i \in 0..len - 1
             PROVE  /\ buf[i] > Before(i)
                    /\ (Before(i) + 1)..(buf[i] - 1) \subseteq gone
  BY DEF PacketIsNext
<1> USE DEF TxInv
<1>1. len \in Nat /\ len <= PacketSize /\ PacketSize \in Nat /\ got \in Nat
  BY TxNumbers DEF Types
<1>2. Offered BY <1>1 DEF Offered
<1>3. \A k \in 0..len - 1 : buf[k] = buf[0] + k BY <1>2 DEF Order
<1>4. buf[0] \in Nat
  <2>1. 0 \in 0..PacketSize - 1 BY <1>1
  <2> QED BY <2>1 DEF Types
<1>5. CASE i = 0
  <2>1. Before(i) = got /\ Low = buf[0] BY <1>2, <1>5 DEF Before, Low
  <2>2. got < Low /\ (got + 1)..(Low - 1) \subseteq gone BY DEF Order
  <2> QED BY <1>1, <1>4, <1>5, <2>1, <2>2
<1>6. CASE i # 0
  <2>1. i - 1 \in 0..len - 1 BY <1>1, <1>6
  <2>2. buf[i] = buf[0] + i /\ Before(i) = buf[0] + (i - 1)
    BY <1>3, <1>6, <2>1 DEF Before
  <2>3. buf[i] > Before(i) /\ (Before(i) + 1)..(buf[i] - 1) = {} BY <1>1, <1>4, <2>2
  <2> QED BY <2>3
<1> QED BY <1>5, <1>6

LEMMA TxInvNothingLost == TxInv => NothingLost
<1> SUFFICES ASSUME TxInv, ~recoded, NEW b \in (got + 1)..(next - 1)
             PROVE  b \in gone \cup InRing \cup InPacket \cup BeingSent
  BY DEF NothingLost, HeldAppears
<1> USE DEF TxInv
<1>1. /\ len \in Nat /\ n \in Nat /\ got \in Nat /\ next \in Nat /\ First \in Nat
      /\ Waiting \in Nat /\ next = First + Waiting
  BY TxNumbers DEF Types
<1>2. b \in Nat /\ b >= got + 1 /\ b <= next - 1 BY <1>1
<1>3. CASE b >= First
  <2>1. b \in First..First + Waiting - 1 BY <1>1, <1>2, <1>3
  <2>2. InRing = First..First + Waiting - 1
    <3>1. Waiting \in 0..Waiting BY <1>1
    <3> QED BY <3>1, BytesAre DEF InRing
  <2> QED BY <2>1, <2>2
<1>4. CASE b < Low
  <2>1. (got + 1)..(Low - 1) \subseteq gone BY DEF Order
  <2>2. Low \in Int BY <1>1, TxNumbers DEF Low, Coming, Types, Offered
  <2> QED BY <1>1, <1>2, <1>4, <2>1, <2>2
<1>5. CASE b < First /\ b >= Low /\ Offered
  <2>1. /\ \A i \in 0..len - 1 : buf[i] = buf[0] + i
        /\ (buf[0] + len)..(First - 1) \subseteq gone
        /\ Low = buf[0]
    BY <1>5 DEF Order, Low
  <2>2. buf[0] \in Nat BY <1>5, <1>1, TxNumbers DEF Types, Offered
  <2>3. CASE b >= buf[0] + len
    <3>1. b \in (buf[0] + len)..(First - 1) BY <1>1, <1>2, <1>5, <2>2, <2>3
    <3> QED BY <2>1, <3>1
  <2>4. CASE b < buf[0] + len
    <3> DEFINE i == b - buf[0]
    <3>1. i \in 0..len - 1 /\ buf[0] + i = b BY <1>1, <1>2, <1>5, <2>1, <2>2, <2>4
    <3>2. buf[i] = b BY <2>1, <3>1
    <3> QED BY <1>5, <3>1, <3>2 DEF InPacket, Offered
  <2> QED BY <1>1, <1>2, <2>2, <2>3, <2>4
<1>6. CASE b < First /\ b >= Low /\ ~Offered
  <2>1. Low = First - Coming BY <1>6 DEF Low
  <2>2. bridge = "arm" /\ Coming = n BY <1>1, <1>2, <1>6, <2>1 DEF Coming
  <2> DEFINE i == b - (First - n)
  <2>3. i \in 0..n - 1 /\ First - n + i = b BY <1>1, <1>2, <1>6, <2>1, <2>2
  <2>4. buf[i] = b BY <2>2, <2>3 DEF Copied
  <2> QED BY <2>2, <2>3, <2>4 DEF BeingSent
<1>7. Low \in Int BY <1>1, TxNumbers DEF Low, Coming, Types, Offered
<1> QED BY <1>1, <1>2, <1>3, <1>4, <1>5, <1>6, <1>7

(* The packet endpoint 3 holds out continues what the host took, whatever the
   two cores, the interrupt and the host do meanwhile (ring_to_host, ep3_arm
   and the interrupt's EP3 branch). *)
THEOREM CdcTxPacketIsNext == Spec => []PacketIsNext
BY CdcTxInv, TxInvPacket, PTL

(* Every byte serial_putc wrote is held until the host takes it, or was given
   up on purpose (ring_to_host's hold and ring_discard). *)
THEOREM CdcTxNothingLost == Spec => []NothingLost
BY CdcTxInv, TxInvNothingLost, PTL
=============================================================================
